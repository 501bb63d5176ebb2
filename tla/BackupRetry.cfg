SPECIFICATION Spec
CONSTANTS
    Paths = {1, 2}
    Sources <- TwoPaths
    Data = {0, 1}
    EmptyData = 0
    SizeOf <- MCSizeOf
    ExtensionRank <- SameRank
    HashAutoLimit = 2
    Garbage = Garbage
    NoHash = NoHash
    Snapshots = {FALSE}
    Locked = {1}
    Criteria = {"ArchiveFlag", "Hash"}
    Exclusions <- ChangingFiles
    InitialFiles = {1, 2}
    InitialData = 1
    Writable = {0, 1}
    Linkable <- LinkAfterTarget
    IdleEdits = {"write", "create", "delete", "hardlink"}
    LiveEdits = {}
    Deletions = {}
    MaxRetries = 1
    MaxVersion = 2
    MaxClock = 2
INVARIANTS
    StreamIdsGrow
CHECK_DEADLOCK FALSE
