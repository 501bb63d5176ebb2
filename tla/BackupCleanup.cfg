SPECIFICATION Spec
CONSTANTS
    Paths = {1, 2}
    Sources <- TwoPaths
    Data = {0, 1, 2}
    EmptyData = 0
    SizeOf <- MCSizeOf
    ExtensionRank <- ReverseRank
    HashAutoLimit = 2
    Garbage = Garbage
    NoHash = NoHash
    Snapshots = {FALSE}
    Locked = {}
    Criteria = {"Size"}
    Exclusions <- ChangingDirectories
    InitialFiles = {1, 2}
    InitialData = 1
    Writable = {0, 1, 2}
    Linkable <- LinkAfterTarget
    IdleEdits = {"write", "delete", "symlink"}
    LiveEdits = {}
    Deletions = {"version", "aux"}
    MaxRetries = 0
    MaxVersion = 2
    MaxClock = 2
INVARIANTS
    RestoreIntegrity
    StreamIdsGrow
    UnchangedNotStoredAgain
CHECK_DEADLOCK FALSE
