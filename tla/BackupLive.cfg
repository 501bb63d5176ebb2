SPECIFICATION Spec
CONSTANTS
    Paths = {1, 2}
    Sources <- TwoPaths
    Data = {0, 1, 2}
    EmptyData = 0
    SizeOf <- MCSizeOf
    ExtensionRank <- SameRank
    HashAutoLimit = 2
    Garbage = Garbage
    NoHash = NoHash
    Snapshots = {TRUE, FALSE}
    Locked = {}
    Criteria = {"Date", "Hash"}
    Exclusions <- NoExclusion
    InitialFiles = {1}
    InitialData = 1
    Writable = {1, 2}
    Linkable <- NoLinks
    IdleEdits = {"write"}
    LiveEdits = {"write", "create", "delete"}
    Deletions = {}
    MaxRetries = 0
    MaxVersion = 1
    MaxClock = 3
INVARIANTS
    RestoreIntegrity
PROPERTIES
    SessionEnds
CHECK_DEADLOCK FALSE
