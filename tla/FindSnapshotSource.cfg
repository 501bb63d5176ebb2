SPECIFICATION Spec
CONSTANTS
    Paths = {1, 2}
    Sources <- TwoPaths
    Data = {0, 1}
    EmptyData = 0
    SizeOf <- MCSizeOf
    ExtensionRank <- SameRank
    HashAutoLimit = 2
    Garbage = Garbage
    NoHash = NoHash
    Snapshots = {TRUE}
    Locked = {}
    Criteria = {"Hash"}
    Exclusions <- NoExclusion
    InitialFiles = {1}
    InitialData = 1
    Writable = {1}
    Linkable <- NoLinks
    IdleEdits = {"write"}
    LiveEdits = {}
    Deletions = {}
    MaxRetries = 0
    MaxVersion = 1
    MaxClock = 1
INVARIANTS
    RestoresToItsSource
CHECK_DEADLOCK FALSE
