SPECIFICATION Spec
CONSTANTS
    Paths = {1, 2}
    Sources <- TwoPaths
    Data = {0, 1, 3}
    EmptyData = 0
    SizeOf <- MCSizeOf
    ExtensionRank <- ReverseRank
    HashAutoLimit = 2
    Garbage = Garbage
    NoHash = NoHash
    Snapshots = {FALSE}
    Locked = {}
    Criteria = {"Date", "HashAuto"}
    Exclusions <- NoExclusion
    InitialFiles = {1, 2}
    InitialData = 0
    Writable = {0, 1, 3}
    Linkable <- NoLinks
    IdleEdits = {"write", "create", "delete"}
    LiveEdits = {}
    Deletions = {}
    MaxRetries = 0
    MaxVersion = 2
    MaxClock = 3
INVARIANTS
    TypeOK
    RestoreIntegrity
    DependenciesClosed
    StreamIdsGrow
    AuxMatchesArchive
    UnchangedNotStoredAgain
PROPERTIES
    CommittedVersionsPermanent
    ImplementsVersionStore
CHECK_DEADLOCK FALSE
