SPECIFICATION ReaderSpec
CONSTANTS
    capacity = 1
    SegmentSize = 2
    BufferSize = 2
    MayFail = {}
    Tokens <- TokensOfAll
    Archives <- ReadArchives
INVARIANTS
    FilesRestoredExactly
    ListsReadExactly
PROPERTIES
    ReadingEnds
CHECK_DEADLOCK FALSE
