SPECIFICATION WriterSpec
CONSTANTS
    capacity = 1
    SegmentSize = 1
    BufferSize = 2
    MayFail = {}
    Tokens <- TokensOfAll
    Archives <- WrittenArchives
INVARIANTS
    TypeOK
    ResultsExact
PROPERTIES
    ImplementsArchiveFile
    CommandEnds
CHECK_DEADLOCK FALSE
