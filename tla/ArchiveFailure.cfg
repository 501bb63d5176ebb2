SPECIFICATION WriterSpec
CONSTANTS
    capacity = 1
    SegmentSize = 1
    BufferSize = 2
    MayFail = {"LzmaSink", "StdStreamSink"}
    Tokens <- TokensOfAll
    Archives <- PlainArchive
INVARIANTS
    VerifyDetectsLoss
CHECK_DEADLOCK FALSE
