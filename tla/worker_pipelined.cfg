\* Full replies to pipelined reads, with seeks, failures and timeouts.
SPECIFICATION Spec
CONSTANTS
    FileSize = 7
    ChunkSize = 2
    LowWatermark = 1
    HighWatermark = 5
    PipelineDepth = 3
    InitialBuffer = 2
    Shortfall = 0
    Excess = 0
    MaxPos = 9
    ReadLens = {0, 1, 3, 6}
    Seeks <- MCSeeks
    NoCall = NoCall
    Fill = Fill
INVARIANTS
    TypeOK
    PositionsAgree
    EofExact
    PrefetchBound
PROPERTIES
    PrefillSettles
    ImplementsMediaStream
