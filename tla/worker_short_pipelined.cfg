\* Short replies to pipelined reads.
SPECIFICATION Spec
CONSTANTS
    FileSize = 6
    ChunkSize = 2
    LowWatermark = 1
    HighWatermark = 4
    PipelineDepth = 2
    InitialBuffer = 2
    Shortfall = 1
    Excess = 0
    MaxPos = 9
    ReadLens = {3}
    Seeks <- NoSeeks
    NoCall = NoCall
    Fill = Fill
INVARIANT
    BufferIsFile
