\* Short, empty and long replies, one read at a time.
SPECIFICATION FairSpec
CONSTANTS
    FileSize = 9
    ChunkSize = 3
    LowWatermark = 2
    HighWatermark = 4
    PipelineDepth = 1
    InitialBuffer = 0
    Shortfall = 2
    Excess = 2
    MaxPos = 12
    ReadLens = {1, 3, 5}
    Seeks <- MCSeeks
    NoCall = NoCall
    Fill = Fill
INVARIANTS
    BufferIsFile
    BufferInFile
PROPERTIES
    CallsReturn
    PlaybackEnds
