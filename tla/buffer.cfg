\* Chunks of up to 3 bytes, blocks of up to 4, at most 5 bytes buffered.
CONSTANTS
    Bytes = {"a", "b"}
    Chunks <- MCChunks
    PopLens = {0, 1, 2, 4}
    Capacity = 5
SPECIFICATION BufferSpec
PROPERTY ImplementsByteQueue
