SPECIFICATION FairSpec
CONSTANTS
    Chars = {"0", "1", "2", ":", ","}
    MaxSize = 2
    MaxULong = 11
    MaxChunk = 3
    MaxStream = 7
INVARIANTS BufferBounded ChunksDoNotMatter RoundTrip
PROPERTY CallEnds
CHECK_DEADLOCK FALSE
