SPECIFICATION FairSpec
CONSTANTS
    Streams <- MCStreams
    None = None
    MaxSize = 24
    MaxULong = 29
    MaxChunk = 3
INVARIANTS CutsDelimiterOnly ChunksDoNotMatter RefusesTooLarge 
PROPERTY CallEnds
CHECK_DEADLOCK FALSE
