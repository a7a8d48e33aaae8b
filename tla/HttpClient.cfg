SPECIFICATION StreamSpec
CONSTANTS
    Streams <- MCStreams
    MaxULong = 99
INVARIANTS WholeResponses BodyNeverWraps
CHECK_DEADLOCK FALSE
