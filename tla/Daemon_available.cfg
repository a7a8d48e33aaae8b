SPECIFICATION Spec
CONSTANTS
    Clients = {c1}
    None = None
    MaxRequests = 2
    Chunks <- MCPair
    Workers = {w1}
    Nodes = {n1}
    Beats = {b1}
    MaxBeats = 2
    NoJob = NoJob
    MaxInterrupts = 1
    DrainSeconds = 1
INVARIANT SendsToAvailable
CHECK_DEADLOCK FALSE
