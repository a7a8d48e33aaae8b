SPECIFICATION FairSpec
CONSTANTS
    Clients = {c1}
    None = None
    MaxRequests = 1
    Chunks <- MCOne
    Workers = {w1}
    Nodes = {n1}
    Beats = {b1}
    MaxBeats = 1
    NoJob = NoJob
    MaxInterrupts = 1
    DrainSeconds = 1
INVARIANTS OneHolder KilledOnlyUnprotected
PROPERTIES EachAsAlone AwaitedIsAnswered StopsInTheEnd
CHECK_DEADLOCK FALSE
