SPECIFICATION FairSpec
CONSTANTS
    Clients = {c1}
    None = None
    MaxRequests = 2
    RequestTimeout = 1
    Expires = TRUE
    ProxyFails = TRUE
    MatcherFails = TRUE
    BlankResults = TRUE
    Chunks <- MCChunks
INVARIANTS AtMostOneReply WritableHasSession AwaitedIsTracked InterruptedNotAwaited
PROPERTIES AwaitedIsSettled LeavesNoTrace
