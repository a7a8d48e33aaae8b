SPECIFICATION Spec
CONSTANTS
    Clients = {c1}
    None = None
    MaxRequests = 2
    RequestTimeout = 0
    Expires = TRUE
    ProxyFails = FALSE
    MatcherFails = FALSE
    BlankResults = FALSE
    Chunks <- MCChunks
INVARIANT EndsOnShutdownOnly
