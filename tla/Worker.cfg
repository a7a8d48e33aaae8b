SPECIFICATION FairSpec
CONSTANTS
    Workers = {w1}
    Jobs = {j1, j2}
    Beats = {b1}
    NoJob = NoJob
    AgeCutoff = 0
    MaxInterrupts = 2
    MaxBeats = 1
INVARIANTS YoungIsRemembered NoWorkOnInterrupted RememberedIsCulled
PROPERTIES ReportsBack InterruptsAreRead
CHECK_DEADLOCK FALSE
