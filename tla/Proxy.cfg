SPECIFICATION FairSpec
CONSTANTS
    Workers = {w1, w2}
    Jobs = {j1, j2}
    Nodes = {n1, n2}
    Beats = {b1, b2}
    None = None
    MaxBeats = 1
INVARIANTS Bidirectional ChooserSeesLatest JobHasTaker JobsConserved
PROPERTIES BalancesLoad IdleTakesJob
CHECK_DEADLOCK FALSE
