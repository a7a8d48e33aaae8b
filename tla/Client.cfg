SPECIFICATION FairSpec
CONSTANTS
    Total = 10
    batch_size = 4
INVARIANTS InFlightBounded WaitsForSomething CollectsUnlessSplit
PROPERTY BatchReturns
CHECK_DEADLOCK FALSE
