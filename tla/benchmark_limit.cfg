SPECIFICATION FairSpec
CONSTANTS
    Workers = {w1, w2}
    RequestLimit = 2
    MaxTime = 0
    MaxRequests = 4
    MaxPending = 2
CHECK_DEADLOCK FALSE
INVARIANTS
    LimitIsSeen
PROPERTIES
    LimitEndsBenchmark
