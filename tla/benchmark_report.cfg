SPECIFICATION Spec
CONSTANTS
    Workers = {w1}
    RequestLimit = 2
    MaxTime = 2
    MaxRequests = 2
    MaxPending = 1
CHECK_DEADLOCK FALSE
INVARIANTS
    PhasesWithinTotal
    SummariesAgree
