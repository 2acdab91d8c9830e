SPECIFICATION ListSpec
CONSTANTS
    MaxValue = 2
    MaxLength = 6
    MaxCount = 130
CHECK_DEADLOCK FALSE
INVARIANTS
    RankIsExact
