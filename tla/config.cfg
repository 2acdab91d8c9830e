SPECIFICATION Spec
CONSTANTS
    Words <- SomeWords
    MaxArgs = 4
    NumberOf <- Numbers
    IntMax = 131071
    U64Max = 262143
CHECK_DEADLOCK FALSE
INVARIANTS
    AcceptedConfigRuns
    LastOptionWins
