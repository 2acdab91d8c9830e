SPECIFICATION Spec
CONSTANTS
    Workers = {first, second}
    Width = 6
    FirstLeft = 3
    Right = 1
    SecondLeft = 4
INVARIANTS
    ShiftsGiveNoZero
    StreamsNeverMeet
