SPECIFICATION Spec
CONSTANTS
    Lines <- SomeLines
    Files <- SomeFiles
    Frames <- SomeFrames
    Prices = {1, 2}
    AdSlots <- SomeAdSlots
    ReadMayFail = TRUE
CHECK_DEADLOCK FALSE
INVARIANTS
    TypeOK
    IndexesExact
    CreativesOwned
    SnapshotIsTheFile
    CandidatesExact
    BestBidWins
PROPERTIES
    ImplementsAuction
