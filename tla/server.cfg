SPECIFICATION FairSpec
CONSTANTS
    WorkerCount = 3
    Benchmark = TRUE
    HasDuration = TRUE
    RequestLimit = 1
    StepsMayFail = TRUE
    MaxSignals = 3
    MaxRequests = 2
CHECK_DEADLOCK FALSE
INVARIANTS
    EventFdOutlivesWriters
    WorkersServeSafely
    NothingLeftBehind
    ReportIsFinal
PROPERTIES
    ImplementsLifecycle
    SignalEndsServer
    ShutdownReachesAll
    DurationEndsServer
