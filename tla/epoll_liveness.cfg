SPECIFICATION FairSpec
CONSTANTS
    Workers = {w1}
    Clients = {c1, c2, c3}
    NoClient = NoClient
    Fds = {f1, f2}
    ListenFd = ListenFd
    ShutdownFd = ShutdownFd
    NoFd = NoFd
    MaxEvents = 1
    CallsMayFail = TRUE
CHECK_DEADLOCK FALSE
PROPERTIES
    EveryClientAccepted
    HangupsAreClosed
    ShutdownEndsWorkers
