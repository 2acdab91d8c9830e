SPECIFICATION Spec
CONSTANTS
    Workers = {w1, w2}
    Clients = {c1, c2, c3}
    NoClient = NoClient
    Fds = {f1, f2}
    ListenFd = ListenFd
    ShutdownFd = ShutdownFd
    NoFd = NoFd
    MaxEvents = 2
    CallsMayFail = TRUE
SYMMETRY Symmetry
CHECK_DEADLOCK FALSE
INVARIANTS
    EventsReachTheirConnection
    MapsMatchSockets
    ConnectionsAreWatched
    NothingLeftOpen
