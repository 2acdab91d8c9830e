SPECIFICATION FairSpec
CONSTANTS
    HeaderSize = 2
    MaxFrameSize = 5
    MaxOutboundFrameSize = 5
    Scripts <- MCScripts
    BufferCapacity = 6
    RecvQueueSize = 4
    SendQueueSize = 2
    RequestLimit = 3
    CtlMayFail = TRUE
CHECK_DEADLOCK FALSE
INVARIANTS
    TypeOK
    RequestBytesExact
    ReplyBytesExact
    PendingWriteSync
    NoStrandedFrame
PROPERTIES
    ClosesOnlyForCause
    ImplementsReplyStream
    EveryRequestAnswered
    ShutdownStopsWorker
