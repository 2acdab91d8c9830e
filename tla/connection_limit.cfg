SPECIFICATION FairSpec
CONSTANTS
    HeaderSize = 2
    MaxFrameSize = 5
    MaxOutboundFrameSize = 5
    Scripts <- MCOne
    BufferCapacity = 6
    RecvQueueSize = 4
    SendQueueSize = 2
    RequestLimit = 1
    CtlMayFail = FALSE
CHECK_DEADLOCK FALSE
PROPERTIES
    LimitReachedExits
