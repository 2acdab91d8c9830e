SPECIFICATION Spec
CONSTANTS
    HeaderSize = 2
    MaxFrameSize = 5
    MaxOutboundFrameSize = 5
    Scripts <- MCTooLong
    BufferCapacity = 6
    RecvQueueSize = 4
    SendQueueSize = 2
    RequestLimit = 0
    CtlMayFail = FALSE
CHECK_DEADLOCK FALSE
PROPERTIES
    LegalRequestsFit
