SPECIFICATION FairSpec
CONSTANTS
    t1 = t1
    cb = cb
    Thread <- MCOneThread
    Callback = cb
    QueueLimit = 2
    SocketFills = FALSE
    MaxCalls = 1
    MaxEvents = 2
CHECK_DEADLOCK FALSE
PROPERTY EventsAreHandled
