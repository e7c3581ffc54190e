SPECIFICATION FairSpec
CONSTANTS
    t1 = t1
    cb = cb
    Thread <- MCTwoThreads
    Callback = cb
    QueueLimit = 2
    SocketFills = FALSE
    MaxCalls = 2
    MaxEvents = 2
CHECK_DEADLOCK FALSE
PROPERTIES
    RequestsAreSent
    WaitersGoOn
