SPECIFICATION Spec
CONSTANTS
    t1 = t1
    cb = cb
    Thread <- MCTwoThreads
    Callback = cb
    QueueLimit = 2
    SocketFills = TRUE
    MaxCalls = 3
    MaxEvents = 2
CHECK_DEADLOCK FALSE
INVARIANTS
    FrontIsThere
    OneWakeUp
PROPERTIES
    IsChannel
