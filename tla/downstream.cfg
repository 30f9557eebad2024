CONSTANTS
    ok1 = ok1
    ok2 = ok2
    no = no
    NoMsg = NoMsg
    Msgs <- MCMsgs
    Blocked <- MCBlocked
    MaxSession = 2
    QueueCap = 1
SPECIFICATION Spec
INVARIANTS
    TypeOK
    RegisteredImpliesLinked
    CleanExit
    OneLiveWriter
    DeliveredAtMostOnce
    PanicNeedsTeardown
    EventsTellLink
PROPERTIES
    LifeSpec
    GoroutinesEnd
    Reconnect
    QueueDrains
CHECK_DEADLOCK FALSE
