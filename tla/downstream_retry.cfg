CONSTANTS
    ok1 = ok1
    ok2 = ok2
    no = no
    NoMsg = NoMsg
    Msgs <- MCMsgs
    Blocked <- MCBlocked
    MaxSession = 2
    QueueCap = 1
SPECIFICATION Spec
PROPERTY RetriesUntilTold
CHECK_DEADLOCK FALSE
