CONSTANTS
    u1 = u1
    u2 = u2
    a = a
    b = b
    toA = toA
    toAll = toAll
    All = All
    None = None
    Conns <- MCConns
    Ids <- MCIds
    Replies <- MCReplies
    To <- MCTo
    QueueCap = 1
SPECIFICATION Spec
INVARIANTS
    TypeOK
    EntriesServed
    ServedRegistered
    Routed
    KeptWhileConnected
PROPERTIES
    OwnEntryOnly
    LoopsEnd
CHECK_DEADLOCK FALSE
