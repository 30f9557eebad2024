CONSTANTS
    Nothing = Nothing
    one = one
    two = two
    like = like
    voice = voice
    hello = hello
    id1 = id1
    id2 = id2
    Calls <- MCCalls
    Probe <- MCProbe
    TTL = 1
    Horizon = 2
    MaxCaches = 2
SPECIFICATION Spec
INVARIANTS
    NothingSwallowed
PROPERTIES
    OnePerWindow
    CallsReturn
CHECK_DEADLOCK FALSE
