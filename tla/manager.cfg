CONSTANTS
    a = a
    b = b
    v1 = v1
    v2 = v2
    int = int
    here = here
    r1 = r1
    r2 = r2
    Off = Off
    NoAddr = NoAddr
    Boot = Boot
    None = None
    Apps <- MCApps
    Configs <- MCConfigs
    Internal <- MCInternal
    Addrs <- MCAddrs
    Requests <- MCRequests
SPECIFICATION Safety
INVARIANTS
    TypeOK
    NoOrphan
    NoDoubleClose
    OneCleaner
    InSync
    StoppedForGood
    WaitAnswered
SYMMETRY Symmetric
CHECK_DEADLOCK FALSE
