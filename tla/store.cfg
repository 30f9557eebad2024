CONSTANTS
    q1 = q1
    q2 = q2
    q3 = q3
    on = on
    off = off
    here = here
    there = there
    i1 = i1
    i2 = i2
    i3 = i3
    t1 = t1
    t2 = t2
    host = host
    port = port
    Fields = {host, port}
    Inherit = Inherit
    SeedIds = i1
    SeedText = t1
    NoTemplate = NoTemplate
    Absent = Absent
    Gone = Gone
    Idle = Idle
    Requests <- MCRequests
    Ops <- MCOps
    Stores <- MCStores
    AppIds = {1, 2, 3}
    TplIds = {1, 2, 3, 4}
    Names <- MCNames
    Nets <- MCNets
    Dedups <- MCDedups
    IdRules <- MCIdRules
    Texts <- MCTexts
SPECIFICATION Spec
INVARIANTS
    LiveIsStored
    DefaultProtected
PROPERTIES
    ImportKeepsRest
    ExportKeepsRules
SYMMETRY MCSymmetry
CHECK_DEADLOCK FALSE
