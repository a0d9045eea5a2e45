CONSTANTS
    Sessions = {s1}
    Users = {alice}
    NoUser = NoUser
    MaxCred = 3
    MaxTime = 0
    Workers = {w1, w2}
    Admins = {}
    NoId = NoId
    Ops = {"login", "refresh"}
    DbFaults = {}
    Suspendable = {}
    AccessTtl = 1
    RefreshTtl = 2
    MaxDelay = 1
SPECIFICATION Spec
SYMMETRY Symmetry
INVARIANTS OneTimeUse
CHECK_DEADLOCK FALSE
