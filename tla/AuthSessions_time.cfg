CONSTANTS
    Sessions = {s1, s2}
    Users = {alice}
    NoUser = NoUser
    MaxCred = 3
    MaxTime = 4
    Workers = {w1, w2}
    Admins = {}
    NoId = NoId
    Ops = {"login", "refresh", "revoke", "logout", "logoutAll"}
    DbFaults = {"doubt"}
    Suspendable = {}
    AccessTtl = 1
    RefreshTtl = 2
    MaxDelay = 1
SPECIFICATION Spec
SYMMETRY Symmetry
INVARIANTS BlacklistComplete
 
CHECK_DEADLOCK FALSE
