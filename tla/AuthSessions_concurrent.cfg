CONSTANTS
    Sessions = {s1, s2}
    Users = {alice, root}
    NoUser = NoUser
    MaxCred = 3
    MaxTime = 0
    Workers = {w1, w2}
    Admins = {root}
    NoId = NoId
    Ops = {"login", "refresh", "list", "logout", "revoke", "adminRevoke", "adminRevokeAll"}
    DbFaults = {"error", "lost", "doubt"}
    Suspendable = {alice}
    AccessTtl = 1
    RefreshTtl = 2
    MaxDelay = 1
SPECIFICATION Spec
SYMMETRY Symmetry
INVARIANTS TypeOK GrantedOnlyIfUsable
PROPERTIES RevocationIsPermanent SpentTokenRefused OnlyEntitledRevoke HonestNotFlagged 
CHECK_DEADLOCK FALSE
