CONSTANTS
    alice = alice
    Alice = Alice
    bob = bob
    gAlice = gAlice
    gBob = gBob
    UserIds = {u1}
    Emails = {alice}
    Passwords = {p1, p2}
    GoogleIds = {gAlice}
    Lower <- LowerCase
    None = None
    Workers = {w1, w2}
    Identities <- Nobody
    Threshold = 2
    MaxWrong = 3
    DbFaults = {}
SPECIFICATION Spec
SYMMETRY Symmetry
PROPERTY LockHolds
