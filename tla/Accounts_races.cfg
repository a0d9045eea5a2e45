CONSTANTS
    alice = alice
    Alice = Alice
    bob = bob
    gAlice = gAlice
    gBob = gBob
    UserIds = {u1, u2}
    Emails = {alice, Alice, bob}
    Passwords = {p1, p2}
    GoogleIds = {gAlice, gBob}
    Lower <- LowerCase
    None = None
    Workers = {w1, w2}
    Identities <- Vouched
    Threshold = 2
    MaxWrong = 2
    DbFaults = {"error", "lost"}
SPECIFICATION Spec
SYMMETRY Symmetry
INVARIANTS TypeOK OneAccountPerPerson ProviderMatches RegisteredHasPassword LockMeansFailures
