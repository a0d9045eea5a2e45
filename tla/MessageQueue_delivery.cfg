CONSTANTS
    Producers = {p1, p2}
    Consumers = {c1, c2, c3}
    Topics = {a, b}
    MaxId = 2
    MaxRetry = 1
    EndFaults = {"lost", "doubt"}
SPECIFICATION Spec
SYMMETRY Symmetry
INVARIANTS TypeOK NoDuplicateDelivery
PROPERTIES QueueKeepsPromise
