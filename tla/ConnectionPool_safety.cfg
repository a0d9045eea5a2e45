CONSTANTS
    Threads = {t1, t2, t3, t4, t5}
    MaxPool = 3
    ConnectFaults = {"create", "reconnect"}
SPECIFICATION Spec
SYMMETRY Symmetry
INVARIANTS TypeOK CountExact
PROPERTY BoundedLeases
