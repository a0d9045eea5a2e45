CONSTANTS
    Threads = {t1, t2, t3, t4, t5}
    MaxPool = 2
    ConnectFaults = {"reconnect"}
SPECIFICATION FairSpec
INVARIANTS NoLostWakeup
PROPERTIES AllAnswered
