CONSTANTS
    Producers = {p1, p2}
    Consumers = {c1, c2}
    Topics = {a}
    MaxId = 3
    MaxRetry = 0
    EndFaults = {}
SPECIFICATION FairSpec
INVARIANTS FifoPerConsumer
PROPERTIES EveryMessageTaken
