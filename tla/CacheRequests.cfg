CONSTANTS
    None = None
    Workers = {w1, w2}
    States = {s1, s2}
    ApiKeys = {k}
    ApiValues = {x, y}
    Keys <- MCKeys
    Values <- MCValues
    MaxUrls = 2
    MaxTtl = 2
    MaxTime = 1
    StateTtl = 1
    DefaultTtl = 2
    ApiTtls = {0, 1}
    AudienceChecked = TRUE
SPECIFICATION Spec
INVARIANTS TypeOK SetAnswerNotStale  
PROPERTIES CacheImplementsMap
SYMMETRY Symmetry
CHECK_DEADLOCK FALSE
