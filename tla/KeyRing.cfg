CONSTANTS
    Nodes = {a, b}
    Workers = {w1,w2}
    ConfiguredKid = configured
    Names = {name}
    MaxPrevious = 2
    AccessTtl = 2
    MaxTime = 2
    MaxPairs = 5
    MaxTokens = 1
SPECIFICATION Spec
INVARIANTS TypeOK VerifiesUntilRetired AcceptsOnlyOwn JwksAgrees
SYMMETRY Symmetry
CHECK_DEADLOCK FALSE
