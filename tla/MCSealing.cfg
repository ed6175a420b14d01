SPECIFICATION LastingSpec
CONSTANTS
    Algorithms = {a1, a2}
    TxLists = {"poor", "rich"}
    Value <- MCValue
    RelaySets = {r1, r2}
    MaxBlocks = 3
    MaxBids = 2
    None = None
INVARIANTS
    TypeOK
    BlocksKeptUntilSuperseded
    OnlySupersededLoseTheirContext
CHECK_DEADLOCK FALSE
SYMMETRY MCSymmetry
