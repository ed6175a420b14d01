SPECIFICATION FairSpec
CONSTANTS
    Algorithms = {a1}
    TxLists = {"poor", "rich"}
    Value <- MCValue
    RelaySets = {r1}
    MaxBlocks = 3
    MaxBids = 3
    None = None
PROPERTY BidsReachTheSink
CHECK_DEADLOCK FALSE
