SPECIFICATION Spec
CONSTANTS
    Blocks = {"before", "low", "high", "after"}
    Txs = {"o", "x", "y"}
    Typed = {"y"}
    Slot <- MCSlot
    Body <- MCBody
    Appended <- MCAppended
    MaxSlotsToKeep = 2
    MaxTasks = 6
    JobSlot = 2
    BidValue <- MCBidValue
    RegularRelays = {"capped"}
    OptimisticRelays = {"optimistic"}
    MaxBid <- MCMaxBid
    OptimisticMaxBid = 2
    NoLimit = NoLimit
    None = None
    MaxUpdates = 2
INVARIANT ProofsVerifyAgainstHeader
CHECK_DEADLOCK FALSE
