SPECIFICATION Spec
CONSTANTS
    Accounts <- MCAccounts
    Orders = {"t0", "t1", "b", "w"}
    Txs <- MCTxs
    Chain <- MCChain
    Profit <- MCProfit
    FailedOrderRetries = 1
    ChannelCapacity = 2
    MaxCommands = 4
CHECK_DEADLOCK FALSE
INVARIANTS
    TypeOK
    SettledStaysSettled
    NoncesInSync
    StoresConsistent
    CancelledIsForgotten
PROPERTY BuildsEnd
