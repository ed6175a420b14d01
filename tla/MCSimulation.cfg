SPECIFICATION FairSpec
CONSTANTS
    Accounts <- MCAccounts
    Orders = {"x", "y", "z", "w", "s", "o"}
    Txs <- MCTxs
    Chain <- MCChain
    Profits = {0, 1}
    Workers = {"w1", "w2"}
    ResultsCapacity = 1
    MaxCommands = 4
CHECK_DEADLOCK FALSE
INVARIANTS
    TypeOK
    TreeConsistent
    BuildersHoldWanted
    NothingForgotten
    OneAccountParentsReachNonce
PROPERTY
    ReadyOrdersAreSimulated
