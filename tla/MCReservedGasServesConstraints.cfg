CONSTANTS
  Txs = {"a0", "a1", "b0", "b1", "c0"}
  Signers = {"A", "B", "C"}
  Orders = {"o1", "o2", "o3", "o4", "o5", "o6"}
  Recipients = {"eoa", "safe"}
  Contracts = {"safe"}
  NoRefund = NoRefund
  Builder = Builder
  Coinbase = Coinbase
  FeeRecipient = FeeRecipient
  System = System
  Tx <- MCTx
  Bundle <- MCBundle
  PayGas <- MCPayGas
  Constraints <- MCConstraints
  DiscardTxs = TRUE
  GasLimit = 14
  BaseTxGas = 1
  BaseFee = 1
  MevBlockerPrice = 1
  BuilderBalance = 2
  PayoutValues = {0, 2, 8, 9}
  FasterFinalize = TRUE
  MaxAdjusts = 2
SPECIFICATION Spec
CHECK_DEADLOCK FALSE
INVARIANT ReservedGasServesConstraints
