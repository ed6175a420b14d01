CONSTANTS
  Ids = {"b1", "b2", "n1", "s1", "t1"}
  MaxSeq = 2
  NoOrder = NoOrder
  TxIds = {"t1"}
  BundleKeys = {"kb", "kc"}
  ShareKeys = {"ks"}
  NoKey = NoKey
  KeysOf <- MCKeysOf
  Blocks = {1, 2}
  NoBlock = NoBlock
  BlocksOf <- MCBlocksOf
  KnownCapacity = 2
  TimeToKeepCancellations = 1
  TimeToKeepMempoolTxs = 0
  MaxTime = 1
  MaxCommands = 3
  MaxSinks = 2
SPECIFICATION MCSpec
INVARIANTS TypeOK CancellationsHonoured OrdersOfItsBlock LateSinksAgree
CHECK_DEADLOCK FALSE
