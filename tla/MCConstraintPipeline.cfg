CONSTANTS
  ConstraintIds = {"c1", "c2"}
  Blocks = {1, 2}
  BlockOf <- MCBlockOf
  KnownCapacity = 1
  MaxSinks = 1
  Calls = {"k1", "k2", "k3"}
  CallOf <- MCCallOf
  TxsOf <- MCTxsOf
  Undecodable = {"c2"}
  ResultsCapacity = 1
  CommandsCapacity = 1
  MaxBatch = 1
SPECIFICATION MCSpec
INVARIANTS
  TypeOK
  SinksFollowPool
  StoredOnce
  StoredComplete
PROPERTY AcknowledgedReachesPool
