CONSTANTS
  self = self
  v2 = v2
  v3 = v3
  t1 = t1
  t2 = t2
  Batches <- MCOneBatch
  Validators <- MCValidators
  Stake <- MCStake
  Self = self
  Threads <- MCOneThread
  MaxTxs = 1
  HashBytes = 32
  DigestBytes = 64
  MaxCreates = 2
  MaxDeliveries = 1
SPECIFICATION SteadySpec
PROPERTY SnapshotsAppear
CHECK_DEADLOCK FALSE
