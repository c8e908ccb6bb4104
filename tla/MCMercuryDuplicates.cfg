CONSTANTS
  self = self
  v2 = v2
  v3 = v3
  t1 = t1
  t2 = t2
  Batches <- MCOneBatch
  Validators <- MCValidators
  Stake <- MCEqualStake
  Self = self
  Threads <- MCOneThread
  MaxTxs = 1
  HashBytes = 64
  DigestBytes = 64
  MaxCreates = 2
  MaxDeliveries = 1
SPECIFICATION Spec
INVARIANT FinalizedByQuorum
CHECK_DEADLOCK FALSE
