CONSTANTS
  self = self
  v2 = v2
  v3 = v3
  t1 = t1
  t2 = t2
  Batches <- MCTwoBatches
  Validators <- MCValidators
  Stake <- MCEqualStake
  Self = self
  Threads <- MCOneThread
  MaxTxs = 1
  HashBytes = 64
  DigestBytes = 64
  MaxCreates = 3
  MaxDeliveries = 2
SPECIFICATION SteadySpec
INVARIANT StoreAndHeightAgree
PROPERTIES FinalityStable ImplementsLog
CHECK_DEADLOCK FALSE
