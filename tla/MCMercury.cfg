CONSTANTS
  self = self
  v2 = v2
  v3 = v3
  t1 = t1
  t2 = t2
  Batches <- MCOneBatch
  Validators <- MCValidators
  Stake <- MCStake
  Self = self
  Threads <- MCTwoThreads
  MaxTxs = 1
  HashBytes = 64
  DigestBytes = 64
  MaxCreates = 2
  MaxDeliveries = 2
SPECIFICATION Spec
SYMMETRY MCSymmetry
INVARIANTS NumberingExact FinalizedSoundly
CHECK_DEADLOCK FALSE
