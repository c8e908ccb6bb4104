CONSTANTS
  v1 = v1
  v2 = v2
  v3 = v3
  t1 = t1
  t2 = t2
  t3 = t3
  Batches <- MCBatches
  MaxParents = 1
  MaxAdds = 1
  Threads <- MCTwoThreads
  Validators <- MCValidators
  Stake <- MCStake
  Shard <- MCShard
  MaxDeliveries = 1
SPECIFICATION SteadySpec
PROPERTY CallsReturn
CHECK_DEADLOCK FALSE
