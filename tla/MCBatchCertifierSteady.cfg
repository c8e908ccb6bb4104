CONSTANTS
  v1 = v1
  v2 = v2
  v3 = v3
  t1 = t1
  t2 = t2
  t3 = t3
  Batches <- MCTwoBatches
  MaxParents = 0
  MaxAdds = 2
  Threads <- MCTwoThreads
  Validators <- MCValidators
  Stake <- MCStake
  Shard <- MCShard
  MaxDeliveries = 1
SPECIFICATION SteadySpec
INVARIANT CertificatesReachGraph
PROPERTY QuorumCertifies
CHECK_DEADLOCK FALSE
