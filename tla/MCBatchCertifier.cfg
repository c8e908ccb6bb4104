CONSTANTS
  v1 = v1
  v2 = v2
  v3 = v3
  t1 = t1
  t2 = t2
  t3 = t3
  Batches <- MCBatches
  MaxParents = 1
  MaxAdds = 2
  Threads <- MCThreads
  Validators <- MCValidators
  Stake <- MCStake
  Shard <- MCShard
  MaxDeliveries = 1
SPECIFICATION Spec
SYMMETRY MCSymmetry
INVARIANT CertificatesSound
PROPERTY CertificatesGrow
CHECK_DEADLOCK FALSE
