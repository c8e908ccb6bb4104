CONSTANTS
  call1 = call1
  call2 = call2
  call3 = call3
  w1 = w1
  w2 = w2
  Batches <- MCBatches
  MaxParents = 2
  MaxAdds = 2
  Submissions <- MCSubmissions
  Size <- MCSize
  Workers <- MCWorkers
  MaxTransactions = 2
  MaxBytes = 2
  MaxPending = 2
  MaxRetries = 2
  BuildMayFail = TRUE
SPECIFICATION Spec
INVARIANTS BatchesSound OwnBatchesLinked
PROPERTIES NoTxLost QueuedSettles BroadcastEnds
CHECK_DEADLOCK FALSE
