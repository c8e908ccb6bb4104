CONSTANTS
  Batches <- MCBatches
  MaxParents = 2
  MaxAdds = 4
SPECIFICATION Spec
INVARIANT ConsensusOrderCausal
CHECK_DEADLOCK FALSE
