\* Arbitrary arrival order, pruning and clearing.
CONSTANTS
  Batches <- MCBatches
  MaxParents = 2
  MaxAdds = 4
SPECIFICATION Spec
INVARIANTS GraphConsistent SortSound SortsIffLinked
PROPERTY UnlinkedForever
CHECK_DEADLOCK FALSE
