\* Every call in every order; pruning may drop the last snapshot.
CONSTANTS
  v1 = v1
  v2 = v2
  v3 = v3
  observer = observer
  Validators <- MCValidators
  Stake <- MCStake
  TotalStake <- MCTotal
  MaxPending = 2
  KeepCounts = {0, 1, 2}
  MaxCreates = 3
SPECIFICATION Spec
INVARIANTS ManagerConsistent WeightIsSignersStake
PROPERTIES FinalityStable ImplementsLog
CHECK_DEADLOCK FALSE
