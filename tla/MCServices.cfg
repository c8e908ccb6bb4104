CONSTANTS
  v1 = v1
  v2 = v2
  p1 = p1
  p2 = p2
  u1 = u1
  u2 = u2
  c1 = c1
  c2 = c2
  c3 = c3
  t1 = t1
  t2 = t2
  t3 = t3
  Validators <- MCValidators
  Deposits = {2, 3}
  Withdrawals = {2}
  TierFloors <- MCTierFloors
  MaxStake = 6
  MaxRequests = 2
  MaxTierChanges = 3
  MaxSnapshots = 1
  Fees = {1, 3}
  FeeCap = 3
  MinParticipation = 90
  PenaltyRate = 100
  MaxFees = 4
  Stakes = {1, 2}
  Delegations = {0, 1}
  Delegators <- MCDelegators
  Amounts = {1, 2}
  PoolRewards = {1, 2}
  MinDelegation = 1
  MaxDelegated = 2
  Modulus = 8
  MaxFunds = 4
  MaxUndelegations = 1
  Evidence = {1, 2}
  SlashedStakes = {9, 100}
  MissedSnapshots = {49, 50}
  SlashDoubleSigning = 10
  SlashDowntime = 1
  DowntimeLimit = 50
  NoEvidence = 0
  MaxSlashes = 3
  DowntimeThreshold = 2
  RecoveryPeriod = 2
  MaxTracked = 3
  MaxMisses = 5
  MaxDowntimeEvents = 3
  Weights = {1}
  TotalStakes = {2}
  VotesRequired = 66
  DeactivationVotesRequired = 66
  MaxVotes = 1
  MaxActivationEvents = 3
  Keys = {1, 2}
  RotationWeights = {1}
  RotationStakes = {2}
  RotationVotes = 66
  MaxRotationVotes = 1
  MaxRotationEvents = 5
  Addresses = {1, 2}
  NoKeys = NoKeys
  Torn = Torn
  MaxHistory = 2
  Rates = {500, 1000, 2000}
  TotalRewards = {30}
  NoChange = NoChange
  MaxRateChanges = 2
  MaxCommission = 60
  ManagedRates = {4, 5, 10}
  MinRate = 5
  MaxRate = 20
  NoRequest = NoRequest
  MaxManagedChanges = 2
  Proposals <- MCProposals
  Voters <- MCValidators
  VoteWeight <- MCVoteWeight
  VotingDeadline <- MCVotingDeadline
  ActivationCycle <- MCActivationCycle
  UpgradeStakes = {2}
  Calls <- MCCalls
  Genesis = Genesis
  Idle = Idle
  LastCycle = 2
  ApprovedUpgrades <- MCUpgrades
  Boundary <- MCBoundary
  NewVersion <- MCNewVersion
  InitialVersion = InitialVersion
  TransitionPeriod = 2
  Coordinations <- MCCoordinations
  NoCoordination = NoCoordination
  LastBoundary = 4
  Versions = {1, 2}
  Features <- MCFeatures
  FirstVersion = 1
  Checks = {1}
  Removals = {1}
  NoCheck = NoCheck
  CacheCalls <- MCCacheCalls
  GraphHashes <- MCGraphHashes
  MaxSize = 1
  NoHash = NoHash
  MaxOrder = 3
SPECIFICATION Spec
SYMMETRY MCSymmetry
INVARIANTS StakeConserved TiersExplained QuorumsIntersect PoolsAddUp NoValueCreated
  SlashesJustified RecoveryAlternates ActivationsAudited AlwaysAValidKey RotationsSaved
  RatesExplained AppliedAsAnnounced UpgradesApproved FeesPaidOnce OpsStakeBehindMembers
  SupportLostOnlyByRemoval AcceptedFeaturesWereActive CachedIsEvictable
CHECK_DEADLOCK FALSE
