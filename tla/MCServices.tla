----------------------------- MODULE MCServices ------------------------------
(* A small instance of the services for TLC.  Two tiers, the higher from   *)
(* twice the least stake; pools of at most twice the least delegation; two *)
(* proposals for one cycle; two upgrades, of which the later leads back to *)
(* the first version.  Services share values, since only one of them moves *)
(* in a behaviour: the proposals are the delegators, the features and the  *)
(* hashes of the cache as well.                                            *)
EXTENDS Services

CONSTANTS v1, v2, p1, p2, u1, u2, c1, c2, c3, t1, t2, t3

MCValidators == {v1, v2}
MCProposals == {p1, p2}
MCDelegators == MCProposals
MCFeatures == MCProposals
MCGraphHashes == MCProposals
MCCalls == {c1, c2}
MCCacheCalls == {c1, c2, c3}
MCCoordinations == {t1, t2, t3}
MCTierFloors == <<2, 4>>
MCVoteWeight(v) == 1
MCVotingDeadline(p) == 1
MCActivationCycle(p) == 2
MCUpgrades == {u1, u2}
MCBoundary(u) == IF u = u1 THEN 1 ELSE 2
MCNewVersion(u) == IF u = u1 THEN u1 ELSE InitialVersion
MCSymmetry == Permutations(MCValidators) \cup Permutations(MCProposals) \cup Permutations(MCCalls)
=============================================================================
