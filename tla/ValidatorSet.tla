---------------------------- MODULE ValidatorSet -----------------------------
(***************************************************************************)
(* ValidatorSet of validator.rs.  Mutators take &mut self, so a call is    *)
(* one step.  The flag `active' of a validator is never cleared and is     *)
(* left out, as are the cycle number and the history of changes, which     *)
(* only stamp and log.  What other components know of a validator - its    *)
(* active and its delegated stake - comes in as parameters.                *)
(***************************************************************************)
EXTENDS ValidatorIds, Integers, FiniteSetsExt

CONSTANT
  MaxSnapshots   \* bound on the snapshots recorded for a validator and cycle

ASSUME ValidatorSetAssumption == MaxSnapshots \in Nat

VARIABLES
  members,    \* validators: validator -> ValidatorInfo
  setTotal    \* total_stake

setVars == <<members, setTotal>>

Members == DOMAIN members
ValidatorInfo(stake) == [stake |-> stake, participated |-> 0, snapshots |-> 0]

SetInit == members = << >> /\ setTotal = 0

StakeWeight(S) == MapThenSumSet(LAMBDA v : members[v].stake, S \cap Members)
HasQuorum(S) == StakeWeight(S) * 3 > setTotal * 2

-----------------------------------------------------------------------------
(* A validator that is in the set is refused. *)
AddValidator(v, stake) ==
  /\ v \notin Members
  /\ members' = [x \in Members \cup {v} |-> IF x = v THEN ValidatorInfo(stake) ELSE members[x]]
  /\ setTotal' = setTotal + stake

RemoveValidator(v) ==
  /\ v \in Members
  /\ members' = [x \in Members \ {v} |-> members[x]]
  /\ setTotal' = setTotal - members[v].stake

RecordParticipation(v, participated) ==
  /\ v \in Members /\ members[v].snapshots < MaxSnapshots
  /\ members' = [members EXCEPT ![v].snapshots = @ + 1,
                   ![v].participated = IF participated THEN @ + 1 ELSE @]
  /\ UNCHANGED setTotal

ResetCycleStats == members' = [v \in Members |-> ValidatorInfo(members[v].stake)]

AdvanceCycle == ResetCycleStats /\ UNCHANGED setTotal

(* Mutant: the total is corrected by what was removed only. *)
ReconfigureAdjustsTotal(staked, meeting, stake) ==
  LET kept == Members \cap meeting
  IN  /\ staked # {}
      /\ members' = [v \in kept |-> [members[v] EXCEPT !.stake = stake[v]]]
      /\ setTotal' = setTotal - StakeWeight(Members \ kept)

(* reconfigure_at_cycle_end: members below the minimum leave, the others    *)
(* get their stake of today.  Validators that are staked and no members     *)
(* only get a line in the change event: the branch that would insert them   *)
(* needs them to be members.                                                *)
Reconfigure(staked, meeting, stake) ==
  LET kept == Members \cap meeting
  IN  /\ staked # {}
      /\ members' = [v \in kept |-> [members[v] EXCEPT !.stake = stake[v]]]
      /\ setTotal' = MapThenSumSet(LAMBDA v : stake[v], kept)

Clear ==
  /\ members' = << >>
  /\ setTotal' = 0

-----------------------------------------------------------------------------
(* Safety: the total kept beside the validators is the sum of their stakes, *)
(* and therefore two sets of validators that both have a quorum share one:  *)
(* through joining, leaving, reconfiguration and clearing no two disjoint   *)
(* groups can both finalize.                                                *)
QuorumsIntersect ==
  /\ setTotal = StakeWeight(Members)
  /\ \A S \in SUBSET Members : ~(HasQuorum(S) /\ HasQuorum(Members \ S))
=============================================================================
