------------------------------ MODULE Staking -------------------------------
(***************************************************************************)
(* StakingManager of staking.rs: validators deposit stake, ask for some of *)
(* it back, and get it when the unbonding period of the request is over.   *)
(* Every mutator takes &mut self, so a call is one step.  A refused call   *)
(* changes nothing and is no step.                                         *)
(*                                                                         *)
(* A request is its amount and whether its period is over; a tier change   *)
(* is the pair of tiers.  Deposits are remembered by their sum only, and a *)
(* tier is its number, 1 for Bronze.  advance_cycle only stamps later tier *)
(* changes and is left out with the stamp.                                 *)
(***************************************************************************)
EXTENDS ValidatorIds, Unbonding, Integers, Sequences, SequencesExt, FiniteSetsExt

CONSTANTS
  Deposits,        \* amounts that are deposited
  Withdrawals,     \* amounts that are asked back
  TierFloors,      \* least stake of each tier: 10, 50, 100, 500 thousand
  MaxStake,        \* bound on a validator's total stake
  MaxRequests,     \* bound on a validator's requests under way
  MaxTierChanges   \* bound on the tier changes recorded for a validator

ASSUME StakingAssumption ==
  /\ Deposits \subseteq Nat /\ Withdrawals \subseteq Nat
  /\ TierFloors \in Seq(Nat \ {0}) /\ TierFloors # << >>
  /\ MaxStake \in Nat /\ MaxRequests \in Nat /\ MaxTierChanges \in Nat

VARIABLES
  stakes,        \* validator -> ValidatorStake, for validators with a record
  totalStaked,   \* total_staked
  tierChanges    \* all_tier_changes, by validator

stakingVars == <<stakes, totalStaked, tierChanges>>

Staked == DOMAIN stakes
Tiers == 1..Len(TierFloors)
MinStakeAmount == TierFloors[1]

(* ValidatorTier::from_stake: less than the least stake is Bronze, too.     *)
TierOf(stake) ==
  CHOOSE tier \in Tiers :
    /\ stake >= TierFloors[tier] \/ tier = 1
    /\ \A higher \in Tiers : higher > tier => stake < TierFloors[higher]

Request == [amount : Nat, unbonded : BOOLEAN]
NoStake == [total |-> 0, active |-> 0, unbonding |-> 0, tier |-> 1, requests |-> << >>]

StakeRecord(v) == IF v \in Staked THEN stakes[v] ELSE NoStake
ActiveStake(v) == StakeRecord(v).active
StakedValidators == {v \in Staked : stakes[v].active > 0}
MeetsMinimumStake(v) == v \in Staked /\ stakes[v].active >= MinStakeAmount

StakingInit ==
  /\ stakes = << >>
  /\ totalStaked = 0
  /\ tierChanges = [v \in Validators |-> << >>]

-----------------------------------------------------------------------------
(* The tier follows the active stake; a change is recorded.                 *)
Put(v, record) ==
  LET tier == TierOf(record.active)
  IN  /\ stakes' = [x \in Staked \cup {v} |->
                      IF x = v THEN [record EXCEPT !.tier = tier] ELSE stakes[x]]
      /\ tierChanges' = IF tier = record.tier THEN tierChanges
                        ELSE [tierChanges EXCEPT ![v] = Append(@, <<record.tier, tier>>)]

DepositStake(v, amount) ==
  /\ amount >= MinStakeAmount
  /\ StakeRecord(v).total + amount =< MaxStake
  /\ Len(tierChanges[v]) < MaxTierChanges
  /\ Put(v, [StakeRecord(v) EXCEPT !.total = @ + amount, !.active = @ + amount])
  /\ totalStaked' = totalStaked + amount

(* Mutant: the tier is not looked at again. *)
RequestUnstakeKeepsTier(v, amount) ==
  /\ v \in Staked /\ amount =< stakes[v].active
  /\ Len(stakes[v].requests) < MaxRequests
  /\ stakes' = [stakes EXCEPT ![v].active = @ - amount, ![v].unbonding = @ + amount,
                  ![v].requests = Append(@, [amount |-> amount, unbonded |-> FALSE])]
  /\ UNCHANGED <<totalStaked, tierChanges>>

RequestUnstake(v, amount) ==
  /\ v \in Staked /\ amount =< stakes[v].active
  /\ Len(stakes[v].requests) < MaxRequests /\ Len(tierChanges[v]) < MaxTierChanges
  /\ Put(v, [stakes[v] EXCEPT !.active = @ - amount, !.unbonding = @ + amount,
               !.requests = Append(@, [amount |-> amount, unbonded |-> FALSE])])
  /\ UNCHANGED totalStaked

(* The period of the validator's oldest request still running ends: all     *)
(* periods have the same length.                                            *)
PeriodEnds(v) ==
  /\ v \in Staked
  /\ \E i \in DOMAIN stakes[v].requests :
       /\ ~stakes[v].requests[i].unbonded
       /\ \A j \in 1..(i - 1) : stakes[v].requests[j].unbonded
       /\ stakes' = [stakes EXCEPT ![v].requests[i].unbonded = TRUE]
  /\ UNCHANGED <<totalStaked, tierChanges>>

Amount(requests) == FoldLeft(LAMBDA sum, r : sum + r.amount, 0, requests)
Unbonded(v) == Due(stakes[v].requests)
StillBonded(v) == Running(stakes[v].requests)

(* Mutant: completed requests are not removed. *)
ReleasedKept(v) ==
  [stakes[v] EXCEPT !.total = @ - Amount(Unbonded(v)), !.unbonding = @ - Amount(Unbonded(v))]

(* ValidatorStake::process_unbonding.                                       *)
Released(v) ==
  [stakes[v] EXCEPT !.total = @ - Amount(Unbonded(v)), !.unbonding = @ - Amount(Unbonded(v)),
                    !.requests = StillBonded(v)]

ProcessUnbonding ==
  /\ stakes' = [v \in Staked |-> Released(v)]
  /\ totalStaked' = totalStaked - MapThenSumSet(LAMBDA v : Amount(Unbonded(v)), Staked)
  /\ UNCHANGED tierChanges

RemoveStake(v) ==
  /\ v \in Staked
  /\ stakes[v].active = 0 /\ stakes[v].unbonding = 0
  /\ stakes' = [x \in Staked \ {v} |-> stakes[x]]
  /\ UNCHANGED <<totalStaked, tierChanges>>

-----------------------------------------------------------------------------
StakingTypeOK ==
  /\ Staked \subseteq Validators
  /\ \A v \in Staked :
       stakes[v] \in [total : Nat, active : Nat, unbonding : Nat, tier : Tiers,
                      requests : Seq(Request)]
  /\ totalStaked \in Nat
  /\ \A v \in Validators : tierChanges[v] \in Seq(Tiers \X Tiers)

(* Safety: no stake appears or is lost and no subtraction goes below zero:  *)
(* over every sequence of calls a validator's total is its active stake     *)
(* plus what its open requests will release, and the manager's total, kept  *)
(* by other code, is the sum over the validators.                           *)
StakeConserved ==
  /\ StakingTypeOK
  /\ \A v \in Staked :
       /\ stakes[v].active >= 0
       /\ stakes[v].unbonding = Amount(stakes[v].requests)
       /\ stakes[v].total = stakes[v].active + stakes[v].unbonding
  /\ totalStaked = MapThenSumSet(LAMBDA v : stakes[v].total, Staked)

(* Safety: the recorded tier changes of a validator lead from Bronze,       *)
(* without a break, to the tier of its active stake now - also if its       *)
(* record was removed and began anew.                                       *)
TiersExplained ==
  \A v \in Validators :
    LET steps == tierChanges[v]
    IN  /\ \A i \in DOMAIN steps : steps[i][1] = (IF i = 1 THEN 1 ELSE steps[i - 1][2])
        /\ TierOf(ActiveStake(v)) = StakeRecord(v).tier
        /\ StakeRecord(v).tier = IF steps = << >> THEN 1 ELSE Last(steps)[2]
=============================================================================
