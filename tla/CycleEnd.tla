------------------------------ MODULE CycleEnd -------------------------------
(***************************************************************************)
(* A node that keeps a ValidatorSet and a StakingManager and calls         *)
(* reconfigure_at_cycle_end of validator.rs with them.  The two share no   *)
(* state; reconfiguration reads the staking manager and what a             *)
(* DelegationManager reports, which is any stake within bounds here: its   *)
(* own model is Delegation.tla.  Participation, which reconfiguration does *)
(* not look at, is exercised by ValidatorOps.tla.                          *)
(***************************************************************************)
EXTENDS Staking, ValidatorSet

CONSTANTS
  Stakes,        \* stakes that validators join with
  Delegations    \* delegated stakes that are reported for a validator

ASSUME CycleEndAssumption == Stakes \subseteq Nat /\ Delegations \subseteq Nat

cycleVars == <<stakingVars, setVars>>

CycleInit == StakingInit /\ SetInit

StakingStep ==
  /\ \/ \E v \in Validators, amount \in Deposits : DepositStake(v, amount)
     \/ \E v \in Validators, amount \in Withdrawals : RequestUnstake(v, amount)
     \/ \E v \in Validators : PeriodEnds(v) \/ RemoveStake(v)
     \/ ProcessUnbonding
  /\ UNCHANGED setVars

SetStep ==
  /\ \/ \E v \in Validators, stake \in Stakes : AddValidator(v, stake)
     \/ \E v \in Validators : RemoveValidator(v)
     \/ Clear
  /\ UNCHANGED stakingVars

ReconfigureAtCycleEnd ==
  /\ \E delegated \in [Validators -> Delegations] :
       Reconfigure(StakedValidators, {v \in Validators : MeetsMinimumStake(v)},
                   [v \in Validators |-> ActiveStake(v) + delegated[v]])
  /\ UNCHANGED stakingVars

CycleNext == StakingStep \/ SetStep \/ ReconfigureAtCycleEnd
=============================================================================
