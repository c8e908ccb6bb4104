---------------------------- MODULE ValidatorOps -----------------------------
(***************************************************************************)
(* ValidatorOperations of validator_ops.rs: one object that owns a         *)
(* validator set, a staking manager and the rewards, with one call at a    *)
(* time.                                                                   *)
(***************************************************************************)
EXTENDS Staking, ValidatorSet, Rewards

opsVars == <<stakingVars, setVars, rewardVars>>

OpsInit == StakingInit /\ SetInit /\ RewardsInit

(* Mutant: the deposit is made before the set may refuse the validator. *)
RegisterDepositFirst(v, stake, valid) ==
  /\ stake >= MinStakeAmount
  /\ valid
  /\ DepositStake(v, stake)
  /\ IF v \in Members THEN UNCHANGED setVars ELSE AddValidator(v, stake)
  /\ UNCHANGED rewardVars

(* The validator joins the set before its deposit is made; the deposit is   *)
(* refused if the digest of its transaction is not valid, and the validator *)
(* stays in the set.                                                        *)
RegisterValidator(v, stake, valid) ==
  /\ stake >= MinStakeAmount
  /\ AddValidator(v, stake)
  /\ IF valid THEN DepositStake(v, stake) ELSE UNCHANGED stakingVars
  /\ UNCHANGED rewardVars

RecordSnapshotParticipation(v, participated) ==
  RecordParticipation(v, participated) /\ UNCHANGED <<stakingVars, rewardVars>>

CollectTransactionFee(fee) == CollectFee(fee) /\ UNCHANGED <<stakingVars, setVars>>

(* Rewards by the active stake of the members, then a new cycle, and        *)
(* unbonding of what is due.                                                *)
EndCycle ==
  /\ Distribute([v \in Members |-> [members[v] EXCEPT !.stake = ActiveStake(v)]])
  /\ AdvanceCycle
  /\ ProcessUnbonding

(* The stake in the validator set stays as it was. *)
RequestValidatorUnstake(v, amount) == RequestUnstake(v, amount) /\ UNCHANGED <<setVars, rewardVars>>

UnbondingPeriodEnds(v) == PeriodEnds(v) /\ UNCHANGED <<setVars, rewardVars>>

OpsNext ==
  \/ \E v \in Validators, stake \in Deposits, valid \in BOOLEAN : RegisterValidator(v, stake, valid)
  \/ \E v \in Validators, participated \in BOOLEAN : RecordSnapshotParticipation(v, participated)
  \/ \E fee \in Fees : CollectTransactionFee(fee)
  \/ EndCycle
  \/ \E v \in Validators, amount \in Withdrawals : RequestValidatorUnstake(v, amount)
  \/ \E v \in Validators : UnbondingPeriodEnds(v)

-----------------------------------------------------------------------------
(* Safety: although a registration may fail in the middle, be retried, and  *)
(* stake may be withdrawn, nobody has stake without being a member, and no  *)
(* member has more at stake than the weight of its vote.                    *)
StakeBehindMembers ==
  /\ Staked \subseteq Members
  /\ \A v \in Staked : stakes[v].total =< members[v].stake
  /\ totalStaked =< setTotal
=============================================================================
