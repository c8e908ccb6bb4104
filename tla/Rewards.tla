------------------------------- MODULE Rewards -------------------------------
(***************************************************************************)
(* FuelFeeCollector, RewardDistributor and CycleRewardsManager of          *)
(* rewards.rs: fees add up during a cycle; at its end they are divided by  *)
(* stake, and a validator that took part too little loses a part.  The     *)
(* code divides in floating point and cuts the fraction off: the integer   *)
(* division here, as long as the products are below 2^53 and no exact      *)
(* quotient rounds to just below.  The list of single fees is left out.    *)
(***************************************************************************)
EXTENDS ValidatorIds, Integers, FiniteSetsExt

CONSTANTS
  Fees,               \* fuel consumed times fuel price
  FeeCap,             \* 2^64 - 1: fees saturate
  MinParticipation,   \* least participation without a penalty, in percent
  PenaltyRate,        \* the part that is lost, in percent
  MaxFees             \* bound on the fees ever collected

ASSUME RewardsAssumption ==
  /\ Fees \subseteq Nat /\ FeeCap \in Nat /\ MaxFees \in Nat
  /\ MinParticipation \in 0..100 /\ PenaltyRate \in 0..100

VARIABLES
  totalFees,    \* total_fees of the collector
  collected,    \* all fees since the start
  paid          \* rewards since the start, by validator

rewardVars == <<totalFees, collected, paid>>

RewardsInit == totalFees = 0 /\ collected = 0 /\ paid = [v \in Validators |-> 0]

CollectFee(fee) ==
  /\ collected + fee =< MaxFees
  /\ totalFees' = Min({totalFees + fee, FeeCap})
  /\ collected' = collected + fee
  /\ UNCHANGED paid

(* participation_rate() is 0 without any snapshot.                          *)
TooLittle(info) ==
  IF info.snapshots = 0 THEN MinParticipation > 0
  ELSE info.participated * 100 < MinParticipation * info.snapshots

(* calculate_rewards, of the stake and the participation of each validator: *)
(* without any stake nobody gets anything.                                  *)
FinalReward(v, infos) ==
  LET stake == MapThenSumSet(LAMBDA w : infos[w].stake, DOMAIN infos)
      base  == IF stake = 0 THEN 0 ELSE (totalFees * infos[v].stake) \div stake
  IN  base - (IF TooLittle(infos[v]) THEN (base * PenaltyRate) \div 100 ELSE 0)

Pay(infos) ==
  paid' = [v \in Validators |->
             paid[v] + IF v \in DOMAIN infos THEN FinalReward(v, infos) ELSE 0]

(* Mutant: the collector is not reset. *)
DistributeAndKeep(infos) == Pay(infos) /\ UNCHANGED <<totalFees, collected>>

(* End of a cycle: the rewards are handed out and the collector is reset.   *)
Distribute(infos) ==
  /\ Pay(infos)
  /\ totalFees' = 0
  /\ UNCHANGED collected

-----------------------------------------------------------------------------
(* Safety: over all cycles validators get no more than the fees that were   *)
(* collected less those of the cycle under way: no fee is paid twice, and   *)
(* shares and penalties are cut off and never rounded up beyond the whole.  *)
FeesPaidOnce ==
  MapThenSumSet(LAMBDA v : paid[v], Validators) + totalFees =< collected
=============================================================================
