----------------------------- MODULE Commission ------------------------------
(***************************************************************************)
(* CommissionManager of commission.rs: a validator announces a commission  *)
(* rate, which replaces the old one after a notice period.  Mutators take  *)
(* &mut self; a refused call changes nothing.  Rates are in basis points   *)
(* and within their limits by construction.                                *)
(***************************************************************************)
EXTENDS ValidatorIds, Integers, Sequences, SequencesExt

CONSTANTS
  Rates,              \* commission rates, in basis points
  TotalRewards,       \* rewards that a commission is taken of
  NoChange,
  MaxRateChanges,     \* bound on the history of a validator
  MaxCommission       \* bound on the rewards a validator earned

ASSUME CommissionAssumption ==
  /\ Rates \subseteq 0..10000 /\ TotalRewards \subseteq Nat
  /\ MaxRateChanges \in Nat /\ MaxCommission \in Nat

VARIABLES
  commissions,    \* validators: validator -> ValidatorCommissionInfo
  rewarded        \* the rewards a registered validator's commission came from

commissionVars == <<commissions, rewarded>>

Registered == DOMAIN commissions
CommissionInit == commissions = << >> /\ rewarded = [v \in Validators |-> 0]

-----------------------------------------------------------------------------
RegisterCommission(v, rate) ==
  /\ v \notin Registered
  /\ commissions' = [x \in Registered \cup {v} |->
       IF x = v THEN [initial |-> rate, rate |-> rate, pending |-> NoChange,
                      history |-> << >>, earned |-> 0]
       ELSE commissions[x]]
  /\ rewarded' = [rewarded EXCEPT ![v] = 0]

SetCommissionRate(v, rate) ==
  /\ v \in Registered /\ commissions[v].pending = NoChange /\ rate # commissions[v].rate
  /\ Len(commissions[v].history) < MaxRateChanges
  /\ commissions' = [commissions EXCEPT ![v].pending =
                       [old |-> commissions[v].rate, new |-> rate, effective |-> FALSE]]
  /\ UNCHANGED rewarded

NoticePeriodEnds(v) ==
  /\ v \in Registered /\ commissions[v].pending # NoChange
  /\ commissions' = [commissions EXCEPT ![v].pending.effective = TRUE]
  /\ UNCHANGED rewarded

CancelRateChange(v) ==
  /\ v \in Registered /\ commissions[v].pending # NoChange
  /\ commissions' = [commissions EXCEPT ![v].pending = NoChange]
  /\ UNCHANGED rewarded

(* Mutant: an applied change stays pending. *)
AppliedAgain(info) ==
  IF info.pending = NoChange \/ ~info.pending.effective THEN info
  ELSE [info EXCEPT !.rate = info.pending.new,
          !.history = Append(@, [old |-> info.pending.old, new |-> info.pending.new])]

(* apply_pending_change: a change that is too early is put back. *)
Applied(info) ==
  IF info.pending = NoChange \/ ~info.pending.effective THEN info
  ELSE [info EXCEPT !.rate = info.pending.new, !.pending = NoChange,
          !.history = Append(@, [old |-> info.pending.old, new |-> info.pending.new])]

ProcessPendingChanges ==
  /\ commissions' = [v \in Registered |-> Applied(commissions[v])]
  /\ UNCHANGED rewarded

CommissionOf(rate, rewards) == (rewards * rate) \div 10000

CalculateCommission(v, rewards) ==
  /\ v \in Registered /\ rewarded[v] + rewards =< MaxCommission
  /\ commissions' = [commissions EXCEPT ![v].earned = @ + CommissionOf(commissions[v].rate, rewards)]
  /\ rewarded' = [rewarded EXCEPT ![v] = @ + rewards]

RemoveCommission(v) ==
  /\ v \in Registered
  /\ commissions' = [x \in Registered \ {v} |-> commissions[x]]
  /\ UNCHANGED rewarded

CommissionNext ==
  \/ \E v \in Validators, rate \in Rates : RegisterCommission(v, rate) \/ SetCommissionRate(v, rate)
  \/ \E v \in Validators : NoticePeriodEnds(v) \/ CancelRateChange(v) \/ RemoveCommission(v)
  \/ ProcessPendingChanges
  \/ \E v \in Validators, rewards \in TotalRewards : CalculateCommission(v, rewards)

-----------------------------------------------------------------------------
(* Safety: over announcements, cancellations and changes the history leads  *)
(* without a break from the first rate to the one in force, no entry leaves *)
(* the rate as it was, a pending change still starts from the rate in       *)
(* force, and at rates that changed in between a validator earned no more   *)
(* than the highest rate of the rewards.                                    *)
RatesExplained ==
  \A v \in Registered :
    LET info == commissions[v]
        Before(i) == IF i = 1 THEN info.initial ELSE info.history[i - 1].new
    IN  /\ \A i \in DOMAIN info.history :
             info.history[i].old = Before(i) /\ info.history[i].new # info.history[i].old
        /\ info.rate = Before(Len(info.history) + 1)
        /\ info.pending # NoChange => info.pending.old = info.rate /\ info.pending.new # info.rate
        /\ \E top \in Rates : (\A r \in Rates : r =< top) /\ info.earned * 10000 =< top * rewarded[v]
=============================================================================
