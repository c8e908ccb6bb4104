-------------------------- MODULE CommissionManager --------------------------
(***************************************************************************)
(* CommissionManager of commission_manager.rs, the second implementation   *)
(* of commission changes with notice.  Unlike that of commission.rs it     *)
(* lets a new announcement replace one whose notice period is over and     *)
(* that was not applied yet, it drops a change that is applied too early   *)
(* (get_commission_info_mut gives callers the record), and it lets a       *)
(* validator register again, which starts its record anew.                 *)
(***************************************************************************)
EXTENDS ValidatorIds, Integers, Sequences, SequencesExt

CONSTANTS
  ManagedRates,         \* rates in percent, within the limits or not
  MinRate, MaxRate,     \* min_commission_rate, max_commission_rate
  NoRequest,
  MaxManagedChanges     \* bound on the history and on the announcements

ASSUME CommissionManagerAssumption ==
  /\ ManagedRates \subseteq Nat /\ MinRate \in Nat /\ MaxRate \in Nat /\ MaxManagedChanges \in Nat
  /\ NoRequest \notin Nat

VARIABLES
  managed,      \* validator_commissions: validator -> ValidatorCommissionInfo
  announced     \* announced[v][i]: the rates v announced, and how far each is

managedVars == <<managed, announced>>

ManagerInit == managed = << >> /\ announced = [v \in Validators |-> << >>]

Allowed(rate) == MinRate =< rate /\ rate =< MaxRate
HasPending(v) == v \in DOMAIN managed /\ managed[v].pending # NoRequest
Effective(v) == announced[v][managed[v].pending].over

-----------------------------------------------------------------------------
RegisterManaged(v, rate) ==
  /\ Allowed(rate)
  /\ managed' = [x \in DOMAIN managed \cup {v} |->
       IF x = v THEN [initial |-> rate, rate |-> rate, pending |-> NoRequest, history |-> << >>]
       ELSE managed[x]]
  /\ announced' = [announced EXCEPT ![v] = << >>]

(* A request is its number among the announcements of the validator.        *)
RequestCommissionChange(v, rate) ==
  /\ Allowed(rate) /\ v \in DOMAIN managed
  /\ HasPending(v) => Effective(v)
  /\ Len(announced[v]) < MaxManagedChanges
  /\ announced' = [announced EXCEPT ![v] = Append(@, [rate |-> rate, over |-> FALSE])]
  /\ managed' = [managed EXCEPT ![v].pending = Len(announced[v]) + 1]

NoticeEnds(v) ==
  /\ HasPending(v)
  /\ announced' = [announced EXCEPT ![v][managed[v].pending].over = TRUE]
  /\ UNCHANGED managed

(* Mutant: the change is not taken out of its place. *)
AppliedKept(info, all) ==
  [info EXCEPT !.rate = all[info.pending].rate, !.history = Append(@, info.pending)]

AppliedChange(info, all) ==
  [info EXCEPT !.rate = all[info.pending].rate, !.history = Append(@, info.pending),
               !.pending = NoRequest]

ApplyPendingChanges ==
  /\ managed' = [v \in DOMAIN managed |->
       IF HasPending(v) /\ Effective(v) THEN AppliedChange(managed[v], announced[v]) ELSE managed[v]]
  /\ UNCHANGED announced

(* apply_pending_change or cancel_pending_change on the record of one       *)
(* validator: applied too early the change is lost, as if cancelled.        *)
ApplyPendingChange(v) ==
  /\ HasPending(v)
  /\ managed' = [managed EXCEPT ![v] = IF Effective(v) THEN AppliedChange(@, announced[v])
                                       ELSE [@ EXCEPT !.pending = NoRequest]]
  /\ UNCHANGED announced

CancelPendingChange(v) ==
  /\ HasPending(v)
  /\ managed' = [managed EXCEPT ![v].pending = NoRequest]
  /\ UNCHANGED announced

ManagerNext ==
  \/ \E v \in Validators, rate \in ManagedRates :
       RegisterManaged(v, rate) \/ RequestCommissionChange(v, rate)
  \/ \E v \in Validators : NoticeEnds(v) \/ ApplyPendingChange(v) \/ CancelPendingChange(v)
  \/ ApplyPendingChanges

-----------------------------------------------------------------------------
(* Safety: however announcements replace one another, are dropped or        *)
(* applied, each is applied at most once, in the order in which they were   *)
(* made and after its notice period, and the rate in force is the last one  *)
(* applied.                                                                 *)
AppliedAsAnnounced ==
  \A v \in DOMAIN managed :
    LET info == managed[v]
        applied == info.history
    IN  /\ \A i \in DOMAIN applied :
             announced[v][applied[i]].over /\ (i > 1 => applied[i - 1] < applied[i])
        /\ info.rate = IF applied = << >> THEN info.initial ELSE announced[v][Last(applied)].rate
=============================================================================
