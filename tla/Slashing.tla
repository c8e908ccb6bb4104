------------------------------ MODULE Slashing -------------------------------
(***************************************************************************)
(* SlashingManager of slashing.rs: validators lose stake and are jailed    *)
(* for double signing, for downtime, or by hand.  A jail ends when its     *)
(* time is over or when it is lifted; its record stays until               *)
(* process_expired_jails removes it.  Mutators take &mut self; a refused   *)
(* call changes nothing and is no step.  The configuration is constant.    *)
(***************************************************************************)
EXTENDS ValidatorIds, Integers, Sequences, SequencesExt

CONSTANTS
  Evidence,             \* evidence of double signing
  SlashedStakes,        \* stakes that callers pass in
  MissedSnapshots,      \* missed snapshots that callers pass in
  SlashDoubleSigning,   \* slash_double_signing, in percent
  SlashDowntime,        \* slash_downtime, in percent
  DowntimeLimit,        \* downtime_threshold of the slashing configuration
  NoEvidence,
  MaxSlashes            \* bound on the slash history

ASSUME SlashingAssumption ==
  /\ SlashedStakes \subseteq Nat /\ MissedSnapshots \subseteq Nat
  /\ SlashDoubleSigning \in 0..100 /\ SlashDowntime \in 0..100
  /\ DowntimeLimit \in Nat /\ NoEvidence \notin Evidence /\ MaxSlashes \in Nat

VARIABLES
  jailed,          \* jailed_validators: validator -> its record
  slashHistory,    \* slash_history
  evidenceSeen,    \* double_signing_evidence: the last one of a validator
  releases         \* how often a running jail of a validator ended

slashingVars == <<jailed, slashHistory, evidenceSeen, releases>>

Jailed == DOMAIN jailed
IsJailed(v) == v \in Jailed /\ jailed[v].running

SlashingInit ==
  /\ jailed = << >>
  /\ slashHistory = << >>
  /\ evidenceSeen = [v \in Validators |-> NoEvidence]
  /\ releases = [v \in Validators |-> 0]

-----------------------------------------------------------------------------
(* Jailing: an expired record of the validator is replaced. *)
Jail(v, reason, amount, evidence) ==
  /\ Len(slashHistory) < MaxSlashes
  /\ jailed' = [x \in Jailed \cup {v} |->
                  IF x = v THEN [reason |-> reason, amount |-> amount, running |-> TRUE]
                  ELSE jailed[x]]
  /\ slashHistory' = Append(slashHistory,
       [validator |-> v, reason |-> reason, amount |-> amount, evidence |-> evidence])

SlashForDoubleSigning(v, stake, evidence) ==
  LET amount == (stake * SlashDoubleSigning) \div 100
  IN  /\ evidenceSeen[v] # evidence
      /\ ~IsJailed(v) /\ amount > 0
      /\ Jail(v, "DoubleSigning", amount, evidence)
      /\ evidenceSeen' = [evidenceSeen EXCEPT ![v] = evidence]
      /\ UNCHANGED releases

SlashForDowntime(v, stake, missed) ==
  LET amount == (stake * SlashDowntime) \div 100
  IN  /\ ~IsJailed(v) /\ missed >= DowntimeLimit /\ amount > 0
      /\ Jail(v, "ExcessiveDowntime", amount, NoEvidence)
      /\ UNCHANGED <<evidenceSeen, releases>>

(* Mutant: a running jail is replaced. *)
JailManuallyAgain(v) ==
  Jail(v, "Manual", 0, NoEvidence) /\ UNCHANGED <<evidenceSeen, releases>>

JailValidatorManual(v) ==
  /\ ~IsJailed(v)
  /\ Jail(v, "Manual", 0, NoEvidence)
  /\ UNCHANGED <<evidenceSeen, releases>>

(* A running jail ends, by its time or because it is lifted; lifting one    *)
(* that is over changes nothing.                                            *)
JailEnds(v) ==
  /\ IsJailed(v)
  /\ jailed' = [jailed EXCEPT ![v].running = FALSE]
  /\ releases' = [releases EXCEPT ![v] = @ + 1]
  /\ UNCHANGED <<slashHistory, evidenceSeen>>

ProcessExpiredJails ==
  /\ jailed' = [v \in {x \in Jailed : IsJailed(x)} |-> jailed[v]]
  /\ UNCHANGED <<slashHistory, evidenceSeen, releases>>

SlashingNext ==
  \/ \E v \in Validators, stake \in SlashedStakes, evidence \in Evidence :
       SlashForDoubleSigning(v, stake, evidence)
  \/ \E v \in Validators, stake \in SlashedStakes, missed \in MissedSnapshots :
       SlashForDowntime(v, stake, missed)
  \/ \E v \in Validators : JailValidatorManual(v) \/ JailEnds(v)
  \/ ProcessExpiredJails

-----------------------------------------------------------------------------
EventsOf(v) == {i \in DOMAIN slashHistory : slashHistory[i].validator = v}
SigningsOf(v) == {i \in EventsOf(v) : slashHistory[i].reason = "DoubleSigning"}
IsLastOf(i, places) == i \in places /\ \A j \in places : j =< i

OneSlashPerJail(v) ==
  /\ Cardinality(EventsOf(v)) = releases[v] + (IF IsJailed(v) THEN 1 ELSE 0)
  /\ IsJailed(v) => \E i \in EventsOf(v) : /\ IsLastOf(i, EventsOf(v))
                                           /\ slashHistory[i].reason = jailed[v].reason
                                           /\ slashHistory[i].amount = jailed[v].amount

EvidenceNotRepeated(v) ==
  \A i, j \in SigningsOf(v) :
    i < j /\ (\A k \in SigningsOf(v) : ~(i < k /\ k < j)) =>
      slashHistory[i].evidence # slashHistory[j].evidence

(* Safety: nobody is slashed twice for one jail: a validator has at most    *)
(* one slash event more than ended jails, also when expired records are     *)
(* purged or replaced, and a running jail is that of its last event.  Nor   *)
(* is the same evidence, handed in again, slashed again before other        *)
(* evidence came, whatever jails ended, were purged or began since.         *)
(* (After other evidence it is: only the last is remembered.)               *)
SlashesJustified == \A v \in Validators : OneSlashPerJail(v) /\ EvidenceNotRepeated(v)
=============================================================================
