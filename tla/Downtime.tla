------------------------------ MODULE Downtime -------------------------------
(***************************************************************************)
(* DowntimeTracker of downtime_tracker.rs: validators that missed too many *)
(* snapshots go through a recovery of a number of snapshots.  Mutators     *)
(* take &mut self.  Left out: the participation rate, the quotient of two  *)
(* fields here, with the ParticipationWarning events that a low one adds   *)
(* to the list of events at each check; a change of the configuration; and *)
(* what callers may do to a record that get_record_mut hands out.          *)
(***************************************************************************)
EXTENDS ValidatorIds, Integers, Sequences, SequencesExt

CONSTANTS
  DowntimeThreshold,     \* downtime_threshold
  RecoveryPeriod,        \* recovery_period
  MaxTracked,            \* bound on the snapshots of a period
  MaxMisses,             \* bound on all misses of a validator
  MaxDowntimeEvents      \* bound on the events of a validator

ASSUME DowntimeAssumption ==
  /\ DowntimeThreshold \in Nat \ {0} /\ RecoveryPeriod \in Nat \ {0}
  /\ MaxTracked \in Nat /\ MaxMisses \in Nat /\ MaxDowntimeEvents \in Nat

VARIABLES
  downtime,          \* records: validator -> ValidatorDowntimeRecord
  downtimeEvents,    \* events, by validator
  misses             \* history: snapshots missed since the start, by validator

downtimeVars == <<downtime, downtimeEvents, misses>>

Tracked == DOMAIN downtime
NewRecord == [total |-> 0, missed |-> 0, inRecovery |-> FALSE, recovered |-> 0]

DowntimeInit ==
  /\ downtime = << >>
  /\ downtimeEvents = [v \in Validators |-> << >>]
  /\ misses = [v \in Validators |-> 0]

-----------------------------------------------------------------------------
RecordDowntimeParticipation(v, participated) ==
  LET old == IF v \in Tracked THEN downtime[v] ELSE NewRecord
  IN  /\ old.total < MaxTracked
      /\ participated \/ misses[v] < MaxMisses
      /\ downtime' = [x \in Tracked \cup {v} |->
           IF x # v THEN downtime[x]
           ELSE [old EXCEPT !.total = @ + 1, !.missed = IF participated THEN @ ELSE @ + 1]]
      /\ misses' = IF participated THEN misses ELSE [misses EXCEPT ![v] = @ + 1]
      /\ UNCHANGED downtimeEvents

Violates(v) ==
  v \in Tracked /\ downtime[v].missed >= DowntimeThreshold /\ ~downtime[v].inRecovery

(* Violators enter recovery. *)
CheckDowntimeViolations ==
  /\ \A v \in Tracked : Len(downtimeEvents[v]) < MaxDowntimeEvents
  /\ downtime' = [v \in Tracked |->
       IF Violates(v) THEN [downtime[v] EXCEPT !.inRecovery = TRUE, !.recovered = 0]
       ELSE downtime[v]]
  /\ downtimeEvents' = [v \in Validators |->
       IF Violates(v) THEN Append(downtimeEvents[v], "ThresholdExceeded") ELSE downtimeEvents[v]]
  /\ UNCHANGED misses

Recovers(v) ==
  v \in Tracked /\ downtime[v].inRecovery /\ downtime[v].recovered + 1 >= RecoveryPeriod

(* Mutant: who leaves a recovery takes the missed snapshots along. *)
ProcessRecoveryKeepsMissed ==
  /\ \A v \in Tracked : Len(downtimeEvents[v]) < MaxDowntimeEvents
  /\ downtime' = [v \in Tracked |->
       IF Recovers(v) THEN [downtime[v] EXCEPT !.inRecovery = FALSE, !.recovered = 0]
       ELSE IF downtime[v].inRecovery THEN [downtime[v] EXCEPT !.recovered = @ + 1]
       ELSE downtime[v]]
  /\ downtimeEvents' = [v \in Validators |->
       IF Recovers(v) THEN Append(downtimeEvents[v], "ExitedRecovery") ELSE downtimeEvents[v]]
  /\ UNCHANGED misses

(* One recovery snapshot for everybody who is in recovery.  Leaving it      *)
(* clears the missed snapshots and keeps the total.                         *)
ProcessRecovery ==
  /\ \A v \in Tracked : Len(downtimeEvents[v]) < MaxDowntimeEvents
  /\ downtime' = [v \in Tracked |->
       IF Recovers(v)
       THEN [downtime[v] EXCEPT !.inRecovery = FALSE, !.missed = 0, !.recovered = 0]
       ELSE IF downtime[v].inRecovery THEN [downtime[v] EXCEPT !.recovered = @ + 1]
       ELSE downtime[v]]
  /\ downtimeEvents' = [v \in Validators |->
       IF Recovers(v) THEN Append(downtimeEvents[v], "ExitedRecovery") ELSE downtimeEvents[v]]
  /\ UNCHANGED misses

(* A new period for all but those in recovery. *)
AdvanceDowntimeCycle ==
  /\ downtime' = [v \in Tracked |-> IF downtime[v].inRecovery THEN downtime[v] ELSE NewRecord]
  /\ UNCHANGED <<downtimeEvents, misses>>

DowntimeNext ==
  \/ \E v \in Validators, participated \in BOOLEAN : RecordDowntimeParticipation(v, participated)
  \/ CheckDowntimeViolations \/ ProcessRecovery \/ AdvanceDowntimeCycle

-----------------------------------------------------------------------------
(* The events of a validator that report a downtime, when they take turns.  *)
Downtimes(v) == (Len(downtimeEvents[v]) + 1) \div 2

(* Safety: over misses, checks, recoveries and new periods in any order a   *)
(* validator's events are a threshold exceeded and a recovery left, in      *)
(* turns: no validator is reported twice for one downtime or leaves a       *)
(* recovery twice, and the record's flag is what the events say.  Every     *)
(* reported downtime has a threshold of misses of its own: no miss counts   *)
(* towards two of them, whatever was cleared between.                       *)
RecoveryAlternates ==
  \A v \in Validators :
    LET events == downtimeEvents[v]
    IN  /\ \A i \in DOMAIN events :
             events[i] = IF i % 2 = 1 THEN "ThresholdExceeded" ELSE "ExitedRecovery"
        /\ misses[v] >= DowntimeThreshold * Downtimes(v)
        /\ v \in Tracked =>
             /\ downtime[v].inRecovery <=> Len(events) % 2 = 1
             /\ downtime[v].recovered < RecoveryPeriod
             /\ downtime[v].inRecovery => downtime[v].missed >= DowntimeThreshold
             /\ downtime[v].missed =< downtime[v].total
=============================================================================
