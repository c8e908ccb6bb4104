-------------------------- MODULE VersionActivation ---------------------------
(***************************************************************************)
(* ActivationCoordinator of activation.rs: approved upgrades are scheduled *)
(* and become active at cycle boundaries, and the version before stays     *)
(* supported for a transition period.  Every field has a lock of its own,  *)
(* so an action is one section of a method; where a method takes a lock    *)
(* while it holds another, the steps say who holds what.  Two of them take *)
(* the same locks in opposite orders: get_stats waits for the active       *)
(* version with the supported ones locked, activate_at_cycle the other way *)
(* around, and both may wait for ever.                                     *)
(*                                                                         *)
(* What calls the coordinator is not in the source.  As its comments ask,  *)
(* boundaries are processed once and in order; the removal of any version  *)
(* may be asked for at any time, and an upgrade may lead back to a version *)
(* that was active before.  The task that should remove support by itself  *)
(* compares with cycle 0 and never does.                                   *)
(***************************************************************************)
EXTENDS Integers

CONSTANTS
  ApprovedUpgrades,
  Boundary(_),         \* activation cycle of an upgrade
  NewVersion(_),       \* its version
  InitialVersion,
  TransitionPeriod,
  Coordinations,       \* slots for calls under way at the same time
  NoCoordination,
  LastBoundary         \* bound on the boundaries

KnownVersions == {InitialVersion} \cup {NewVersion(u) : u \in ApprovedUpgrades}

ASSUME VersionActivationAssumption ==
  /\ TransitionPeriod \in Nat /\ LastBoundary \in Nat
  /\ \A u \in ApprovedUpgrades : Boundary(u) \in Nat
  /\ NoCoordination \notin
       [step : {"support", "unschedule", "plan removal"}, upgrade : ApprovedUpgrades, old : KnownVersions]

VARIABLES
  activeVersion,          \* active_version
  supportedVersions,      \* supported_versions
  scheduledActivations,   \* scheduled_activations: cycle -> upgrade
  removalSchedule,        \* removal_schedule: version -> cycle
  coordinations,          \* the calls under way
  boundary,               \* the last cycle boundary that was processed
  superseded,             \* history: version -> the last boundary at which it was replaced
  exposed                 \* history: versions that a removal was asked for while they were
                          \* not active, until their support is added with none under way

coordinatorVars == <<activeVersion, supportedVersions, scheduledActivations, removalSchedule,
                     coordinations, boundary, superseded, exposed>>

CoordinatorInit ==
  /\ activeVersion = InitialVersion /\ supportedVersions = {InitialVersion}
  /\ scheduledActivations = << >> /\ removalSchedule = << >>
  /\ coordinations = [c \in Coordinations |-> NoCoordination]
  /\ boundary = 0 /\ superseded = << >> /\ exposed = {}

-----------------------------------------------------------------------------
Free(c) == coordinations[c] = NoCoordination
Does(c, step) == ~Free(c) /\ coordinations[c].step = step
Goes(c, call) == coordinations' = [coordinations EXCEPT ![c] = call]
GoesOn(c, step) == Goes(c, [coordinations[c] EXCEPT !.step = step])
Returns(c) == Goes(c, NoCoordination)
Entry(f, key, value) == [x \in DOMAIN f \cup {key} |-> IF x = key THEN value ELSE f[x]]

(* Who holds which lock between two sections. *)
ActiveLocked    == \E c \in Coordinations : Does(c, "support")
SupportedRead   == \E c \in Coordinations : Does(c, "stats active")
ScheduledRead   == \E c \in Coordinations : Does(c, "stats supported") \/ Does(c, "stats active")
AtBoundary ==
  \E c \in Coordinations, step \in {"activate", "support", "unschedule", "plan removal"} : Does(c, step)

(* schedule_activation: look, then insert; a racing call may be overwritten.*)
ScheduleActivation(c, u) ==
  /\ Free(c) /\ Boundary(u) \notin DOMAIN scheduledActivations
  /\ Goes(c, [step |-> "schedule", upgrade |-> u])
  /\ UNCHANGED <<activeVersion, supportedVersions, scheduledActivations, removalSchedule,
                 boundary, superseded, exposed>>

InsertActivation(c) ==
  /\ Does(c, "schedule") /\ ~ScheduledRead
  /\ LET u == coordinations[c].upgrade
     IN  scheduledActivations' = Entry(scheduledActivations, Boundary(u), u)
  /\ Returns(c)
  /\ UNCHANGED <<activeVersion, supportedVersions, removalSchedule, boundary, superseded, exposed>>

(* process_cycle_boundary up to the copy of the upgrade and of the version  *)
(* it replaces.                                                             *)
ProcessCycleBoundary(c) ==
  /\ Free(c) /\ ~AtBoundary /\ boundary < LastBoundary
  /\ boundary' = boundary + 1
  /\ IF boundary + 1 \in DOMAIN scheduledActivations
     THEN Goes(c, [step |-> "activate", upgrade |-> scheduledActivations[boundary + 1],
                   old |-> activeVersion])
     ELSE UNCHANGED coordinations
  /\ UNCHANGED <<activeVersion, supportedVersions, scheduledActivations, removalSchedule, superseded,
                 exposed>>

(* The active version is set and stays locked until its support is there.   *)
SetActiveVersion(c) ==
  /\ Does(c, "activate")
  /\ activeVersion' = NewVersion(coordinations[c].upgrade)
  /\ superseded' = Entry(superseded, coordinations[c].old, boundary)
  /\ GoesOn(c, "support")
  /\ UNCHANGED <<supportedVersions, scheduledActivations, removalSchedule, boundary, exposed>>

Removing(c, v) == Does(c, "remove") /\ coordinations[c].version = v

AddSupport(c) ==
  /\ Does(c, "support") /\ ~SupportedRead
  /\ LET new == NewVersion(coordinations[c].upgrade)
     IN  /\ supportedVersions' = supportedVersions \cup {new}
         /\ exposed' = IF \E d \in Coordinations : Removing(d, new) THEN exposed ELSE exposed \ {new}
  /\ GoesOn(c, "unschedule")
  /\ UNCHANGED <<activeVersion, scheduledActivations, removalSchedule, boundary, superseded>>

Unschedule(c) ==
  /\ Does(c, "unschedule") /\ ~ScheduledRead
  /\ scheduledActivations' =
       [n \in DOMAIN scheduledActivations \ {boundary} |-> scheduledActivations[n]]
  /\ GoesOn(c, "plan removal")
  /\ UNCHANGED <<activeVersion, supportedVersions, removalSchedule, boundary, superseded, exposed>>

ScheduleVersionRemoval(c) ==
  /\ Does(c, "plan removal")
  /\ removalSchedule' = Entry(removalSchedule, coordinations[c].old, boundary + TransitionPeriod)
  /\ Returns(c)
  /\ UNCHANGED <<activeVersion, supportedVersions, scheduledActivations, boundary, superseded, exposed>>

(* Mutant: the active version is not compared with. *)
RemoveAnyVersion(c, v) ==
  /\ Free(c) /\ ~ActiveLocked
  /\ Goes(c, [step |-> "remove", version |-> v])
  /\ exposed' = exposed \cup ({v} \ {activeVersion})
  /\ UNCHANGED <<activeVersion, supportedVersions, scheduledActivations, removalSchedule,
                 boundary, superseded>>

(* remove_version_support: compare with the active version, then remove     *)
(* under another lock, whatever is active by then.                          *)
RemoveVersionSupport(c, v) ==
  /\ Free(c) /\ ~ActiveLocked /\ v # activeVersion
  /\ Goes(c, [step |-> "remove", version |-> v])
  /\ exposed' = exposed \cup {v}
  /\ UNCHANGED <<activeVersion, supportedVersions, scheduledActivations, removalSchedule,
                 boundary, superseded>>

RemoveSupport(c) ==
  /\ Does(c, "remove") /\ ~SupportedRead
  /\ supportedVersions' = supportedVersions \ {coordinations[c].version}
  /\ Returns(c)
  /\ UNCHANGED <<activeVersion, scheduledActivations, removalSchedule, boundary, superseded, exposed>>

(* get_stats keeps each lock until it has the next. *)
GetStats(c) ==
  /\ \/ Free(c) /\ Goes(c, [step |-> "stats supported"])
     \/ Does(c, "stats supported") /\ GoesOn(c, "stats active")
     \/ Does(c, "stats active") /\ ~ActiveLocked /\ Returns(c)
  /\ UNCHANGED <<activeVersion, supportedVersions, scheduledActivations, removalSchedule,
                 boundary, superseded, exposed>>

CoordinatorNext ==
  \E c \in Coordinations :
    \/ \E u \in ApprovedUpgrades : ScheduleActivation(c, u)
    \/ InsertActivation(c) \/ ProcessCycleBoundary(c) \/ SetActiveVersion(c) \/ AddSupport(c)
    \/ Unschedule(c) \/ ScheduleVersionRemoval(c) \/ RemoveSupport(c) \/ GetStats(c)
    \/ \E v \in KnownVersions : RemoveVersionSupport(c, v)

-----------------------------------------------------------------------------
(* The call that replaced v has still to plan the end of its support.       *)
Planning(v) ==
  \E c \in Coordinations, step \in {"support", "unschedule", "plan removal"} :
    Does(c, step) /\ coordinations[c].old = v

(* Safety: between the sections of concurrent calls, upgrades that go back  *)
(* to an earlier version included, the versions and the removal schedule    *)
(* agree although each changes under a lock of its own.  Whoever can read   *)
(* the active version finds it supported, and a version that was replaced   *)
(* stays supported, unless its removal was asked for while it was not       *)
(* active; for the active version that leaves the removal that was under    *)
(* way when it became active, and no other.  The end of a replaced          *)
(* version's support is planned a transition period after it was replaced.  *)
SupportLostOnlyByRemoval ==
  /\ ~ActiveLocked /\ activeVersion \notin exposed => activeVersion \in supportedVersions
  /\ DOMAIN superseded \ exposed \subseteq supportedVersions
  /\ \A v \in DOMAIN superseded :
       \/ Planning(v)
       \/ v \in DOMAIN removalSchedule /\ removalSchedule[v] = superseded[v] + TransitionPeriod
=============================================================================
