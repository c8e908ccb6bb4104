---------------------------- MODULE Compatibility -----------------------------
(***************************************************************************)
(* CompatibilityChecker of compatibility.rs: transactions are checked for  *)
(* the features they need while the active version, the supported versions *)
(* and their flags change.  Each field has a lock of its own and no method *)
(* holds two of them for writing, so an action is one section.  A          *)
(* validation reads the active version once for itself and again for every *)
(* feature, whose flags it looks up later still.                           *)
(***************************************************************************)
EXTENDS Integers

CONSTANTS
  Versions,            \* protocol versions, ordered
  Features,
  FirstVersion,
  Checks,              \* slots for validations under way
  Removals,            \* slots for removals under way
  NoCheck

ASSUME CompatibilityAssumption == Versions \subseteq Nat /\ FirstVersion \in Versions

VARIABLES
  checkerActive,      \* active_version
  checkerSupported,   \* supported_versions: version -> the features its flags enable
  requirements,       \* feature_requirements: feature -> least version
  checks,             \* the validations under way
  removals,           \* the versions that removals under way compared
  during,             \* history: versions active since a validation began
  enabledDuring,      \* history: features that flags of one of them have enabled meanwhile
  accepted            \* history: the last transaction that was accepted

checkerVars ==
  <<checkerActive, checkerSupported, requirements, checks, removals, during, enabledDuring, accepted>>

(* The flags of the first version enable nothing. *)
CheckerInit ==
  /\ checkerActive = FirstVersion
  /\ checkerSupported = [v \in {FirstVersion} |-> {}]
  /\ requirements = << >>
  /\ checks = [c \in Checks |-> NoCheck]
  /\ removals = [r \in Removals |-> NoCheck]
  /\ during = [c \in Checks |-> {}] /\ enabledDuring = [c \in Checks |-> {}]
  /\ accepted = {}

-----------------------------------------------------------------------------
Flags(v) == IF v \in DOMAIN checkerSupported THEN checkerSupported[v] ELSE {}

UpdateActiveVersion(v) ==
  /\ checkerActive' = v
  /\ during' = [c \in Checks |-> IF checks[c] = NoCheck THEN {} ELSE during[c] \cup {v}]
  /\ enabledDuring' =
       [c \in Checks |-> IF checks[c] = NoCheck THEN {} ELSE enabledDuring[c] \cup Flags(v)]
  /\ UNCHANGED <<checkerSupported, requirements, checks, removals, accepted>>

(* The flags of a version that was supported before are replaced.           *)
AddSupportedVersion(v, flags) ==
  /\ checkerSupported' =
       [x \in DOMAIN checkerSupported \cup {v} |-> IF x = v THEN flags ELSE checkerSupported[x]]
  /\ enabledDuring' = [c \in Checks |->
       IF v \in during[c] THEN enabledDuring[c] \cup flags ELSE enabledDuring[c]]
  /\ UNCHANGED <<checkerActive, requirements, checks, removals, during, accepted>>

RegisterFeatureRequirement(f, v) ==
  /\ requirements' = [x \in DOMAIN requirements \cup {f} |-> IF x = f THEN v ELSE requirements[x]]
  /\ UNCHANGED <<checkerActive, checkerSupported, checks, removals, during, enabledDuring, accepted>>

(* remove_supported_version: compare with the active version, then remove.  *)
RemoveSupportedVersion(r, v) ==
  /\ removals[r] = NoCheck /\ v # checkerActive
  /\ removals' = [removals EXCEPT ![r] = v]
  /\ UNCHANGED <<checkerActive, checkerSupported, requirements, checks, during, enabledDuring, accepted>>

RemoveCompared(r) ==
  /\ removals[r] # NoCheck
  /\ checkerSupported' = [v \in DOMAIN checkerSupported \ {removals[r]} |-> checkerSupported[v]]
  /\ removals' = [removals EXCEPT ![r] = NoCheck]
  /\ UNCHANGED <<checkerActive, requirements, checks, during, enabledDuring, accepted>>

-----------------------------------------------------------------------------
Checking(c, step) == checks[c] # NoCheck /\ checks[c].step = step

(* A validation goes on, ... *)
Continue(c, check) ==
  /\ checks' = [checks EXCEPT ![c] = check]
  /\ UNCHANGED <<during, enabledDuring, accepted>>

(* ... or is over. *)
Over(c) ==
  /\ checks' = [checks EXCEPT ![c] = NoCheck]
  /\ during' = [during EXCEPT ![c] = {}] /\ enabledDuring' = [enabledDuring EXCEPT ![c] = {}]

Reject(c) == Over(c) /\ UNCHANGED accepted
Accept(c) == Over(c) /\ accepted' = {[required |-> checks[c].required, enabled |-> enabledDuring[c]]}

(* validate_transaction_compatibility: the version, whether it is           *)
(* supported, and then the features in the order of the transaction.        *)
ValidateTransaction(c, required) ==
  /\ checks[c] = NoCheck
  /\ checks' = [checks EXCEPT ![c] =
       [step |-> "version", version |-> checkerActive, required |-> required, left |-> required]]
  /\ during' = [during EXCEPT ![c] = {checkerActive}]
  /\ enabledDuring' = [enabledDuring EXCEPT ![c] = Flags(checkerActive)]
  /\ accepted' = {}
  /\ UNCHANGED <<checkerActive, checkerSupported, requirements, removals>>

AcceptOrContinue(c, check) ==
  IF check.left # {} THEN Continue(c, [check EXCEPT !.step = "feature"]) ELSE Accept(c)

CheckVersion(c) ==
  /\ Checking(c, "version")
  /\ IF checks[c].version \in DOMAIN checkerSupported THEN AcceptOrContinue(c, checks[c]) ELSE Reject(c)
  /\ UNCHANGED <<checkerActive, checkerSupported, requirements, removals>>

(* is_feature_enabled: the active version is read again, ...                *)
ReadActiveVersion(c, f) ==
  /\ Checking(c, "feature") /\ f \in checks[c].left
  /\ Continue(c, [step |-> "flags", version |-> checks[c].version, required |-> checks[c].required,
                  left |-> checks[c].left, feature |-> f, active |-> checkerActive])
  /\ UNCHANGED <<checkerActive, checkerSupported, requirements, removals>>

(* Mutant: a feature of any supported version will do. *)
EnabledAnywhere(f, v) == \E w \in DOMAIN checkerSupported : f \in checkerSupported[w]

(* ... and then the flags it has by now. *)
IsEnabled(f, v) == f \in Flags(v)

CheckFlags(c) ==
  /\ Checking(c, "flags")
  /\ IF IsEnabled(checks[c].feature, checks[c].active)
     THEN Continue(c, [checks[c] EXCEPT !.step = "requirement"])
     ELSE Reject(c)
  /\ UNCHANGED <<checkerActive, checkerSupported, requirements, removals>>

CheckRequirement(c) ==
  /\ Checking(c, "requirement")
  /\ LET check == checks[c]
     IN  IF check.feature \in DOMAIN requirements /\ check.version < requirements[check.feature]
         THEN Reject(c)
         ELSE AcceptOrContinue(c, [step |-> "feature", version |-> check.version,
                required |-> check.required, left |-> check.left \ {check.feature}])
  /\ UNCHANGED <<checkerActive, checkerSupported, requirements, removals>>

CheckerNext ==
  \/ \E v \in Versions : UpdateActiveVersion(v)
  \/ \E v \in Versions, flags \in SUBSET Features : AddSupportedVersion(v, flags)
  \/ \E f \in Features, v \in Versions : RegisterFeatureRequirement(f, v)
  \/ \E r \in Removals : RemoveCompared(r) \/ \E v \in Versions : RemoveSupportedVersion(r, v)
  \/ \E c \in Checks :
       \/ \E required \in SUBSET Features : ValidateTransaction(c, required)
       \/ \E f \in Features : ReadActiveVersion(c, f)
       \/ CheckVersion(c) \/ CheckFlags(c) \/ CheckRequirement(c)

-----------------------------------------------------------------------------
(* Safety: a validation reads the active version again for every feature,   *)
(* and its flags later than that, while versions are added with other       *)
(* flags, removed and made active.  Still every feature of an accepted      *)
(* transaction was enabled, at some moment of the validation, by the flags  *)
(* of a version that had been active since it began.  (Not all at the same  *)
(* moment or by the same version: two features of which each version        *)
(* enables one are accepted when the version changes between them.)         *)
AcceptedFeaturesWereActive == \A a \in accepted : a.required \subseteq a.enabled
=============================================================================
