----------------------------- MODULE KeyRotation -----------------------------
(***************************************************************************)
(* KeyRotationManager of key_rotation.rs: a validator asks for a new key,  *)
(* the request is voted on, and an approved key is accepted next to the    *)
(* old ones for a transition period before it becomes the active one.      *)
(* Mutators take &mut self.  The manager hands out no record for change,   *)
(* so that KeyRecord::revoke is never reached, no key is ever revoked, and *)
(* the branch that makes room by removing a revoked key does nothing.      *)
(***************************************************************************)
EXTENDS ValidatorIds, Integers, Sequences, SequencesExt

CONSTANTS
  Keys,
  RotationWeights,     \* voting power of a vote
  RotationStakes,      \* total stake that finalize_rotation is given
  RotationVotes,       \* votes_required, in percent
  MaxRotationVotes,    \* bound on the weight voted on a request
  MaxRotationEvents    \* bound on the events of a validator

ASSUME KeyRotationAssumption ==
  /\ RotationWeights \subseteq Nat /\ RotationStakes \subseteq Nat /\ RotationVotes \in 0..100
  /\ MaxRotationVotes \in Nat /\ MaxRotationEvents \in Nat

VARIABLES
  keys,               \* validator_keys: validator -> key -> KeyRecord
  activeKey,          \* active_keys
  rotationRequests,   \* pending_requests
  rotationEvents      \* events, by validator, after the key it registered with

rotationVars == <<keys, activeKey, rotationRequests, rotationEvents>>

KeyOwners == DOMAIN activeKey

KeyRotationInit ==
  /\ keys = << >>
  /\ activeKey = << >>
  /\ rotationRequests = << >>
  /\ rotationEvents = [v \in Validators |-> << >>]

Log(v, type, k) == rotationEvents' = [rotationEvents EXCEPT ![v] = Append(@, <<type, k>>)]
MayLog(v) == Len(rotationEvents[v]) < MaxRotationEvents

-----------------------------------------------------------------------------
(* A key in transition has a time at which that ends: its place among the   *)
(* approvals stands for it, all periods being equally long.                 *)
KeyRecord(status, since) == [status |-> status, since |-> since, over |-> FALSE]

RegisterInitialKey(v, k) ==
  /\ v \notin KeyOwners
  /\ keys' = [x \in KeyOwners \cup {v} |->
                IF x = v THEN [y \in {k} |-> KeyRecord("Active", 0)] ELSE keys[x]]
  /\ activeKey' = [x \in KeyOwners \cup {v} |-> IF x = v THEN k ELSE activeKey[x]]
  /\ Log(v, "Registered", k)
  /\ UNCHANGED rotationRequests

RequestKeyRotation(v, k) ==
  /\ v \in KeyOwners /\ v \notin DOMAIN rotationRequests
  /\ MayLog(v) /\ Log(v, "RotationRequested", k)
  /\ rotationRequests' = [x \in DOMAIN rotationRequests \cup {v} |->
       IF x = v THEN [key |-> k, favor |-> 0, total |-> 0] ELSE rotationRequests[x]]
  /\ UNCHANGED <<keys, activeKey>>

VoteOnRotation(v, inFavor, weight) ==
  /\ v \in DOMAIN rotationRequests
  /\ rotationRequests[v].total + weight =< MaxRotationVotes
  /\ rotationRequests' = [rotationRequests EXCEPT ![v].total = @ + weight,
                            ![v].favor = IF inFavor THEN @ + weight ELSE @]
  /\ UNCHANGED <<keys, activeKey, rotationEvents>>

(* KeyRecord::new and activate. *)
NewKey(since) == KeyRecord("Transitioning", since)

(* An approved key replaces a record of the same key, the active one too.   *)
FinalizeRotation(v, stake) ==
  /\ v \in DOMAIN rotationRequests /\ MayLog(v)
  /\ LET request == rotationRequests[v]
         approved == request.favor >= (stake * RotationVotes) \div 100
     IN  /\ keys' = IF ~approved THEN keys
                    ELSE [keys EXCEPT ![v] =
                      [x \in DOMAIN @ \cup {request.key} |->
                         IF x = request.key THEN NewKey(Len(rotationEvents[v])) ELSE @[x]]]
         /\ Log(v, IF approved THEN "RotationApproved" ELSE "RotationRejected", request.key)
  /\ rotationRequests' = [x \in DOMAIN rotationRequests \ {v} |-> rotationRequests[x]]
  /\ UNCHANGED activeKey

InTransition(v) == {k \in DOMAIN keys[v] : keys[v][k].status = "Transitioning"}

TransitionPeriodEnds(v, k) ==
  /\ v \in KeyOwners /\ k \in InTransition(v) /\ ~keys[v][k].over
  /\ \A other \in InTransition(v) :
       keys[v][other].since < keys[v][k].since => keys[v][other].over
  /\ keys' = [keys EXCEPT ![v][k].over = TRUE]
  /\ UNCHANGED <<activeKey, rotationRequests, rotationEvents>>

Complete(v) == {k \in InTransition(v) : keys[v][k].over}

(* Mutant: the active key is not set. *)
ProcessTransitionsOnly(order) ==
  /\ keys' = [v \in KeyOwners |-> [k \in DOMAIN keys[v] |->
                IF k \in Complete(v) THEN KeyRecord("Active", 0) ELSE keys[v][k]]]
  /\ rotationEvents' = [v \in Validators |->
       IF v \in KeyOwners
       THEN rotationEvents[v] \o [i \in DOMAIN order[v] |-> <<"TransitionCompleted", order[v][i]>>]
       ELSE rotationEvents[v]]
  /\ UNCHANGED <<activeKey, rotationRequests>>

(* All complete keys of all validators, in the order of a hash map: the     *)
(* last one is the active key, and the ones before stay Active, too.        *)
ProcessTransitions(order) ==
  /\ keys' = [v \in KeyOwners |-> [k \in DOMAIN keys[v] |->
                IF k \in Complete(v) THEN KeyRecord("Active", 0) ELSE keys[v][k]]]
  /\ activeKey' = [v \in KeyOwners |->
                     IF Complete(v) = {} THEN activeKey[v] ELSE Last(order[v])]
  /\ rotationEvents' = [v \in Validators |->
       IF v \in KeyOwners
       THEN rotationEvents[v] \o [i \in DOMAIN order[v] |-> <<"TransitionCompleted", order[v][i]>>]
       ELSE rotationEvents[v]]
  /\ UNCHANGED rotationRequests

KeyRotationNext ==
  \/ \E v \in Validators, k \in Keys :
       RegisterInitialKey(v, k) \/ RequestKeyRotation(v, k) \/ TransitionPeriodEnds(v, k)
  \/ \E v \in Validators, inFavor \in BOOLEAN, weight \in RotationWeights :
       VoteOnRotation(v, inFavor, weight)
  \/ \E v \in Validators, stake \in RotationStakes : FinalizeRotation(v, stake)
  \/ \E order \in [KeyOwners -> UNION {SetToSeqs(K) : K \in SUBSET Keys}] :
       /\ \A v \in KeyOwners : order[v] \in SetToSeqs(Complete(v))
       /\ ProcessTransitions(order)

-----------------------------------------------------------------------------
Settles(event) == event[1] \in {"Registered", "TransitionCompleted"}

(* Safety: whatever is requested, approved - the key in use again, or one   *)
(* that is in transition - and completed in any order, a registered         *)
(* validator has an active key that is accepted for verification, and it is *)
(* the one of its last completed transition.                                *)
AlwaysAValidKey ==
  \A v \in KeyOwners :
    /\ activeKey[v] \in DOMAIN keys[v]
    /\ keys[v][activeKey[v]].status \in {"Active", "Transitioning"}
    /\ \E i \in DOMAIN rotationEvents[v] :
         /\ Settles(rotationEvents[v][i]) /\ activeKey[v] = rotationEvents[v][i][2]
         /\ \A j \in DOMAIN rotationEvents[v] : j > i => ~Settles(rotationEvents[v][j])
=============================================================================
