------------------------ MODULE ValidatorActivation --------------------------
(***************************************************************************)
(* ValidatorActivationManager of validator_activation.rs: validators       *)
(* become active or stop being so by requests that are voted on.  Mutators *)
(* take &mut self; suspend and remove belong to the record, and callers    *)
(* reach them by get_record_mut, past the list of events.  (They could     *)
(* reach activate and deactivate the same way, past the votes: left out,   *)
(* those have requests of their own.)  A vote carries a weight and no      *)
(* voter, so a validator's second vote is one more vote.  Expiry of a      *)
(* request has a status and no code.                                       *)
(***************************************************************************)
EXTENDS ValidatorIds, Integers, Sequences, SequencesExt

CONSTANTS
  Weights,             \* voting power of a vote
  TotalStakes,         \* total stake that finalize_request is given
  VotesRequired,       \* activation_votes_required, in percent
  DeactivationVotesRequired,
  MaxVotes,            \* bound on the weight voted on a request
  MaxActivationEvents  \* bound on the events of a validator

ASSUME ActivationAssumption ==
  /\ Weights \subseteq Nat /\ TotalStakes \subseteq Nat
  /\ VotesRequired \in 0..100 /\ DeactivationVotesRequired \in 0..100
  /\ MaxVotes \in Nat /\ MaxActivationEvents \in Nat

VARIABLES
  activation,          \* records: validator -> ValidatorActivationRecord
  activationRequests,  \* pending_requests: validator -> ActivationRequest
  activationEvents     \* events, by validator

activationVars == <<activation, activationRequests, activationEvents>>

(* coolsDown: can_reactivate_at is set and still to come.                   *)
PendingRecord ==
  [status |-> "Pending", coolsDown |-> FALSE, activations |-> 0, deactivations |-> 0]

Record(v) == IF v \in DOMAIN activation THEN activation[v] ELSE PendingRecord

ActivationInit ==
  /\ activation = << >>
  /\ activationRequests = << >>
  /\ activationEvents = [v \in Validators |-> << >>]

-----------------------------------------------------------------------------
(* A new request replaces one that is pending, with its votes.              *)
PutRequest(v, type) ==
  /\ activationRequests' = [x \in DOMAIN activationRequests \cup {v} |->
       IF x = v THEN [type |-> type, favor |-> 0, total |-> 0] ELSE activationRequests[x]]
  /\ UNCHANGED <<activation, activationEvents>>

(* The caller's stake and voting power meet the minima. *)
RequestActivation(v) == Record(v).status # "Active" /\ PutRequest(v, "Activation")

RequestDeactivation(v) == Record(v).status = "Active" /\ PutRequest(v, "Deactivation")

VoteOnRequest(v, inFavor, weight) ==
  /\ v \in DOMAIN activationRequests
  /\ activationRequests[v].total + weight =< MaxVotes
  /\ activationRequests' = [activationRequests EXCEPT ![v].total = @ + weight,
                              ![v].favor = IF inFavor THEN @ + weight ELSE @]
  /\ UNCHANGED <<activation, activationEvents>>

Required(type, stake) ==
  (stake * (IF type = "Activation" THEN VotesRequired ELSE DeactivationVotesRequired)) \div 100

SetRecord(v, record) ==
  activation' = [x \in DOMAIN activation \cup {v} |-> IF x = v THEN record ELSE activation[x]]

Drop(v) == activationRequests' = [x \in DOMAIN activationRequests \ {v} |-> activationRequests[x]]

(* activate(): refused for an active validator, and for one in its cooldown.*)
CanActivate(v) == Record(v).status # "Active" /\ ~Record(v).coolsDown
CanDeactivate(v) == Record(v).status = "Active"

Approve(v, type) ==
  LET record == Record(v)
  IN  /\ SetRecord(v, IF type = "Activation"
                      THEN [record EXCEPT !.status = "Active", !.coolsDown = FALSE,
                                          !.activations = @ + 1]
                      ELSE [record EXCEPT !.status = "Deactivated", !.coolsDown = TRUE,
                                          !.deactivations = @ + 1])
      /\ activationEvents' = [activationEvents EXCEPT ![v] =
           Append(@, IF type = "Activation" THEN "Activated" ELSE "Deactivated")]

(* Mutant: the event is pushed before the record may refuse. *)
FinalizeLogsFirst(v, stake) ==
  /\ v \in DOMAIN activationRequests
  /\ LET request == activationRequests[v]
         approved == request.favor >= Required(request.type, stake)
         may == IF request.type = "Activation" THEN CanActivate(v) ELSE CanDeactivate(v)
     IN  \/ ~approved /\ Drop(v) /\ UNCHANGED <<activation, activationEvents>>
         \/ approved /\ may /\ Approve(v, request.type) /\ Drop(v)
         \/ /\ approved /\ ~may
            /\ activationEvents' = [activationEvents EXCEPT ![v] = Append(@, "Activated")]
            /\ UNCHANGED <<activation, activationRequests>>

(* finalize_request.  An approved request whose record refuses - it was     *)
(* suspended or removed since, or cools down - stays pending with its       *)
(* votes; the first activation leaves no record then, for a new record      *)
(* never refuses.                                                           *)
FinalizeRequest(v, stake) ==
  /\ v \in DOMAIN activationRequests
  /\ LET request == activationRequests[v]
     IN  IF request.favor < Required(request.type, stake)
         THEN UNCHANGED <<activation, activationEvents>>
         ELSE /\ IF request.type = "Activation" THEN CanActivate(v) ELSE CanDeactivate(v)
              /\ Len(activationEvents[v]) < MaxActivationEvents
              /\ Approve(v, request.type)
  /\ Drop(v)

CooldownEnds(v) ==
  /\ Record(v).coolsDown
  /\ activation' = [activation EXCEPT ![v].coolsDown = FALSE]
  /\ UNCHANGED <<activationRequests, activationEvents>>

Suspend(v) ==
  /\ v \in DOMAIN activation /\ activation[v].status # "Suspended"
  /\ activation' = [activation EXCEPT ![v].status = "Suspended"]
  /\ UNCHANGED <<activationRequests, activationEvents>>

RemoveRecord(v) ==
  /\ v \in DOMAIN activation
  /\ activation' = [activation EXCEPT ![v].status = "Removed"]
  /\ UNCHANGED <<activationRequests, activationEvents>>

ActivationNext ==
  \E v \in Validators :
    \/ RequestActivation(v) \/ RequestDeactivation(v)
    \/ \E inFavor \in BOOLEAN, weight \in Weights : VoteOnRequest(v, inFavor, weight)
    \/ \E stake \in TotalStakes : FinalizeRequest(v, stake)
    \/ CooldownEnds(v) \/ Suspend(v) \/ RemoveRecord(v)

-----------------------------------------------------------------------------
Times(v, event) ==
  Cardinality({i \in DOMAIN activationEvents[v] : activationEvents[v][i] = event})

LastEvent(v) ==
  IF activationEvents[v] = << >> THEN "None" ELSE activationEvents[v][Len(activationEvents[v])]

(* Safety: activations and deactivations are audited exactly, through       *)
(* finalizations that fail after the vote was counted and are tried again,  *)
(* and suspensions and removals between: the record counts as many of each  *)
(* as there are events, each deactivation comes right after an activation,  *)
(* an active validator's last event is its activation and no cooldown of it *)
(* runs, a deactivated one's is its deactivation.  Suspensions and removals *)
(* are in no event, and the property says nothing of them.                  *)
ActivationsAudited ==
  \A v \in Validators :
    /\ Times(v, "Activated") = Record(v).activations
    /\ Times(v, "Deactivated") = Record(v).deactivations
    /\ \A i \in DOMAIN activationEvents[v] :
         activationEvents[v][i] = "Deactivated" => i > 1 /\ activationEvents[v][i - 1] = "Activated"
    /\ Record(v).status = "Active" => LastEvent(v) = "Activated" /\ ~Record(v).coolsDown
    /\ Record(v).status = "Deactivated" => LastEvent(v) = "Deactivated"
=============================================================================
