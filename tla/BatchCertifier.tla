--------------------------- MODULE BatchCertifier ---------------------------
(***************************************************************************)
(* The batch certifier of cascade.rs, running on the flow graph: threads   *)
(* call add_signature concurrently, and a batch gets a certificate when    *)
(* the signatures collected for it weigh more than two thirds of the stake.*)
(*                                                                         *)
(* One action is one critical section of add_signature.  Which locks a     *)
(* thread holds between two sections follows from its program counter:     *)
(*   - the validator set's read guard from the membership check until the  *)
(*     totals are computed;                                                *)
(*   - the DashMap guard "signatures" (a read lock on the shard of the     *)
(*     batch) from the tally to the end of the call, if there is a quorum. *)
(* Certificate::validate (external) gets the total stake and is taken to   *)
(* accept a certificate that outweighs two thirds of it.                   *)
(***************************************************************************)
EXTENDS Integers, FiniteSets, Sequences, SequencesExt

CONSTANTS
  Batches, MaxParents, MaxAdds,   \* of the flow graph
  Threads,        \* concurrent callers of add_signature
  Validators,
  Stake,          \* validator -> its stake
  Shard,          \* batch -> shard of pending_signatures that holds it
  MaxDeliveries   \* bound: how often one signature may be delivered

ASSUME GraphAssumption == Batches \subseteq Int /\ MaxParents \in Nat /\ MaxAdds \in Nat
ASSUME ValidatorsAssumption == IsFiniteSet(Validators)
ASSUME StakeAssumption == Stake \in [Validators -> Nat]
ASSUME DeliveriesAssumption == MaxDeliveries \in Nat

VARIABLES
  prev, vertices, roots, tips, clock,   \* the flow graph
  members,        \* validators in the validator set
  signatures,     \* pending_signatures: batch -> validators in order of arrival
  certified,      \* certified_batches: batch -> certificate
  call,           \* thread -> the add_signature call it executes
  delivered       \* how often the signature of a validator for a batch came

Graph == INSTANCE FlowGraph

graphVars == <<prev, vertices, roots, tips, clock>>
certVars == <<members, signatures, certified>>
vars == <<graphVars, certVars, call, delivered>>

Certificate == [signers : Seq(Validators), weight : Nat, total : Nat]
NoCertificate == [signers |-> << >>, weight |-> 0, total |-> 0]
Idle == [pc |-> "idle"]

At(t, pc) == call[t].pc = pc
Goto(t, pc) == call' = [call EXCEPT ![t].pc = pc]
Return(t) == call' = [call EXCEPT ![t] = Idle]

(* Locks, as held between two steps. *)
ReadsValidatorSet(t) == call[t].pc \in {"push", "tally"}
(* Mutant: the list of signatures is copied instead of held. *)
HoldsNoRef(t, shard) == FALSE

HoldsRef(t, shard) ==
  call[t].pc \in {"store", "link", "unpend"} /\ Shard[call[t].batch] = shard

(* calculate_stake_weight sums over the list it is given; total_stake.      *)
StakeOf(v) == IF v \in members THEN Stake[v] ELSE 0
StakeWeight(list) == FoldLeft(LAMBDA sum, v : sum + StakeOf(v), 0, list)
TotalStake == MapThenSumSet(StakeOf, members)
Quorum(weight, total) == weight * 3 > total * 2

-----------------------------------------------------------------------------
Init ==
  /\ Graph!Init
  /\ members = Validators
  /\ signatures = [b \in Batches |-> << >>]
  /\ certified = << >>
  /\ call = [t \in Threads |-> Idle]
  /\ delivered = [b \in Batches |-> [v \in Validators |-> 0]]

(* A signature arrives and the flow graph is asked for its batch.  A call   *)
(* for an unknown batch returns an error.                                   *)
Call(t, b, v) ==
  /\ At(t, "idle")
  /\ b \in Graph!Authored
  /\ delivered[b][v] < MaxDeliveries
  /\ delivered' = [delivered EXCEPT ![b][v] = @ + 1]
  /\ IF Graph!ContainsBatch(b)
     THEN call' = [call EXCEPT ![t] = [pc |-> "certified?", batch |-> b, validator |-> v,
                                       certificate |-> NoCertificate]]
     ELSE UNCHANGED call
  /\ UNCHANGED <<graphVars, certVars>>

CheckCertified(t) ==
  /\ At(t, "certified?")
  /\ IF call[t].batch \in DOMAIN certified THEN Return(t) ELSE Goto(t, "validator?")
  /\ UNCHANGED <<graphVars, certVars, delivered>>

(* Takes the read guard of the validator set and keeps it if the signer is  *)
(* a member.                                                                *)
CheckValidator(t) ==
  /\ At(t, "validator?")
  /\ IF call[t].validator \in members THEN Goto(t, "push") ELSE Return(t)
  /\ UNCHANGED <<graphVars, certVars, delivered>>

(* entry().push needs the write lock of the shard. *)
Push(t) ==
  /\ At(t, "push")
  /\ \A u \in Threads : ~HoldsRef(u, Shard[call[t].batch])
  /\ signatures' = [signatures EXCEPT ![call[t].batch] = Append(@, call[t].validator)]
  /\ Goto(t, "tally")
  /\ UNCHANGED <<graphVars, members, certified, delivered>>

(* Mutant: two thirds are enough. *)
TallyAtLeast(t) ==
  /\ At(t, "tally")
  /\ LET list == signatures[call[t].batch]
         weight == StakeWeight(list)
     IN  IF weight * 3 >= TotalStake * 2
         THEN call' = [call EXCEPT ![t].pc = "store",
                         ![t].certificate = [signers |-> list, weight |-> weight,
                                             total |-> TotalStake]]
         ELSE Return(t)
  /\ UNCHANGED <<graphVars, certVars, delivered>>

(* Mutant: the list is weighed as it was before the signature came. *)
TallyBefore(t) ==
  /\ At(t, "tally")
  /\ LET list == Front(signatures[call[t].batch])
         weight == StakeWeight(list)
     IN  IF Quorum(weight, TotalStake)
         THEN call' = [call EXCEPT ![t].pc = "store",
                         ![t].certificate = [signers |-> list, weight |-> weight,
                                             total |-> TotalStake]]
         ELSE Return(t)
  /\ UNCHANGED <<graphVars, certVars, delivered>>

(* Takes the Ref, weighs the list, releases the validator set.  Without a   *)
(* quorum the call returns None; with one it keeps the Ref.                 *)
Tally(t) ==
  /\ At(t, "tally")
  /\ LET list == signatures[call[t].batch]
         weight == StakeWeight(list)
     IN  IF Quorum(weight, TotalStake)
         THEN call' = [call EXCEPT ![t].pc = "store",
                         ![t].certificate = [signers |-> list, weight |-> weight,
                                             total |-> TotalStake]]
         ELSE Return(t)
  /\ UNCHANGED <<graphVars, certVars, delivered>>

StoreCertificate(t) ==
  /\ At(t, "store")
  /\ certified' = [b \in DOMAIN certified \cup {call[t].batch} |->
                     IF b = call[t].batch THEN call[t].certificate ELSE certified[b]]
  /\ Goto(t, "link")
  /\ UNCHANGED <<graphVars, members, signatures, delivered>>

(* Mutant: the graph is not told. *)
LinkForgotten(t) ==
  /\ At(t, "link")
  /\ Return(t)
  /\ UNCHANGED <<graphVars, certVars, delivered>>

(* set_certificate under the graph's write lock; it fails when the batch    *)
(* has left the graph meanwhile, and the call returns that error.           *)
LinkCertificate(t) ==
  /\ At(t, "link")
  /\ IF Graph!ContainsBatch(call[t].batch)
     THEN Graph!SetCertificate(call[t].batch) /\ Goto(t, "unpend")
     ELSE Return(t) /\ UNCHANGED graphVars
  /\ UNCHANGED <<certVars, delivered>>

(* The last section, pending_signatures.remove, waits for the write lock of *)
(* the shard on which the same call holds its Ref until it returns: no step *)
(* leaves "unpend".                                                         *)

Step(t) ==
  \/ CheckCertified(t) \/ CheckValidator(t) \/ Push(t) \/ Tally(t)
  \/ StoreCertificate(t) \/ LinkCertificate(t)

(* The validator set's write lock needs it free of readers. *)
SetMembers(S) ==
  /\ \A t \in Threads : ~ReadsValidatorSet(t)
  /\ members' = S
  /\ UNCHANGED <<graphVars, signatures, certified, call, delivered>>

RemoveValidator(v) == v \in members /\ SetMembers(members \ {v})
AddValidator(v) == v \notin members /\ SetMembers(members \cup {v})

(* Other users of the graph, under its write lock. *)
InsertBatch(b) == Graph!AddBatch(b) /\ UNCHANGED <<certVars, call, delivered>>
AuthorBatch(b) == Graph!Author(b) /\ UNCHANGED <<certVars, call, delivered>>
ClearGraph == Graph!Clear /\ UNCHANGED <<certVars, call, delivered>>

Steady ==
  \/ \E t \in Threads, b \in Batches, v \in Validators : Call(t, b, v)
  \/ \E t \in Threads : Step(t)
  \/ \E b \in Batches : InsertBatch(b) \/ AuthorBatch(b)

Next ==
  \/ Steady
  \/ \E v \in Validators : RemoveValidator(v) \/ AddValidator(v)
  \/ ClearGraph

Spec == Init /\ [][Next]_vars

(* A fixed validator set and a graph that only grows; tokio keeps running   *)
(* every task that is not blocked.                                          *)
Fairness == \A t \in Threads : WF_vars(Step(t))
SteadySpec == Init /\ [][Steady]_vars /\ Fairness

-----------------------------------------------------------------------------
TypeOK ==
  /\ Graph!TypeOK
  /\ members \subseteq Validators
  /\ signatures \in [Batches -> Seq(Validators)]
  /\ DOMAIN certified \subseteq Batches
  /\ \A b \in DOMAIN certified : certified[b] \in Certificate
  /\ \A t \in Threads : call[t] = Idle \/ call[t].batch \in Batches
  /\ delivered \in [Batches -> [Validators -> 0..MaxDeliveries]]

DistinctWeight(list) == MapThenSumSet(LAMBDA v : Stake[v], ToSet(list))
Certified(b) == b \in DOMAIN certified
QuorumSigned(b) ==
  /\ signatures[b] # << >>
  /\ Quorum(DistinctWeight(signatures[b]), TotalStake)

(* Safety: distinct validators with more than two thirds of the stake of    *)
(* the moment stand behind every certificate, while validators join and     *)
(* leave between the steps of the calls that collect their signatures.      *)
(* "creation of certificates when 2/3+ stake weight is achieved".           *)
CertifiedByQuorum ==
  \A b \in DOMAIN certified :
    Quorum(DistinctWeight(certified[b].signers), certified[b].total)

(* Safety: the graph shows a batch as certified only if the certifier has   *)
(* its certificate.                                                         *)
GraphCertificatesBacked ==
  \A b \in Graph!Present : vertices[b].certified => b \in DOMAIN certified

(* Action property: calls that reach a quorum together, or again after a    *)
(* failed set_certificate, never replace a certificate by one with fewer    *)
(* signatures.                                                              *)
CertificatesGrow ==
  [][\A b \in DOMAIN certified :
       b \in DOMAIN certified' /\ IsPrefix(certified[b].signers, certified'[b].signers)]_vars

(* Safety, while the graph only grows: a stored certificate is in the graph *)
(* unless a call is about to put it there.                                  *)
CertificatesReachGraph ==
  \A b \in DOMAIN certified :
    vertices[b].certified \/ \E t \in Threads : At(t, "link") /\ call[t].batch = b

(* Liveness, while the validator set does not change: the call that brings  *)
(* the quorum notices it, however the calls interleave.                     *)
QuorumCertifies == \A b \in Batches : QuorumSigned(b) ~> Certified(b)

(* What the signature and the last section of add_signature ("Remove from   *)
(* pending") promise: every call returns.                                   *)
CallsReturn == \A t \in Threads : ~At(t, "idle") ~> At(t, "idle")

(* Safety: a certificate has a quorum of distinct signers behind it, and    *)
(* the graph shows no other batch as certified, while calls interleave,     *)
(* validators join and leave, and batches leave the graph and come back.    *)
CertificatesSound == TypeOK /\ CertifiedByQuorum /\ GraphCertificatesBacked
=============================================================================
