-------------------------- MODULE SnapshotManager ---------------------------
(***************************************************************************)
(* The snapshot manager of snapshot.rs: it creates the next snapshot,      *)
(* collects validator signatures for it, and finalizes it once its         *)
(* certificate holds more than two thirds of the stake.                    *)
(*                                                                         *)
(* All mutators take &mut self, so one call is one step; the environment   *)
(* decides which calls come, in which order, and delivers signatures late, *)
(* repeatedly or never.  A snapshot's digest is an identity that is fresh  *)
(* for each creation; a signature is the identity of what was signed.      *)
(* Calls that return an error or Ok(false) before they change anything are *)
(* stuttering steps.                                                       *)
(***************************************************************************)
EXTENDS Integers, FiniteSets, Functions

CONSTANTS
  Validators,   \* validators that may sign
  Stake,        \* validator -> stake_weight its signature is added with
  TotalStake,   \* total_stake the snapshots are created with
  MaxPending,   \* max_pending
  KeepCounts,   \* values prune_old_snapshots is called with
  MaxCreates    \* bound on the number of snapshots created

ASSUME ValidatorsAssumption == IsFiniteSet(Validators)
ASSUME StakeAssumption == Stake \in [Validators -> Nat] /\ TotalStake \in Nat
ASSUME BoundsAssumption == MaxPending \in Nat /\ KeepCounts \subseteq Nat /\ MaxCreates \in Nat

VARIABLES
  latest,       \* latest_sequence
  pending,      \* pending_snapshots: sequence -> snapshot with its certificate
  finalized,    \* finalized_snapshots
  created,      \* snapshots created so far: the newest digest
  sent          \* signatures validators have sent: [validator, seq, digest]

vars == <<latest, pending, finalized, created, sent>>

NoDigest == 0
Digests == 1..MaxCreates
Sequences == 1..MaxCreates
Pending == DOMAIN pending
Finalized == DOMAIN finalized

(* Snapshot, SnapshotCertificate and the deadline, in one record. *)
Snapshot ==
  [digest : Digests, prev : Digests \cup {NoDigest}, weight : Nat, quorum : BOOLEAN,
   signatures : UNION {[S -> Digests] : S \in SUBSET Validators}, timedOut : BOOLEAN]

Signers(s) == DOMAIN s.signatures

(* check_quorum *)
CheckQuorum(weight) == TotalStake # 0 /\ weight * 3 > TotalStake * 2

-----------------------------------------------------------------------------
Init ==
  /\ latest = 0
  /\ pending = << >>
  /\ finalized = << >>
  /\ created = 0
  /\ sent = {}

(* Mutant: looks one sequence number too far back. *)
PreviousDigestTooOld(seq) ==
  IF seq - 2 \in Finalized THEN finalized[seq - 2].digest ELSE NoDigest

PreviousDigest(seq) == IF seq - 1 \in Finalized THEN finalized[seq - 1].digest ELSE NoDigest

NewSnapshot(seq) ==
  [digest |-> created + 1, prev |-> PreviousDigest(seq), weight |-> 0,
   quorum |-> FALSE, signatures |-> << >>, timedOut |-> FALSE]

(* Mutant: forgets to go past the last finalized sequence number. *)
CreateSnapshotAgain ==
  /\ Cardinality(Pending) < MaxPending
  /\ created < MaxCreates
  /\ LET seq == IF latest = 0 THEN 1 ELSE latest
     IN  pending' = [s \in Pending \cup {seq} |->
                       IF s = seq THEN NewSnapshot(seq) ELSE pending[s]]
  /\ created' = created + 1
  /\ UNCHANGED <<latest, finalized, sent>>

(* create_snapshot: the next sequence number may be pending already, its    *)
(* entry is then replaced.                                                  *)
CreateSnapshot ==
  /\ Cardinality(Pending) < MaxPending
  /\ created < MaxCreates
  /\ LET seq == latest + 1
     IN  pending' = [s \in Pending \cup {seq} |->
                       IF s = seq THEN NewSnapshot(seq) ELSE pending[s]]
  /\ created' = created + 1
  /\ UNCHANGED <<latest, finalized, sent>>

(* A validator signs the snapshot it was shown and sends the signature.     *)
Sign(v, seq) ==
  /\ seq \in Pending
  /\ sent' = sent \cup {[validator |-> v, seq |-> seq, digest |-> pending[seq].digest]}
  /\ UNCHANGED <<latest, pending, finalized, created>>

(* SnapshotCertificate::add_signature, for a validator that has not signed. *)
WithSignature(s, v, digest) ==
  [s EXCEPT !.signatures = [x \in Signers(s) \cup {v} |->
                              IF x = v THEN digest ELSE s.signatures[x]],
            !.weight = @ + Stake[v],
            !.quorum = CheckQuorum(s.weight + Stake[v])]

(* Mutant: a repeated signature is added again. *)
AddSignatureAgain(m) ==
  /\ m.seq \in Pending
  /\ ~pending[m.seq].timedOut
  /\ Stake[m.validator] # 0
  /\ pending' = [pending EXCEPT ![m.seq] = WithSignature(pending[m.seq], m.validator, m.digest)]
  /\ UNCHANGED <<latest, finalized, created, sent>>

(* add_signature: found by sequence number; refused after the deadline,     *)
(* with zero stake, or when the validator already signed.                   *)
AddSignature(m) ==
  /\ m.seq \in Pending
  /\ ~pending[m.seq].timedOut
  /\ Stake[m.validator] # 0
  /\ m.validator \notin Signers(pending[m.seq])
  /\ pending' = [pending EXCEPT ![m.seq] = WithSignature(pending[m.seq], m.validator, m.digest)]
  /\ UNCHANGED <<latest, finalized, created, sent>>

(* finalize_snapshot: the entry leaves pending before the quorum check.     *)
FinalizeSnapshot(seq) ==
  /\ seq \in Pending
  /\ pending' = Restrict(pending, Pending \ {seq})
  /\ IF pending[seq].quorum
     THEN /\ finalized' = [s \in Finalized \cup {seq} |->
                             IF s = seq THEN pending[seq] ELSE finalized[s]]
          /\ latest' = seq
     ELSE UNCHANGED <<finalized, latest>>
  /\ UNCHANGED <<created, sent>>

(* The finalization timeout of a pending snapshot elapses.                  *)
Elapse(seq) ==
  /\ seq \in Pending
  /\ pending' = [pending EXCEPT ![seq].timedOut = TRUE]
  /\ UNCHANGED <<latest, finalized, created, sent>>

TimedOut == {seq \in Pending : pending[seq].timedOut}

ProcessTimeouts ==
  /\ pending' = Restrict(pending, Pending \ TimedOut)
  /\ UNCHANGED <<latest, finalized, created, sent>>

(* Mutant: the highest sequence numbers go. *)
Newest(keep) ==
  {s \in Finalized : Cardinality({t \in Finalized : t =< s}) > keep}

(* prune_old_snapshots: all but the keep highest sequence numbers go.       *)
Oldest(keep) ==
  {s \in Finalized : Cardinality({t \in Finalized : t >= s}) > keep}

PruneOldSnapshots(keep) ==
  /\ finalized' = Restrict(finalized, Finalized \ Oldest(keep))
  /\ UNCHANGED <<latest, pending, created, sent>>

Next ==
  \/ CreateSnapshot
  \/ \E v \in Validators, seq \in Pending : Sign(v, seq)
  \/ \E m \in sent : AddSignature(m)
  \/ \E seq \in Pending : FinalizeSnapshot(seq) \/ Elapse(seq)
  \/ ProcessTimeouts
  \/ \E keep \in KeepCounts : PruneOldSnapshots(keep)

Spec == Init /\ [][Next]_vars

-----------------------------------------------------------------------------
TypeOK ==
  /\ latest \in Nat
  /\ created \in 0..MaxCreates
  /\ latest =< created
  /\ Pending \subseteq 1..created /\ pending \in [Pending -> Snapshot]
  /\ Finalized \subseteq 1..created /\ finalized \in [Finalized -> Snapshot]
  /\ sent \subseteq [validator : Validators, seq : Sequences, digest : Digests]

(* Safety: only the successor of the last finalized snapshot is ever        *)
(* pending.  So finalize_snapshot, which takes any sequence number, cannot  *)
(* leave a gap or go back, and max_pending is never reached by the default. *)
PendingIsNext == Pending \subseteq {latest + 1}

(* Safety: a finalized certificate carries more than two thirds of the      *)
(* stake it was created for, and its flag says so.                          *)
CertificatesQuorate ==
  \A s \in Finalized : finalized[s].quorum /\ CheckQuorum(finalized[s].weight)

(* Safety: the weight of every certificate is the stake of its distinct     *)
(* signers, also when signatures are delivered twice or the snapshot was    *)
(* replaced; only then does the flag mean a quorum of validators.           *)
WeightIsSignersStake ==
  /\ \A s \in Pending : pending[s].weight = SumFunctionOnSet(Stake, Signers(pending[s]))
  /\ \A s \in Finalized : finalized[s].weight = SumFunctionOnSet(Stake, Signers(finalized[s]))

(* Safety: the retained snapshots are the last ones, without a gap, and     *)
(* each names the digest of its predecessor.                                *)
ChainLinked ==
  /\ \A s \in Finalized : s =< latest /\ s..latest \subseteq Finalized
  /\ \A s \in Finalized : s - 1 \in Finalized => finalized[s].prev = finalized[s - 1].digest

(* Action property: finalization is for ever.  The height never falls and a *)
(* retained snapshot never changes.                                         *)
FinalityStable ==
  [][/\ latest' >= latest
     /\ \A s \in Finalized \cap Finalized' : finalized'[s] = finalized[s]]_vars

(* The promise to readers of finalized snapshots: an append-only log.       *)
Log == INSTANCE FinalizedLog WITH
         height <- latest,
         log <- [s \in Finalized |-> [digest |-> finalized[s].digest, prev |-> finalized[s].prev]]

(* Refinement: every behaviour of the manager is one of the finalized log.  *)
ImplementsLog == Log!Spec

(* Safety: over creation, late signatures, timeouts and pruning in every    *)
(* order, only the successor of the last snapshot is pending, and the       *)
(* finalized ones are quorate and form an unbroken chain.                   *)
ManagerConsistent == TypeOK /\ PendingIsNext /\ CertificatesQuorate /\ ChainLinked
=============================================================================
