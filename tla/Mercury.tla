------------------------------ MODULE Mercury -------------------------------
(***************************************************************************)
(* The snapshot engine of mercury.rs: a creator task builds the next       *)
(* snapshot from the certified batches on every tick, and calls of         *)
(* add_snapshot_signature add validator signatures to a pending snapshot   *)
(* and finalize it at a quorum.  Both work on the same maps (DashMaps) and *)
(* the same height without a common lock, so a step runs from one access   *)
(* of shared state to the next.                                            *)
(*                                                                         *)
(* A digest is an identity, fresh for each snapshot (it covers the         *)
(* timestamp).  A signature is neither verified nor compared with the      *)
(* digest, so a call is only a validator and a sequence number.  A batch   *)
(* holds one transaction.  The engine takes its flow graph by value and    *)
(* certifies nothing in it, so the certified batches are a constant.       *)
(* Snapshot::has_quorum and store_snapshot are external.  A tick whose     *)
(* traversal fails or finds nothing changes nothing but metrics; so do     *)
(* calls that are refused.                                                 *)
(***************************************************************************)
EXTENDS Integers, FiniteSets, Sequences, SequencesExt

CONSTANTS
  Batches,        \* the certified batches of its flow graph, in consensus order
  Validators,
  Stake,          \* validator -> its stake
  Self,           \* validator_id, a validator unless the node is none
  Threads,        \* concurrent callers of add_snapshot_signature
  MaxTxs,         \* max_transactions_per_snapshot
  HashBytes,      \* length of a blake3 hash: 32 in the code
  DigestBytes,    \* length of a StateDigest: 64 in the code
  MaxCreates,     \* bound on the snapshots created
  MaxDeliveries   \* bound on the deliveries of a validator's signature of one snapshot

ASSUME BatchesAssumption == Batches \subseteq Int
ASSUME ValidatorsAssumption == IsFiniteSet(Validators)
ASSUME StakeAssumption == Stake \in [Validators -> Nat]
ASSUME BoundsAssumption ==
  /\ MaxTxs \in Nat \ {0} /\ HashBytes \in Nat /\ DigestBytes \in Nat
  /\ MaxCreates \in Nat /\ MaxDeliveries \in Nat

VARIABLES
  members,      \* validators in the validator set
  current,      \* current_snapshot
  pending,      \* pending_snapshots: sequence -> snapshot
  finalized,    \* finalized_snapshots
  stored,       \* the object store's snapshots
  created,      \* snapshots created so far: the newest digest
  creator,      \* the creator task
  call,         \* thread -> the add_snapshot_signature call it executes
  offered,      \* how many snapshots of a sequence number became pending
  received      \* how often a validator's signature was taken for a sequence

mapVars == <<current, pending, finalized, stored>>
vars == <<members, mapVars, created, creator, call, offered, received>>

NoDigest == 0
Digests == 1..MaxCreates
Sequence == 1..MaxCreates
Pending == DOMAIN pending
Finalized == DOMAIN finalized

Snapshot ==
  [digest : Digests, prev : Digests \cup {NoDigest}, batches : SUBSET Batches,
   signers : Seq(Validators), weight : Nat, total : Nat]

Ticking == [pc |-> "tick"]
Idle == [pc |-> "idle"]
At(t, pc) == call[t].pc = pc
Return(t) == call' = [call EXCEPT ![t] = Idle]
With(map, seq, s) == [x \in DOMAIN map \cup {seq} |-> IF x = seq THEN s ELSE map[x]]

(* get_validator, calculate_stake_weight, total_stake and has_quorum.       *)
StakeOf(v) == IF v \in members THEN Stake[v] ELSE 0
StakeWeight(list) == FoldLeft(LAMBDA sum, v : sum + StakeOf(v), 0, list)
TotalStake == MapThenSumSet(StakeOf, members)
HasQuorum(weight, total) == weight * 3 > total * 2

-----------------------------------------------------------------------------
Init ==
  /\ members = Validators
  /\ current = 0 /\ pending = << >> /\ finalized = << >> /\ stored = << >>
  /\ created = 0
  /\ creator = Ticking
  /\ call = [t \in Threads |-> Idle]
  /\ offered = [s \in Sequence |-> 0]
  /\ received = [s \in Sequence |-> [v \in Validators |-> 0]]

(* add_validator and remove_validator take &mut self, so no signature call  *)
(* is under way; the creator task has its own handles and may be anywhere.  *)
SetMembers(S) ==
  /\ \A t \in Threads : At(t, "idle")
  /\ members' = S
  /\ UNCHANGED <<mapVars, created, creator, call, offered, received>>

RemoveValidator(v) == v \in members /\ SetMembers(members \ {v})
AddValidator(v) == v \notin members /\ SetMembers(members \cup {v})

-----------------------------------------------------------------------------
(* create_snapshot_internal: the transactions of the certified batches, in  *)
(* consensus order, cut off at the limit.                                   *)
FirstBatches == {b \in Batches : Cardinality({a \in Batches : a < b}) < MaxTxs}

Traverse ==
  /\ creator.pc = "tick"
  /\ Batches # {} /\ created < MaxCreates
  /\ creator' = [pc |-> "execute", batches |-> FirstBatches]
  /\ UNCHANGED <<members, mapVars, created, call, offered, received>>

(* Executing the transactions, or signing the snapshot, may fail.           *)
CreationFails ==
  /\ creator.pc \in {"execute", "sign"}
  /\ creator' = Ticking
  /\ UNCHANGED <<members, mapVars, created, call, offered, received>>

(* compute_state_root copies the hash into a digest; the copy panics if the *)
(* lengths differ, which ends the creator task.                             *)
Execute ==
  /\ creator.pc = "execute"
  /\ creator' = IF HashBytes = DigestBytes THEN [creator EXCEPT !.pc = "number"]
                ELSE [pc |-> "panicked"]
  /\ UNCHANGED <<members, mapVars, created, call, offered, received>>

(* Reads the height. *)
Number ==
  /\ creator.pc = "number"
  /\ creator' = [pc |-> "previous", batches |-> creator.batches, seq |-> current + 1]
  /\ UNCHANGED <<members, mapVars, created, call, offered, received>>

(* Mutant: looks one sequence number too far back. *)
PreviousDigestTooOld(seq) ==
  IF seq - 2 \in Finalized THEN finalized[seq - 2].digest ELSE NoDigest

PreviousDigest(seq) == IF seq - 1 \in Finalized THEN finalized[seq - 1].digest ELSE NoDigest

ReadPrevious ==
  /\ creator.pc = "previous"
  /\ creator' = [pc |-> "sign", batches |-> creator.batches, seq |-> creator.seq,
                 prev |-> PreviousDigest(creator.seq)]
  /\ UNCHANGED <<members, mapVars, created, call, offered, received>>

OwnSignature == IF Self \in Validators THEN <<Self>> ELSE << >>

(* Signs, reads the own stake, builds the snapshot.                         *)
BuildSnapshot ==
  /\ creator.pc = "sign"
  /\ creator' =
       [pc |-> "decide", seq |-> creator.seq,
        snapshot |-> [digest |-> created + 1, prev |-> creator.prev, batches |-> creator.batches,
                      signers |-> OwnSignature, weight |-> StakeOf(Self), total |-> 0]]
  /\ created' = created + 1
  /\ UNCHANGED <<members, mapVars, call, offered, received>>

(* Mutant: two thirds are enough. *)
DecideAtLeast ==
  /\ creator.pc = "decide"
  /\ creator' = [creator EXCEPT !.snapshot.total = TotalStake,
                   !.pc = IF creator.snapshot.weight * 3 >= TotalStake * 2
                          THEN "finalize" ELSE "pend"]
  /\ UNCHANGED <<members, mapVars, created, call, offered, received>>

(* Reads the total stake: is the own signature a quorum?                    *)
Decide ==
  /\ creator.pc = "decide"
  /\ creator' = [creator EXCEPT !.snapshot.total = TotalStake,
                   !.pc = IF HasQuorum(creator.snapshot.weight, TotalStake)
                          THEN "finalize" ELSE "pend"]
  /\ UNCHANGED <<members, mapVars, created, call, offered, received>>

(* The snapshot is pending, in place of one of the same sequence number.    *)
Pend ==
  /\ creator.pc = "pend"
  /\ pending' = With(pending, creator.seq, creator.snapshot)
  /\ offered' = [offered EXCEPT ![creator.seq] = @ + 1]
  /\ creator' = Ticking
  /\ UNCHANGED <<members, current, finalized, stored, created, call, received>>

FinalizeOwn ==
  /\ creator.pc = "finalize"
  /\ finalized' = With(finalized, creator.seq, creator.snapshot)
  /\ creator' = [creator EXCEPT !.pc = "height"]
  /\ UNCHANGED <<members, current, pending, stored, created, call, offered, received>>

RaiseHeight ==
  /\ creator.pc = "height"
  /\ current' = creator.seq
  /\ creator' = [creator EXCEPT !.pc = "store"]
  /\ UNCHANGED <<members, pending, finalized, stored, created, call, offered, received>>

(* store_snapshot succeeds or returns an error; memory is not undone.       *)
Store ==
  /\ creator.pc = "store"
  /\ stored' \in {stored, With(stored, creator.seq, creator.snapshot)}
  /\ creator' = Ticking
  /\ UNCHANGED <<members, current, pending, finalized, created, call, offered, received>>

-----------------------------------------------------------------------------
(* A validator signs every snapshot that becomes pending, also one that     *)
(* replaces another of its number, and its signature is delivered up to     *)
(* MaxDeliveries times, early or late: the bound of the signature calls.    *)
InFlight(v, seq) ==
  {t \in Threads : At(t, "count") /\ call[t].validator = v /\ call[t].seq = seq}
MayArrive(v, seq) ==
  received[seq][v] + Cardinality(InFlight(v, seq)) < MaxDeliveries * offered[seq]

(* Mutant: finalized snapshots are not refused. *)
CallAnyway(t, v, seq) ==
  /\ At(t, "idle")
  /\ MayArrive(v, seq)
  /\ call' = [call EXCEPT ![t] = [pc |-> "count", validator |-> v, seq |-> seq]]
  /\ UNCHANGED <<members, mapVars, created, creator, offered, received>>

(* add_snapshot_signature of a snapshot that is not finalized.              *)
Call(t, v, seq) ==
  /\ At(t, "idle")
  /\ seq \notin Finalized
  /\ MayArrive(v, seq)
  /\ call' = [call EXCEPT ![t] = [pc |-> "count", validator |-> v, seq |-> seq]]
  /\ UNCHANGED <<members, mapVars, created, creator, offered, received>>

Signed(s, v) ==
  LET signers == Append(s.signers, v)
  IN  [s EXCEPT !.signers = signers, !.weight = StakeWeight(signers), !.total = TotalStake]

(* Clones the pending snapshot and works on the clone, under the read guard *)
(* of the validator set.  Refused without a pending snapshot or membership. *)
Count(t) ==
  /\ At(t, "count")
  /\ LET v == call[t].validator
         seq == call[t].seq
     IN  IF seq \in Pending /\ v \in members
         THEN LET s == Signed(pending[seq], v)
              IN  /\ call' = [call EXCEPT ![t] =
                        [pc |-> IF HasQuorum(s.weight, s.total) THEN "finalize" ELSE "update",
                         seq |-> seq, snapshot |-> s]]
                  /\ received' = [received EXCEPT ![seq][v] = @ + 1]
         ELSE Return(t) /\ UNCHANGED received
  /\ UNCHANGED <<members, mapVars, created, creator, offered>>

(* Without a quorum the clone replaces the pending snapshot.                *)
Update(t) ==
  /\ At(t, "update")
  /\ pending' = With(pending, call[t].seq, call[t].snapshot)
  /\ Return(t)
  /\ UNCHANGED <<members, current, finalized, stored, created, creator, offered, received>>

Finalize(t) ==
  /\ At(t, "finalize")
  /\ finalized' = With(finalized, call[t].seq, call[t].snapshot)
  /\ call' = [call EXCEPT ![t].pc = "remove"]
  /\ UNCHANGED <<members, current, pending, stored, created, creator, offered, received>>

RemovePending(t) ==
  /\ At(t, "remove")
  /\ pending' = Restrict(pending, Pending \ {call[t].seq})
  /\ call' = [call EXCEPT ![t].pc = "height"]
  /\ UNCHANGED <<members, current, finalized, stored, created, creator, offered, received>>

(* Mutant: the height is not updated. *)
SetNoHeight(t) ==
  /\ At(t, "height")
  /\ call' = [call EXCEPT ![t].pc = "store"]
  /\ UNCHANGED <<members, mapVars, created, creator, offered, received>>

SetHeight(t) ==
  /\ At(t, "height")
  /\ current' = call[t].seq
  /\ call' = [call EXCEPT ![t].pc = "store"]
  /\ UNCHANGED <<members, pending, finalized, stored, created, creator, offered, received>>

StoreFinalized(t) ==
  /\ At(t, "store")
  /\ stored' \in {stored, With(stored, call[t].seq, call[t].snapshot)}
  /\ Return(t)
  /\ UNCHANGED <<members, current, pending, finalized, created, creator, offered, received>>

-----------------------------------------------------------------------------
CreateSnapshot ==
  \/ Traverse \/ Execute \/ Number \/ ReadPrevious \/ BuildSnapshot \/ Decide
  \/ Pend \/ FinalizeOwn \/ RaiseHeight \/ Store

AddSignature(t) ==
  Count(t) \/ Update(t) \/ Finalize(t) \/ RemovePending(t) \/ SetHeight(t) \/ StoreFinalized(t)

(* Other nodes sign; this node's own signature does not come back to it.    *)
Steady ==
  \/ CreateSnapshot
  \/ \E t \in Threads, v \in Validators \ {Self}, seq \in Sequence : Call(t, v, seq)
  \/ \E t \in Threads : AddSignature(t)

Next ==
  \/ Steady
  \/ CreationFails
  \/ \E v \in Validators : RemoveValidator(v) \/ AddValidator(v)

Spec == Init /\ [][Next]_vars

(* A fixed validator set and creations that do not fail; tokio keeps        *)
(* ticking and polling the creator task.                                    *)
SteadySpec == Init /\ [][Steady]_vars /\ WF_vars(CreateSnapshot)

-----------------------------------------------------------------------------
CreatorRecord ==
  [pc : {"tick", "panicked"}]
    \cup [pc : {"execute", "number"}, batches : SUBSET Batches]
    \cup [pc : {"previous"}, batches : SUBSET Batches, seq : Nat]
    \cup [pc : {"sign"}, batches : SUBSET Batches, seq : Nat, prev : Digests \cup {NoDigest}]
    \cup [pc : {"decide", "pend", "finalize", "height", "store"}, seq : Nat, snapshot : Snapshot]

CallRecord ==
  [pc : {"idle"}]
    \cup [pc : {"count"}, validator : Validators, seq : Nat]
    \cup [pc : {"update", "finalize", "remove", "height", "store"},
          seq : Nat, snapshot : Snapshot]

TypeOK ==
  /\ members \subseteq Validators
  /\ current \in Nat
  /\ Pending \subseteq Nat /\ \A s \in Pending : pending[s] \in Snapshot
  /\ Finalized \subseteq Nat /\ \A s \in Finalized : finalized[s] \in Snapshot
  /\ DOMAIN stored \subseteq Nat /\ \A s \in DOMAIN stored : stored[s] \in Snapshot
  /\ created \in 0..MaxCreates
  /\ creator \in CreatorRecord
  /\ \A t \in Threads : call[t] \in CallRecord

(* Safety: whatever the creator and the signature calls do concurrently,    *)
(* the finalized sequence numbers have no gap and the height is one of      *)
(* them, although a call may set the height long after it finalized.        *)
NoGaps ==
  /\ current \in Finalized \cup {0}
  /\ \A s \in Finalized : s >= 1 /\ 1..s \subseteq Finalized

(* Safety: only the first snapshot starts a chain: the fallback to an       *)
(* all-zero previous digest is never taken for a later one.                 *)
PredecessorNamed ==
  /\ \A s \in Pending : pending[s].prev = NoDigest => s = 1
  /\ \A s \in Finalized : finalized[s].prev = NoDigest => s = 1

(* Safety that mercury.rs:1017 claims, "snapshots are only finalized when   *)
(* they have signatures from validators representing more than 2/3 of the   *)
(* total stake weight": the distinct signers of a finalized snapshot hold   *)
(* more than two thirds of the total stake of the moment it was weighed.    *)
(* It is not so: a validator can be among the signers twice.                *)
DistinctWeight(list) == MapThenSumSet(LAMBDA v : Stake[v], ToSet(list))
SignedByQuorum(s) == HasQuorum(DistinctWeight(s.signers), s.total)
FinalizedByQuorum == \A s \in Finalized : SignedByQuorum(finalized[s])

(* Safety: this is the only way to miss the quorum.  A finalized snapshot   *)
(* that names no signer twice has it, while validators leave and join, sign *)
(* replaced snapshots anew, and calls overwrite one another's pending       *)
(* snapshots; and it names a validator twice only if two of its signatures  *)
(* were counted for this number, never because calls overlapped.            *)
QuorumUnlessRepeated ==
  \A n \in Finalized :
    /\ IsInjective(finalized[n].signers) => SignedByQuorum(finalized[n])
    /\ \A i, j \in DOMAIN finalized[n].signers :
         LET v == finalized[n].signers[i]
         IN  i # j /\ v = finalized[n].signers[j] => v # Self /\ received[n][v] >= 2

(* Safety, when signature calls come one at a time: the store never holds   *)
(* another snapshot than memory for a sequence number.                      *)
StoredAsFinalized == \A s \in DOMAIN stored : s \in Finalized /\ stored[s] = finalized[s]

(* Action property, when signature calls come one at a time: a finalized    *)
(* snapshot never changes and the height never falls.                       *)
FinalityStable ==
  [][/\ current' >= current
     /\ \A s \in Finalized : s \in Finalized' /\ finalized'[s] = finalized[s]]_vars

(* The abstract log of finalized snapshots.                                 *)
Log == INSTANCE FinalizedLog WITH
         height <- Cardinality(Finalized),
         log <- [s \in Finalized |-> [digest |-> finalized[s].digest, prev |-> finalized[s].prev]]

(* Refinement: with calls one at a time, the engine is an append-only log.  *)
ImplementsLog == Log!Spec

(* What get_latest_snapshot returns, finalized[current], is documented as   *)
(* "the latest finalized snapshot": when no call is under way, no finalized *)
(* snapshot is newer.                                                       *)
AtRest == creator.pc \in {"tick", "panicked"} /\ \A t \in Threads : At(t, "idle")
LatestIsNewest == AtRest => \A s \in Finalized : s =< current

(* "Achieve 480ms snapshot interval": with certified batches in the graph,  *)
(* a snapshot appears.                                                      *)
SnapshotsAppear == Batches # {} => <>(Pending \cup Finalized # {})

(* Safety: the numbers of finalized snapshots have no gap and only the      *)
(* first starts a chain, although the creator and the calls read the        *)
(* height, the previous digest and the pending snapshot at different times. *)
NumberingExact == NoGaps /\ PredecessorNamed

(* Safety: what is finalized is well formed and has a quorum of distinct    *)
(* signers, unless two signatures of one were counted for its number.       *)
FinalizedSoundly == TypeOK /\ QuorumUnlessRepeated

(* Safety, when signature calls come one at a time: memory, store and       *)
(* height agree on what is finalized and what is the latest.                *)
StoreAndHeightAgree == StoredAsFinalized /\ LatestIsNewest
=============================================================================
