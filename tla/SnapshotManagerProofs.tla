----------------------- MODULE SnapshotManagerProofs ------------------------
(***************************************************************************)
(* Proofs about the snapshot manager for every validator set, stake and    *)
(* bound: its types, that only the next sequence number is pending, that   *)
(* finalized certificates are quorate, that weights are the stake of the   *)
(* distinct signers, that the chain is linked, and that the manager        *)
(* implements the append-only log of FinalizedLog.                         *)
(***************************************************************************)
EXTENDS SnapshotManager, Sums, TLAPS

(* The quorum flag of a pending certificate is never set without quorum, so *)
(* finalize_snapshot may trust it.                                          *)
FlagMeansQuorum == \A s \in Pending : pending[s].quorum => CheckQuorum(pending[s].weight)

(* A pending snapshot names its predecessor while that one is retained.     *)
PendingLinked ==
  \A s \in Pending : s - 1 \in Finalized => pending[s].prev = finalized[s - 1].digest

(* The inductive invariant: certificates and links are right when finalized *)
(* only because they are right while pending.                               *)
ManagerInv ==
  /\ TypeOK
  /\ PendingIsNext
  /\ FlagMeansQuorum
  /\ PendingLinked
  /\ CertificatesQuorate
  /\ ChainLinked

(* The new manager satisfies it. *)
LEMMA InitManagerInv == Init => ManagerInv
  BY BoundsAssumption
  DEF Init, ManagerInv, TypeOK, PendingIsNext, FlagMeansQuorum, PendingLinked,
      CertificatesQuorate, ChainLinked, Pending, Finalized

(* A signature leaves the contents alone and sets the flag by the new       *)
(* weight.                                                                  *)
LEMMA SignatureFacts ==
  ASSUME NEW s \in Snapshot, NEW v \in Validators, NEW d \in Digests
  PROVE  /\ WithSignature(s, v, d) \in Snapshot
         /\ WithSignature(s, v, d).prev = s.prev
         /\ WithSignature(s, v, d).digest = s.digest
         /\ WithSignature(s, v, d).quorum => CheckQuorum(WithSignature(s, v, d).weight)
  <1> DEFINE sigs == [x \in Signers(s) \cup {v} |-> IF x = v THEN d ELSE s.signatures[x]]
  <1>1. Stake[v] \in Nat /\ s.weight \in Nat
    BY StakeAssumption DEF Snapshot
  <1>2. PICK S \in SUBSET Validators : s.signatures \in [S -> Digests]
    BY DEF Snapshot
  <1>3. Signers(s) = S
    BY <1>2 DEF Signers
  <1>4. sigs \in [Signers(s) \cup {v} -> Digests] /\ Signers(s) \cup {v} \in SUBSET Validators
    BY <1>2, <1>3
  <1>5. CheckQuorum(s.weight + Stake[v]) \in BOOLEAN
    BY DEF CheckQuorum
  <1>6. WithSignature(s, v, d) =
          [digest |-> s.digest, prev |-> s.prev, weight |-> s.weight + Stake[v],
           quorum |-> CheckQuorum(s.weight + Stake[v]), signatures |-> sigs,
           timedOut |-> s.timedOut]
    <2>1. s = [digest |-> s.digest, prev |-> s.prev, weight |-> s.weight,
               quorum |-> s.quorum, signatures |-> s.signatures, timedOut |-> s.timedOut]
      BY DEF Snapshot
    <2> HIDE DEF sigs
    <2>2. WithSignature(s, v, d) =
            [s EXCEPT !.signatures = sigs, !.weight = s.weight + Stake[v],
                      !.quorum = CheckQuorum(s.weight + Stake[v])]
      BY DEF WithSignature, sigs
    <2> QED
      BY <2>1, <2>2
  <1>7. sigs \in UNION {[T -> Digests] : T \in SUBSET Validators}
    BY <1>4
  <1> HIDE DEF sigs
  <1>8. WithSignature(s, v, d) \in Snapshot
    BY <1>1, <1>5, <1>6, <1>7 DEF Snapshot
  <1>9. WithSignature(s, v, d).quorum => CheckQuorum(WithSignature(s, v, d).weight)
    BY <1>6
  <1> QED
    BY <1>6, <1>8, <1>9

(* The step lemmas: one per operation. *)
LEMMA CreateStep ==
  ASSUME ManagerInv, CreateSnapshot
  PROVE  ManagerInv'
  <1> USE DEF ManagerInv
  <1> DEFINE seq == latest + 1
  <1>1. /\ created < MaxCreates /\ created' = created + 1
        /\ pending' = [s \in Pending \cup {seq} |->
                         IF s = seq THEN NewSnapshot(seq) ELSE pending[s]]
        /\ UNCHANGED <<latest, finalized, sent>>
    BY DEF CreateSnapshot
  <1>2. latest \in Nat /\ created \in Nat /\ latest =< created /\ seq \in Sequences
    BY <1>1, BoundsAssumption DEF TypeOK, Sequences
  <1>3. Pending' = {seq} /\ pending'[seq] = NewSnapshot(seq) /\ Finalized' = Finalized
    BY <1>1, <1>2 DEF PendingIsNext, Pending, Finalized
  <1>4. NewSnapshot(seq) \in Snapshot
    <2>1. << >> \in [{} -> Digests] /\ {} \in SUBSET Validators
      OBVIOUS
    <2>2. PreviousDigest(seq) \in Digests \cup {NoDigest}
      BY DEF PreviousDigest, TypeOK, Snapshot
    <2>3. created + 1 \in Digests
      BY <1>1, <1>2, BoundsAssumption DEF Digests
    <2>4. << >> \in UNION {[T -> Digests] : T \in SUBSET Validators}
      BY <2>1
    <2> QED
      BY <2>2, <2>3, <2>4 DEF NewSnapshot, Snapshot
  <1>5. NewSnapshot(seq).quorum = FALSE /\ NewSnapshot(seq).prev = PreviousDigest(seq)
    BY DEF NewSnapshot
  <1>6. TypeOK'
    <2>1. pending' \in [Pending' -> Snapshot]
      BY <1>1, <1>3, <1>4 DEF Pending
    <2>2. created' \in 0..MaxCreates /\ latest' =< created'
      BY <1>1, <1>2, BoundsAssumption
    <2>3. Finalized' \subseteq 1..created' /\ Pending' \subseteq 1..created'
      BY <1>1, <1>2, <1>3 DEF TypeOK
    <2> QED
      BY <1>1, <1>2, <1>3, <2>1, <2>2, <2>3 DEF TypeOK
  <1>7. PendingIsNext'
    BY <1>1, <1>3 DEF PendingIsNext
  <1>8. FlagMeansQuorum'
    BY <1>3, <1>5 DEF FlagMeansQuorum
  <1>9. PendingLinked'
    BY <1>1, <1>3, <1>5 DEF PendingLinked, PreviousDigest
  <1>10. CertificatesQuorate' /\ ChainLinked'
    BY <1>1, <1>3 DEF CertificatesQuorate, ChainLinked
  <1> QED
    BY <1>6, <1>7, <1>8, <1>9, <1>10

(* A signature that is sent changes no map. *)
LEMMA SignStep ==
  ASSUME ManagerInv, NEW v \in Validators, NEW seq \in Pending, Sign(v, seq)
  PROVE  ManagerInv'
  <1> USE DEF ManagerInv
  <1>1. /\ sent' = sent \cup {[validator |-> v, seq |-> seq, digest |-> pending[seq].digest]}
        /\ UNCHANGED <<latest, pending, finalized, created>>
    BY DEF Sign
  <1>2. pending[seq].digest \in Digests /\ seq \in Sequences
    <2>1. pending[seq] \in Snapshot /\ seq \in 1..created /\ created \in 0..MaxCreates
      BY DEF TypeOK
    <2> QED
      BY <2>1, BoundsAssumption DEF Snapshot, Sequences
  <1>3. Pending' = Pending /\ Finalized' = Finalized
    BY <1>1 DEF Pending, Finalized
  <1>4. TypeOK'
    BY <1>1, <1>2, <1>3 DEF TypeOK
  <1> QED
    BY <1>1, <1>3, <1>4 DEF PendingIsNext, FlagMeansQuorum, PendingLinked,
       CertificatesQuorate, ChainLinked

(* A call that rewrites one pending entry, keeping its contents. *)
LEMMA PendingUpdateStep ==
  ASSUME ManagerInv, NEW seq \in Pending, NEW s \in Snapshot,
         pending' = [pending EXCEPT ![seq] = s],
         s.prev = pending[seq].prev, s.quorum => CheckQuorum(s.weight),
         UNCHANGED <<latest, finalized, created, sent>>
  PROVE  ManagerInv'
  <1> USE DEF ManagerInv
  <1>1. Pending' = Pending /\ Finalized' = Finalized
    BY DEF Pending, Finalized
  <1>2. \A t \in Pending : pending'[t] = IF t = seq THEN s ELSE pending[t]
    BY DEF TypeOK
  <1>3. pending' \in [Pending' -> Snapshot]
    BY <1>1 DEF TypeOK
  <1>4. TypeOK'
    BY <1>1, <1>3 DEF TypeOK
  <1>5. FlagMeansQuorum'
    BY <1>1, <1>2 DEF FlagMeansQuorum
  <1>6. PendingLinked'
    BY <1>1, <1>2 DEF PendingLinked
  <1> QED
    BY <1>1, <1>4, <1>5, <1>6 DEF PendingIsNext, CertificatesQuorate, ChainLinked

(* add_signature. *)
LEMMA AddSignatureStep ==
  ASSUME ManagerInv, NEW m \in sent, AddSignature(m)
  PROVE  ManagerInv'
  <1> USE DEF ManagerInv
  <1>1. /\ m.seq \in Pending /\ m.validator \in Validators /\ m.digest \in Digests
        /\ pending[m.seq] \in Snapshot
    BY DEF AddSignature, TypeOK
  <1> DEFINE s == WithSignature(pending[m.seq], m.validator, m.digest)
  <1>2. /\ s \in Snapshot /\ s.prev = pending[m.seq].prev
        /\ s.quorum => CheckQuorum(s.weight)
    BY <1>1, SignatureFacts
  <1>3. /\ pending' = [pending EXCEPT ![m.seq] = s]
        /\ UNCHANGED <<latest, finalized, created, sent>>
    BY DEF AddSignature
  <1> HIDE DEF s
  <1> QED
    BY <1>1, <1>2, <1>3, PendingUpdateStep

(* A deadline that passes. *)
LEMMA ElapseStep ==
  ASSUME ManagerInv, NEW seq \in Pending, Elapse(seq)
  PROVE  ManagerInv'
  <1> USE DEF ManagerInv
  <1> DEFINE s == [pending[seq] EXCEPT !.timedOut = TRUE]
  <1>1. pending[seq] \in Snapshot
    BY DEF TypeOK
  <1>2. /\ s \in Snapshot /\ s.prev = pending[seq].prev
        /\ s.quorum = pending[seq].quorum /\ s.weight = pending[seq].weight
    BY <1>1 DEF Snapshot
  <1>3. s.quorum => CheckQuorum(s.weight)
    BY <1>2 DEF FlagMeansQuorum
  <1>4. /\ pending' = [pending EXCEPT ![seq] = s]
        /\ UNCHANGED <<latest, finalized, created, sent>>
    BY DEF Elapse
  <1> HIDE DEF s
  <1> QED
    BY <1>2, <1>3, <1>4, PendingUpdateStep

(* Finalization, with and without quorum. *)
LEMMA FinalizeStep ==
  ASSUME ManagerInv, NEW seq \in Pending, FinalizeSnapshot(seq)
  PROVE  ManagerInv'
  <1> USE DEF ManagerInv
  <1>1. /\ pending' = [s \in Pending \ {seq} |-> pending[s]]
        /\ UNCHANGED <<created, sent>>
    BY DEF FinalizeSnapshot, Restrict
  <1>2. latest \in Nat /\ seq = latest + 1 /\ Pending = {seq} /\ pending[seq] \in Snapshot
    BY DEF PendingIsNext, TypeOK
  <1>3. Pending' = {} /\ pending' \in [Pending' -> Snapshot]
    BY <1>1, <1>2 DEF Pending
  <1>4. PendingIsNext' /\ FlagMeansQuorum' /\ PendingLinked'
    BY <1>3 DEF PendingIsNext, FlagMeansQuorum, PendingLinked
  <1>5. CASE ~pending[seq].quorum
    <2>1. UNCHANGED <<finalized, latest>> /\ Finalized' = Finalized
      BY <1>5 DEF FinalizeSnapshot, Finalized
    <2> QED
      BY <1>1, <1>3, <1>4, <2>1 DEF TypeOK, CertificatesQuorate, ChainLinked
  <1>6. CASE pending[seq].quorum
    <2>1. /\ finalized' = [s \in Finalized \cup {seq} |->
                             IF s = seq THEN pending[seq] ELSE finalized[s]]
          /\ latest' = seq
      BY <1>6 DEF FinalizeSnapshot
    <2>2. Finalized' = Finalized \cup {seq} /\ seq \notin Finalized
      BY <1>2, <2>1 DEF Finalized, ChainLinked
    <2>3. finalized'[seq] = pending[seq] /\ \A s \in Finalized : finalized'[s] = finalized[s]
      BY <2>1, <2>2
    <2>4. seq =< created
      BY DEF TypeOK
    <2>5. TypeOK'
      <3>2. finalized' \in [Finalized' -> Snapshot]
        BY <1>2, <2>1, <2>2, <2>3 DEF TypeOK
      <3> QED
        BY <1>1, <1>2, <1>3, <2>1, <2>2, <2>4, <3>2 DEF TypeOK
    <2>6. CertificatesQuorate'
      BY <1>6, <2>2, <2>3 DEF CertificatesQuorate, FlagMeansQuorum
    <2>7. ChainLinked'
      BY <1>2, <2>1, <2>2, <2>3 DEF ChainLinked, PendingLinked, TypeOK
    <2> QED
      BY <1>4, <2>5, <2>6, <2>7
  <1> QED
    BY <1>5, <1>6

(* process_timeouts. *)
LEMMA TimeoutStep ==
  ASSUME ManagerInv, ProcessTimeouts
  PROVE  ManagerInv'
  <1> USE DEF ManagerInv
  <1>1. /\ pending' = [s \in Pending \ TimedOut |-> pending[s]]
        /\ UNCHANGED <<latest, finalized, created, sent>>
    BY DEF ProcessTimeouts, Restrict
  <1>2. /\ Pending' = Pending \ TimedOut /\ Finalized' = Finalized
        /\ \A s \in Pending' : pending'[s] = pending[s]
    BY <1>1 DEF Pending, Finalized
  <1>3. TypeOK'
    BY <1>1, <1>2 DEF TypeOK
  <1> QED
    BY <1>1, <1>2, <1>3 DEF PendingIsNext, FlagMeansQuorum, PendingLinked,
       CertificatesQuorate, ChainLinked

(* Pruning removes the low end: whatever is older than a removed snapshot   *)
(* is removed with it.                                                      *)
LEMMA OldestIsLowEnd ==
  ASSUME ManagerInv, NEW keep \in Nat, NEW s \in Oldest(keep), NEW t \in Finalized,
         t =< s
  PROVE  t \in Oldest(keep)
  <1> USE DEF ManagerInv
  <1> DEFINE Above(x) == {u \in Finalized : u >= x}
  <1>1. created \in Nat /\ Finalized \subseteq 1..created
    BY BoundsAssumption DEF TypeOK
  <1>2. IsFiniteSet(Finalized)
    <2>1. IsFiniteSet(1..created)
      BY <1>1, FS_Interval
    <2> QED
      BY <1>1, <2>1, FS_Subset
  <1>3. Above(s) \subseteq Above(t)
    <2>1. s \in Finalized
      BY DEF Oldest
    <2>2. s \in Int /\ t \in Int /\ Finalized \subseteq Int
      BY <1>1, <2>1
    <2>3. ASSUME NEW u \in Finalized, u >= s
          PROVE  u >= t
      <3>1. u \in Int
        BY <2>2
      <3> QED
        BY <2>2, <2>3, <3>1
    <2> QED
      BY <2>3
  <1>4. IsFiniteSet(Above(t)) /\ IsFiniteSet(Above(s))
    BY <1>2, FS_Subset
  <1>5. Cardinality(Above(s)) =< Cardinality(Above(t))
    BY <1>3, <1>4, FS_Subset
  <1>6. Cardinality(Above(s)) \in Nat /\ Cardinality(Above(t)) \in Nat
    BY <1>4, FS_CardinalityType
  <1>7. Cardinality(Above(s)) > keep
    BY DEF Oldest
  <1>8. Cardinality(Above(t)) > keep
    BY <1>5, <1>6, <1>7
  <1> QED
    BY <1>8 DEF Oldest

(* prune_old_snapshots. *)
LEMMA PruneStep ==
  ASSUME ManagerInv, NEW keep \in Nat, PruneOldSnapshots(keep)
  PROVE  ManagerInv'
  <1> USE DEF ManagerInv
  <1>1. /\ finalized' = [s \in Finalized \ Oldest(keep) |-> finalized[s]]
        /\ UNCHANGED <<latest, pending, created, sent>>
    BY DEF PruneOldSnapshots, Restrict
  <1>2. /\ Finalized' = Finalized \ Oldest(keep) /\ Pending' = Pending
        /\ \A s \in Finalized' : finalized'[s] = finalized[s]
    BY <1>1 DEF Pending, Finalized
  <1>3. TypeOK'
    BY <1>1, <1>2 DEF TypeOK
  <1>4. ASSUME NEW s \in Finalized'
        PROVE  s =< latest /\ s..latest \subseteq Finalized'
    <2>1. s \in Finalized /\ s \notin Oldest(keep)
      BY <1>2
    <2>2. s =< latest /\ s..latest \subseteq Finalized /\ s \in Nat
      BY <2>1 DEF ChainLinked, TypeOK
    <2>3. ASSUME NEW u \in s..latest
          PROVE  u \notin Oldest(keep)
      BY <2>1, <2>2, <2>3, OldestIsLowEnd
    <2> QED
      BY <1>2, <2>2, <2>3
  <1>5. ChainLinked'
    BY <1>1, <1>2, <1>4 DEF ChainLinked
  <1> QED
    BY <1>1, <1>2, <1>3, <1>5 DEF PendingIsNext, FlagMeansQuorum, PendingLinked,
       CertificatesQuorate

(* Every call keeps it. *)
LEMMA ManagerStep == ManagerInv /\ [Next]_vars => ManagerInv'
  <1> SUFFICES ASSUME ManagerInv, [Next]_vars
               PROVE  ManagerInv'
    OBVIOUS
  <1>1. CASE CreateSnapshot
    BY <1>1, CreateStep
  <1>2. CASE \E v \in Validators, seq \in Pending : Sign(v, seq)
    BY <1>2, SignStep
  <1>3. CASE \E m \in sent : AddSignature(m)
    BY <1>3, AddSignatureStep
  <1>4. CASE \E seq \in Pending : FinalizeSnapshot(seq) \/ Elapse(seq)
    BY <1>4, FinalizeStep, ElapseStep
  <1>5. CASE ProcessTimeouts
    BY <1>5, TimeoutStep
  <1>6. CASE \E keep \in KeepCounts : PruneOldSnapshots(keep)
    BY <1>6, PruneStep, BoundsAssumption
  <1>7. CASE UNCHANGED vars
    BY <1>7 DEF vars, ManagerInv, TypeOK, PendingIsNext, FlagMeansQuorum, PendingLinked,
       CertificatesQuorate, ChainLinked, Pending, Finalized
  <1> QED
    BY <1>1, <1>2, <1>3, <1>4, <1>5, <1>6, <1>7 DEF Next

(* Safety: in every behaviour of snapshot.rs only the next sequence number  *)
(* is pending, finalized certificates hold more than two thirds of the      *)
(* stake, and the retained snapshots form a linked chain without a gap.     *)
THEOREM ManagerCorrect == Spec => []ManagerConsistent
  <1>1. ManagerInv => ManagerConsistent
    BY DEF ManagerInv, ManagerConsistent
  <1> QED
    BY InitManagerInv, ManagerStep, <1>1, PTL DEF Spec

(* Action property: no call lowers the height or changes a finalized        *)
(* snapshot, because a sequence number is finalized only while it is next.  *)
THEOREM FinalityIsStable == Spec => FinalityStable
  <1>1. ASSUME ManagerInv, [Next]_vars
        PROVE  /\ latest' >= latest
               /\ \A s \in Finalized \cap Finalized' : finalized'[s] = finalized[s]
    <2> USE DEF ManagerInv
    <2>1. ASSUME NEW seq \in Pending, FinalizeSnapshot(seq)
          PROVE  /\ latest' >= latest
                 /\ \A s \in Finalized \cap Finalized' : finalized'[s] = finalized[s]
      <3>1. latest \in Nat /\ seq = latest + 1 /\ seq \notin Finalized
        BY <1>1 DEF PendingIsNext, TypeOK, ChainLinked
      <3> QED
        BY <2>1, <3>1 DEF FinalizeSnapshot
    <2>2. ASSUME UNCHANGED <<latest, finalized>>
          PROVE  /\ latest' >= latest
                 /\ \A s \in Finalized \cap Finalized' : finalized'[s] = finalized[s]
      BY <1>1, <2>2 DEF TypeOK, Finalized
    <2>3. ASSUME NEW keep \in KeepCounts, PruneOldSnapshots(keep)
          PROVE  /\ latest' >= latest
                 /\ \A s \in Finalized \cap Finalized' : finalized'[s] = finalized[s]
      BY <1>1, <2>3 DEF PruneOldSnapshots, Restrict, Finalized, TypeOK
    <2> QED
      BY <1>1, <2>1, <2>2, <2>3
      DEF Next, vars, CreateSnapshot, Sign, AddSignature, Elapse, ProcessTimeouts
  <1>2. ManagerInv /\ [Next]_vars =>
          [/\ latest' >= latest
           /\ \A s \in Finalized \cap Finalized' : finalized'[s] = finalized[s]]_vars
    BY <1>1
  <1> QED
    BY InitManagerInv, ManagerStep, <1>2, PTL DEF Spec, FinalityStable

(* Refinement: the manager keeps an append-only log.  Finalizing appends    *)
(* the next entry, pruning forgets the oldest, all other calls are          *)
(* invisible to a reader of finalized snapshots.                            *)
LEMMA FinalizeAppends ==
  ASSUME ManagerInv, NEW seq \in Pending, FinalizeSnapshot(seq)
  PROVE  [Log!Next]_(Log!logVars)
  <1> USE DEF ManagerInv
  <1> DEFINE Entry(r) == [digest |-> r.digest, prev |-> r.prev]
             s0 == pending[seq]
  <1>1. latest \in Nat /\ seq = latest + 1 /\ s0 \in Snapshot /\ seq \notin Finalized
    BY DEF PendingIsNext, TypeOK, ChainLinked
  <1>2. CASE ~s0.quorum
    BY <1>2 DEF FinalizeSnapshot, Log!logVars, Finalized
  <1>3. CASE s0.quorum
    <2>1. /\ finalized' = [s \in Finalized \cup {seq} |-> IF s = seq THEN s0 ELSE finalized[s]]
          /\ latest' = seq
      BY <1>3 DEF FinalizeSnapshot
    <2>2. Finalized' = Finalized \cup {seq}
      BY <2>1 DEF Finalized
    <2>3. s0.digest \in Digests /\ s0.prev \in Digests \cup {NoDigest}
      BY <1>1 DEF Snapshot
    <2>4. s0.prev \in Log!Previous
      BY <1>1, <2>3 DEF Log!Previous, PendingLinked
    <2>5. [s \in Finalized' |-> Entry(finalized'[s])] =
            [s \in Finalized \cup {latest + 1} |->
               IF s = latest + 1 THEN Entry(s0) ELSE Entry(finalized[s])]
      BY <1>1, <2>1, <2>2
    <2>6. PICK d \in Digests, p \in Digests \cup {NoDigest} : d = s0.digest /\ p = s0.prev
      BY <2>3
    <2>7. Log!Append(d, p)
      BY <1>1, <2>1, <2>4, <2>5, <2>6 DEF Log!Append
    <2>8. Log!Next
      BY <2>6, <2>7 DEF Log!Next
    <2> QED
      BY <2>8
  <1> QED
    BY <1>2, <1>3

(* Pruning is a Forget step of the log. *)
LEMMA PruneForgets ==
  ASSUME ManagerInv, NEW keep \in Nat, PruneOldSnapshots(keep)
  PROVE  [Log!Next]_(Log!logVars)
  <1> USE DEF ManagerInv
  <1> DEFINE log == [s \in Finalized |-> [digest |-> finalized[s].digest, prev |-> finalized[s].prev]]
  <1>1. /\ finalized' = [s \in Finalized \ Oldest(keep) |-> finalized[s]]
        /\ Finalized' = Finalized \ Oldest(keep)
        /\ latest' = latest
    BY DEF PruneOldSnapshots, Restrict, Finalized
  <1>2. Finalized \subseteq Int
    BY DEF TypeOK
  <1>3. \A s \in Oldest(keep), t \in Finalized \ Oldest(keep) : s < t
    BY <1>2, OldestIsLowEnd DEF Oldest
  <1>4. PICK S \in SUBSET Finalized : S = Oldest(keep)
    BY DEF Oldest
  <1>5. DOMAIN log = Finalized
    OBVIOUS
  <1>6. log' = Log!Restrict(log, DOMAIN log \ S)
    BY <1>1, <1>4, <1>5 DEF Log!Restrict
  <1>7. Log!Forget(S)
    BY <1>1, <1>3, <1>4, <1>5, <1>6 DEF Log!Forget
  <1>8. Log!Next
    BY <1>5, <1>7 DEF Log!Next
  <1> QED
    BY <1>8

(* Refinement: the snapshot manager is an append-only log of finalized snapshots. *)
THEOREM ManagerImplementsLog == Spec => ImplementsLog
  <1>1. Init => Log!Init
    BY DEF Init, Log!Init, Finalized
  <1>2. ManagerInv /\ [Next]_vars => [Log!Next]_(Log!logVars)
    <2> SUFFICES ASSUME ManagerInv, [Next]_vars
                 PROVE  [Log!Next]_(Log!logVars)
      OBVIOUS
    <2>1. ASSUME UNCHANGED <<latest, finalized>>
          PROVE  [Log!Next]_(Log!logVars)
      BY <2>1 DEF Log!logVars, Finalized
    <2>2. CASE \E seq \in Pending : FinalizeSnapshot(seq)
      BY <2>2, FinalizeAppends
    <2>3. CASE \E keep \in KeepCounts : PruneOldSnapshots(keep)
      BY <2>3, PruneForgets, BoundsAssumption
    <2> QED
      BY <2>1, <2>2, <2>3
      DEF Next, vars, CreateSnapshot, Sign, AddSignature, Elapse, ProcessTimeouts
  <1> QED
    BY InitManagerInv, ManagerStep, <1>1, <1>2, PTL DEF Spec, ImplementsLog, Log!Spec

-----------------------------------------------------------------------------
(***************************************************************************)
(* The weight of a certificate is the stake of its signers, each counted   *)
(* once: a signature adds its stake only when its validator has not signed *)
(* before.                                                                 *)
(***************************************************************************)
WeighedRight(s) == s.weight = SumFunctionOnSet(Stake, Signers(s))

WeightInv == ManagerInv /\ WeightIsSignersStake

LEMMA SignersTotal ==
  ASSUME NEW S
  PROVE  SumFunctionOnSet(Stake, S) = Total(Stake, S)
  BY DEF SumFunctionOnSet, FoldFunctionOnSet, Total, MapThenSumSet

(* What add_signature does to weight and signers. *)
LEMMA SignatureWeighed ==
  ASSUME NEW s \in Snapshot, NEW v \in Validators, NEW d \in Digests, v \notin Signers(s),
         WeighedRight(s)
  PROVE  WeighedRight(WithSignature(s, v, d))
  <1> DEFINE t == WithSignature(s, v, d)
  <1>1. Signers(s) \in SUBSET Validators
    BY DEF Snapshot, Signers
  <1>2. t.weight = s.weight + Stake[v] /\ Signers(t) = Signers(s) \cup {v}
    BY DEF WithSignature, Snapshot, Signers
  <1>3. IsFiniteSet(Signers(s))
    BY <1>1, ValidatorsAssumption, FS_Subset
  <1>4. IntOn(Stake, Signers(s) \cup {v}) /\ IntOn(Stake, Signers(s)) /\ Stake[v] \in Int
    BY <1>1, StakeAssumption DEF IntOn
  <1> HIDE DEF t
  <1>5. Total(Stake, Signers(s) \cup {v}) = Stake[v] + Total(Stake, Signers(s))
    BY <1>3, <1>4, TotalAdd
  <1>6. Total(Stake, Signers(s)) \in Int
    BY <1>3, <1>4, TotalInt
  <1> QED
    BY <1>2, <1>4, <1>5, <1>6, SignersTotal DEF WeighedRight, t

LEMMA WeightStep == WeightInv /\ [Next]_vars => WeightInv'
  <1> SUFFICES ASSUME WeightInv, [Next]_vars
               PROVE  WeightIsSignersStake'
    BY ManagerStep DEF WeightInv
  <1> USE DEF WeightInv, ManagerInv
  <1>0. /\ \A n \in Pending : pending[n] \in Snapshot /\ WeighedRight(pending[n])
        /\ \A n \in Finalized : WeighedRight(finalized[n])
    BY DEF WeightIsSignersStake, WeighedRight, TypeOK
  <1>1. SUFFICES /\ \A n \in Pending' : WeighedRight(pending'[n])
                 /\ \A n \in Finalized' : WeighedRight(finalized'[n])
    BY DEF WeightIsSignersStake, WeighedRight, Signers
  <1>2. CASE CreateSnapshot
    <2>1. /\ pending' = [s \in Pending \cup {latest + 1} |->
                            IF s = latest + 1 THEN NewSnapshot(latest + 1) ELSE pending[s]]
          /\ finalized' = finalized
      BY <1>2 DEF CreateSnapshot
    <2>2. WeighedRight(NewSnapshot(latest + 1))
      <3>1. Signers(NewSnapshot(latest + 1)) = {} /\ NewSnapshot(latest + 1).weight = 0
        BY DEF NewSnapshot, Signers
      <3> QED
        BY <3>1, SignersTotal, TotalEmpty DEF WeighedRight
    <2> QED
      BY <1>0, <2>1, <2>2 DEF Pending, Finalized
  <1>3. ASSUME NEW m \in sent, AddSignature(m)
        PROVE  /\ \A n \in Pending' : WeighedRight(pending'[n])
               /\ \A n \in Finalized' : WeighedRight(finalized'[n])
    <2> DEFINE s == WithSignature(pending[m.seq], m.validator, m.digest)
    <2>1. /\ pending' = [pending EXCEPT ![m.seq] = s] /\ finalized' = finalized
          /\ m.seq \in Pending /\ m.validator \in Validators /\ m.digest \in Digests
          /\ m.validator \notin Signers(pending[m.seq])
      BY <1>3 DEF AddSignature, TypeOK
    <2>2. WeighedRight(s)
      BY <1>0, <2>1, SignatureWeighed
    <2> HIDE DEF s
    <2> QED
      BY <1>0, <2>1, <2>2 DEF Pending, Finalized
  <1>4. ASSUME NEW seq \in Pending, FinalizeSnapshot(seq)
        PROVE  /\ \A n \in Pending' : WeighedRight(pending'[n])
               /\ \A n \in Finalized' : WeighedRight(finalized'[n])
    BY <1>0, <1>4 DEF FinalizeSnapshot, Restrict, Pending, Finalized
  <1>5. ASSUME NEW seq \in Pending, Elapse(seq)
        PROVE  /\ \A n \in Pending' : WeighedRight(pending'[n])
               /\ \A n \in Finalized' : WeighedRight(finalized'[n])
    <2> DEFINE s == [pending[seq] EXCEPT !.timedOut = TRUE]
    <2>1. pending' = [pending EXCEPT ![seq] = s] /\ finalized' = finalized
      BY <1>5 DEF Elapse
    <2>2. s.weight = pending[seq].weight /\ s.signatures = pending[seq].signatures
      BY <1>0 DEF Snapshot
    <2>3. WeighedRight(s)
      BY <1>0, <2>2 DEF WeighedRight, Signers
    <2> HIDE DEF s
    <2> QED
      BY <1>0, <2>1, <2>3 DEF Pending, Finalized
  <1>6. CASE ProcessTimeouts
    BY <1>0, <1>6 DEF ProcessTimeouts, Restrict, Pending, Finalized
  <1>7. ASSUME NEW keep \in KeepCounts, PruneOldSnapshots(keep)
        PROVE  /\ \A n \in Pending' : WeighedRight(pending'[n])
               /\ \A n \in Finalized' : WeighedRight(finalized'[n])
    BY <1>0, <1>7 DEF PruneOldSnapshots, Restrict, Pending, Finalized
  <1>8. CASE UNCHANGED <<pending, finalized>>
    BY <1>0, <1>8 DEF Pending, Finalized
  <1> QED
    BY <1>2, <1>3, <1>4, <1>5, <1>6, <1>7, <1>8 DEF Next, Sign, vars

(* Safety: in every behaviour of snapshot.rs, whatever is delivered twice   *)
(* or after a replacement, the weight of a certificate, pending or          *)
(* finalized, is the stake of its distinct signers.                         *)
THEOREM WeightsExact == Spec => []WeightIsSignersStake
  <1>1. Init => WeightInv
    BY InitManagerInv DEF Init, WeightInv, WeightIsSignersStake, Pending, Finalized
  <1>2. WeightInv => WeightIsSignersStake
    BY DEF WeightInv
  <1> QED
    BY <1>1, <1>2, WeightStep, PTL DEF Spec
=============================================================================
