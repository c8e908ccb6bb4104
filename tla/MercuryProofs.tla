--------------------------- MODULE MercuryProofs ----------------------------
(***************************************************************************)
(* Proofs about the snapshot engine for every set of validators, every     *)
(* number of concurrent callers and every bound: the finalized sequence    *)
(* numbers have no gap, only the first snapshot starts a chain, and what   *)
(* is finalized has a quorum of distinct signers if none signs it twice.   *)
(***************************************************************************)
EXTENDS Mercury, Sums, TLAPS

(* A sequence number that may be given to the next snapshot: all before it  *)
(* are finalized.  A number read from the height keeps this for ever,       *)
(* because nothing leaves finalized_snapshots.                              *)
Follows(seq) == seq \in Nat /\ seq >= 1 /\ 1..(seq - 1) \subseteq Finalized

(* A snapshot as both maps may hold it under a sequence number. *)
Chained(s, seq) ==
  /\ {"digest", "prev"} \subseteq DOMAIN s
  /\ s.digest # NoDigest
  /\ s.prev = NoDigest => seq = 1

NumbersOrdered ==
  /\ current \in Finalized \cup {0}
  /\ \A s \in Finalized : Follows(s)
  /\ \A s \in Pending : Follows(s)

SnapshotsChained ==
  /\ \A s \in Finalized : Chained(finalized[s], s)
  /\ \A s \in Pending : Chained(pending[s], s)

(* The creator carries a number that follows the finalized ones, a snapshot *)
(* that fits it, and after the insertion a number that is finalized.        *)
CreatorOrdered ==
  /\ "pc" \in DOMAIN creator
  /\ creator.pc = "previous" => Follows(creator.seq)
  /\ creator.pc = "sign" =>
       Follows(creator.seq) /\ (creator.prev = NoDigest => creator.seq = 1)
  /\ creator.pc \in {"decide", "pend", "finalize"} =>
       /\ {"pc", "seq", "snapshot"} \subseteq DOMAIN creator
       /\ Follows(creator.seq) /\ Chained(creator.snapshot, creator.seq)
  /\ creator.pc = "height" => creator.seq \in Finalized

(* So does a call of add_snapshot_signature, whose record c keeps its       *)
(* number from step to step.                                                *)
Ordered(c) ==
  /\ "pc" \in DOMAIN c
  /\ c.pc \in {"update", "finalize", "remove", "height"} => "seq" \in DOMAIN c
  /\ c.pc \in {"update", "finalize"} => Follows(c.seq) /\ Chained(c.snapshot, c.seq)
  /\ c.pc \in {"remove", "height"} => c.seq \in Finalized

CallsOrdered == DOMAIN call = Threads /\ \A t \in Threads : Ordered(call[t])

(* The inductive invariant behind NoGaps and PredecessorNamed. *)
EngineInv ==
  /\ created \in Nat
  /\ NumbersOrdered
  /\ SnapshotsChained
  /\ CreatorOrdered
  /\ CallsOrdered

(* The initial state has nothing finalized or pending.                      *)
LEMMA InitEngineInv == Init => EngineInv
  BY DEF Init, EngineInv, NumbersOrdered, SnapshotsChained, CreatorOrdered, CallsOrdered,
         Ordered, Ticking, Idle, Finalized, Pending

(* The invariant implies the two properties.                                *)
LEMMA EngineInvImplies == EngineInv => NoGaps /\ PredecessorNamed
  <1> SUFFICES ASSUME EngineInv PROVE NoGaps /\ PredecessorNamed
    OBVIOUS
  <1>1. ASSUME NEW s \in Finalized PROVE s >= 1 /\ 1..s \subseteq Finalized
    <2>1. Follows(s)
      BY DEF EngineInv, NumbersOrdered
    <2>2. \A i \in 1..s : i = s \/ i \in 1..(s - 1)
      BY <2>1 DEF Follows
    <2> QED
      BY <2>1, <2>2 DEF Follows
  <1> QED
    BY <1>1 DEF EngineInv, NumbersOrdered, SnapshotsChained, Chained, NoGaps, PredecessorNamed

(* What a step that leaves all but one part alone, or only adds to          *)
(* finalized_snapshots, keeps.                                              *)
LEMMA FollowsKept ==
  ASSUME Finalized \subseteq Finalized', NEW seq, Follows(seq)
  PROVE  Follows(seq)'
  BY DEF Follows

(* A call's record stays ordered while the finalized numbers only grow.     *)
LEMMA OrderedKept ==
  ASSUME Finalized \subseteq Finalized', NEW c, Ordered(c)
  PROVE  Ordered(c)'
  BY FollowsKept DEF Ordered, Chained

(* Every call stays ordered when one of them moves to an ordered record.    *)
LEMMA CallMoves ==
  ASSUME EngineInv, Finalized \subseteq Finalized', NEW t \in Threads, NEW c,
         call' = [call EXCEPT ![t] = c], Ordered(c)'
  PROVE  CallsOrdered'
  <1>1. DOMAIN call' = Threads
    BY DEF EngineInv, CallsOrdered
  <1>2. ASSUME NEW u \in Threads PROVE Ordered(call[u])'
    <2>1. call'[u] = IF u = t THEN c ELSE call[u]
      BY DEF EngineInv, CallsOrdered
    <2>2. PICK d : d = call[u] /\ Ordered(d)
      BY DEF EngineInv, CallsOrdered
    <2>3. Ordered(d)'
      BY <2>2, OrderedKept
    <2> QED
      BY <2>1, <2>2, <2>3 DEF Ordered, Follows, Chained
  <1> QED
    BY <1>1, <1>2 DEF CallsOrdered

(* The calls do not notice a step of the creator. *)
LEMMA CallsKept ==
  ASSUME EngineInv, Finalized \subseteq Finalized', call' = call
  PROVE  CallsOrdered'
  <1>1. \A d : Ordered(d) => Ordered(d)'
    BY OrderedKept
  <1> QED
    BY <1>1 DEF EngineInv, CallsOrdered

(* The creator does not notice a step of a call. *)
LEMMA CreatorKept ==
  ASSUME EngineInv, Finalized \subseteq Finalized', creator' = creator
  PROVE  CreatorOrdered'
  BY FollowsKept DEF EngineInv, CreatorOrdered, Chained

(* Both maps and the height as a step without effect on them leaves them. *)
LEMMA MapsKept ==
  ASSUME EngineInv, UNCHANGED <<pending, finalized, current>>
  PROVE  /\ Finalized' = Finalized
         /\ NumbersOrdered' /\ SnapshotsChained'
  BY DEF EngineInv, NumbersOrdered, SnapshotsChained, Follows, Finalized, Pending

(* Inserting a fitting snapshot into finalized_snapshots. *)
LEMMA FinalizedGrows ==
  ASSUME EngineInv, NEW seq, NEW s, Follows(seq), Chained(s, seq),
         finalized' = With(finalized, seq, s), UNCHANGED <<pending, current>>
  PROVE  /\ Finalized \subseteq Finalized' /\ seq \in Finalized'
         /\ NumbersOrdered' /\ SnapshotsChained'
  <1>1. /\ Finalized' = Finalized \cup {seq} /\ Pending' = Pending
        /\ finalized'[seq] = s
        /\ \A x \in Finalized : x # seq => finalized'[x] = finalized[x]
    BY DEF With, Finalized, Pending
  <1>2. \A x : Follows(x) => Follows(x)'
    BY <1>1, FollowsKept
  <1>3. NumbersOrdered'
    BY <1>1, <1>2 DEF EngineInv, NumbersOrdered
  <1>4. SnapshotsChained'
    BY <1>1 DEF EngineInv, SnapshotsChained, Chained
  <1> QED
    BY <1>1, <1>3, <1>4

(* Inserting a fitting snapshot into pending_snapshots. *)
LEMMA PendingGrows ==
  ASSUME EngineInv, NEW seq, NEW s, Follows(seq), Chained(s, seq),
         pending' = With(pending, seq, s), UNCHANGED <<finalized, current>>
  PROVE  /\ Finalized' = Finalized
         /\ NumbersOrdered' /\ SnapshotsChained'
  <1>1. /\ Finalized' = Finalized /\ Pending' = Pending \cup {seq}
        /\ pending'[seq] = s
        /\ \A x \in Pending : x # seq => pending'[x] = pending[x]
    BY DEF With, Finalized, Pending
  <1>2. \A x : Follows(x) => Follows(x)'
    BY <1>1, FollowsKept
  <1>3. NumbersOrdered'
    BY <1>1, <1>2 DEF EngineInv, NumbersOrdered
  <1>4. SnapshotsChained'
    BY <1>1 DEF EngineInv, SnapshotsChained, Chained
  <1> QED
    BY <1>1, <1>3, <1>4

(* Every step of the creator task keeps the invariant. *)
LEMMA CreatorStep ==
  ASSUME EngineInv, CreateSnapshot \/ CreationFails
  PROVE  EngineInv'
  <1> USE DEF EngineInv
  <1>1. CASE Traverse \/ Execute \/ CreationFails \/ Store
    <2>1. UNCHANGED <<pending, finalized, current, created, call>>
      BY <1>1 DEF Traverse, Execute, CreationFails, Store, mapVars
    <2>2. CreatorOrdered'
      BY <1>1 DEF Traverse, Execute, CreationFails, Store, CreatorOrdered, Ticking
    <2> QED
      BY <2>1, <2>2, MapsKept, CallsKept
  <1>2. CASE Number
    <2>1. UNCHANGED <<pending, finalized, current, created, call>>
      BY <1>2 DEF Number, mapVars
    <2>2. Follows(current + 1)
      <3>1. CASE current = 0
        BY <3>1 DEF Follows
      <3>2. CASE current \in Finalized
        <4>1. Follows(current)
          BY <3>2 DEF NumbersOrdered
        <4>2. \A i \in 1..((current + 1) - 1) : i = current \/ i \in 1..(current - 1)
          BY <4>1 DEF Follows
        <4> QED
          BY <3>2, <4>1, <4>2 DEF Follows
      <3> QED
        BY <3>1, <3>2 DEF NumbersOrdered
    <2>3. Finalized' = Finalized
      BY <2>1 DEF Finalized
    <2>4. Follows(current + 1)'
      BY <2>1, <2>2, <2>3 DEF Follows
    <2>5. CreatorOrdered'
      BY <1>2, <2>1, <2>4 DEF Number, CreatorOrdered
    <2> QED
      BY <2>1, <2>5, MapsKept, CallsKept
  <1>3. CASE ReadPrevious
    <2>1. UNCHANGED <<pending, finalized, current, created, call>>
      BY <1>3 DEF ReadPrevious, mapVars
    <2>2. /\ Follows(creator.seq)
          /\ creator'.pc = "sign" /\ creator'.seq = creator.seq
          /\ "pc" \in DOMAIN creator'
          /\ creator'.prev = PreviousDigest(creator.seq)
      BY <1>3 DEF ReadPrevious, CreatorOrdered
    <2>3. creator.seq # 1 => creator.seq - 1 \in Finalized
      <3>1. creator.seq # 1 => creator.seq - 1 \in 1..(creator.seq - 1)
        BY <2>2 DEF Follows
      <3> QED
        BY <2>2, <3>1 DEF Follows
    <2>4. creator.seq # 1 => PreviousDigest(creator.seq) # NoDigest
      BY <2>3 DEF PreviousDigest, SnapshotsChained, Chained
    <2>5. Finalized' = Finalized
      BY <2>1 DEF Finalized
    <2>6. CreatorOrdered'
      BY <2>2, <2>4, <2>5 DEF CreatorOrdered, Follows
    <2> QED
      BY <2>1, <2>6, MapsKept, CallsKept
  <1>4. CASE BuildSnapshot
    <2>1. UNCHANGED <<pending, finalized, current, call>> /\ created' = created + 1
      BY <1>4 DEF BuildSnapshot, mapVars
    <2>2. /\ Follows(creator.seq) /\ (creator.prev = NoDigest => creator.seq = 1)
          /\ creator'.pc = "decide" /\ creator'.seq = creator.seq
          /\ {"pc", "seq", "snapshot"} \subseteq DOMAIN creator'
          /\ {"digest", "prev"} \subseteq DOMAIN creator'.snapshot
          /\ creator'.snapshot.digest = created + 1
          /\ creator'.snapshot.prev = creator.prev
      BY <1>4 DEF BuildSnapshot, CreatorOrdered
    <2>3. Finalized' = Finalized
      BY <2>1 DEF Finalized
    <2>4. CreatorOrdered'
      BY <2>2, <2>3 DEF CreatorOrdered, Follows, Chained, NoDigest
    <2>5. created' \in Nat
      BY <2>1
    <2> QED
      BY <2>1, <2>4, <2>5, MapsKept, CallsKept
  <1>5. CASE Decide
    <2>1. UNCHANGED <<pending, finalized, current, created, call>>
      BY <1>5 DEF Decide, mapVars
    <2>2. /\ Follows(creator.seq) /\ Chained(creator.snapshot, creator.seq)
          /\ {"pc", "seq", "snapshot"} \subseteq DOMAIN creator
      BY <1>5 DEF Decide, CreatorOrdered
    <2>3. /\ creator'.pc \in {"pend", "finalize"} /\ creator'.seq = creator.seq
          /\ {"pc", "seq", "snapshot"} \subseteq DOMAIN creator'
          /\ creator'.snapshot = [creator.snapshot EXCEPT !.total = TotalStake]
      BY <1>5, <2>2 DEF Decide
    <2>4. Chained(creator'.snapshot, creator'.seq)
      BY <2>2, <2>3 DEF Chained
    <2>5. Finalized' = Finalized
      BY <2>1 DEF Finalized
    <2>6. CreatorOrdered'
      BY <2>2, <2>3, <2>4, <2>5 DEF CreatorOrdered, Follows, Chained
    <2> QED
      BY <2>1, <2>6, MapsKept, CallsKept
  <1>6. CASE Pend
    <2>1. /\ Follows(creator.seq) /\ Chained(creator.snapshot, creator.seq)
          /\ pending' = With(pending, creator.seq, creator.snapshot)
          /\ creator' = Ticking
          /\ UNCHANGED <<finalized, current, created, call>>
      BY <1>6 DEF Pend, CreatorOrdered
    <2>2. Finalized' = Finalized /\ NumbersOrdered' /\ SnapshotsChained'
      BY <2>1, PendingGrows
    <2>3. CreatorOrdered'
      BY <2>1 DEF CreatorOrdered, Ticking
    <2> QED
      BY <2>1, <2>2, <2>3, CallsKept
  <1>7. CASE FinalizeOwn
    <2>1. /\ Follows(creator.seq) /\ Chained(creator.snapshot, creator.seq)
          /\ {"pc", "seq", "snapshot"} \subseteq DOMAIN creator
          /\ finalized' = With(finalized, creator.seq, creator.snapshot)
          /\ creator' = [creator EXCEPT !.pc = "height"]
          /\ UNCHANGED <<pending, current, created, call>>
      BY <1>7 DEF FinalizeOwn, CreatorOrdered
    <2>2. /\ Finalized \subseteq Finalized' /\ creator.seq \in Finalized'
          /\ NumbersOrdered' /\ SnapshotsChained'
      BY <2>1, FinalizedGrows
    <2>3. creator'.pc = "height" /\ creator'.seq = creator.seq /\ "pc" \in DOMAIN creator'
      BY <2>1
    <2>4. CreatorOrdered'
      BY <2>2, <2>3 DEF CreatorOrdered
    <2> QED
      BY <2>1, <2>2, <2>4, CallsKept
  <1>8. CASE RaiseHeight
    <2>1. /\ creator.seq \in Finalized /\ current' = creator.seq
          /\ UNCHANGED <<pending, finalized, created, call>>
      BY <1>8 DEF RaiseHeight, CreatorOrdered
    <2>2. Finalized' = Finalized /\ Pending' = Pending
      BY <2>1 DEF Finalized, Pending
    <2>3. NumbersOrdered' /\ SnapshotsChained'
      BY <2>1, <2>2 DEF NumbersOrdered, SnapshotsChained, Follows
    <2>4. CreatorOrdered'
      BY <1>8 DEF RaiseHeight, CreatorOrdered
    <2> QED
      BY <2>1, <2>2, <2>3, <2>4, CallsKept
  <1> QED
    BY <1>1, <1>2, <1>3, <1>4, <1>5, <1>6, <1>7, <1>8 DEF CreateSnapshot

(* Every step of a call of add_snapshot_signature keeps the invariant. *)
LEMMA CallStep ==
  ASSUME EngineInv, NEW t \in Threads,
         AddSignature(t) \/ \E v \in Validators, seq \in Sequence : Call(t, v, seq)
  PROVE  EngineInv'
  <1> USE DEF EngineInv
  <1>1. Ordered(call[t]) /\ DOMAIN call = Threads
    BY DEF CallsOrdered
  <1>2. \A c : Ordered(c) /\ Finalized' = Finalized => Ordered(c)'
    BY OrderedKept
  <1>3. ASSUME NEW v \in Validators, NEW seq \in Sequence, Call(t, v, seq)
        PROVE  EngineInv'
    <2> DEFINE c == [pc |-> "count", validator |-> v, seq |-> seq]
    <2>1. /\ UNCHANGED <<pending, finalized, current, created, creator>>
          /\ call' = [call EXCEPT ![t] = c]
      BY <1>3 DEF Call, mapVars
    <2>2. Ordered(c)'
      BY DEF Ordered
    <2> HIDE DEF c
    <2> QED
      BY <2>1, <2>2, MapsKept, CreatorKept, CallMoves
  <1>4. CASE Count(t)
    <2>1. UNCHANGED <<pending, finalized, current, created, creator>>
      BY <1>4 DEF Count, mapVars
    <2>2. Finalized' = Finalized
      BY <2>1 DEF Finalized
    <2>3. PICK c : call' = [call EXCEPT ![t] = c] /\ Ordered(c)
      <3> DEFINE v == call[t].validator
                 seq == call[t].seq
                 s == Signed(pending[seq], v)
                 moved == [pc |-> IF HasQuorum(s.weight, s.total) THEN "finalize" ELSE "update",
                           seq |-> seq, snapshot |-> s]
      <3>1. CASE seq \in Pending /\ v \in members
        <4>1. call' = [call EXCEPT ![t] = moved]
          BY <1>4, <3>1 DEF Count
        <4>2. Follows(seq) /\ Chained(pending[seq], seq)
          BY <3>1 DEF NumbersOrdered, SnapshotsChained
        <4>3. Chained(s, seq)
          BY <4>2 DEF Chained, Signed
        <4>4. Ordered(moved)
          <5> HIDE DEF s, seq
          <5> QED
            BY <4>2, <4>3 DEF Ordered
        <4> QED
          BY <4>1, <4>4
      <3>2. CASE ~(seq \in Pending /\ v \in members)
        <4>1. call' = [call EXCEPT ![t] = Idle]
          BY <1>4, <3>2 DEF Count, Return
        <4>2. Ordered(Idle)
          BY DEF Ordered, Idle
        <4> QED
          BY <4>1, <4>2
      <3> QED
        BY <3>1, <3>2
    <2> QED
      BY <1>2, <2>1, <2>2, <2>3, MapsKept, CreatorKept, CallMoves
  <1>5. CASE Update(t)
    <2>1. /\ Follows(call[t].seq) /\ Chained(call[t].snapshot, call[t].seq)
          /\ pending' = With(pending, call[t].seq, call[t].snapshot)
          /\ UNCHANGED <<finalized, current, created, creator>>
          /\ call' = [call EXCEPT ![t] = Idle]
      BY <1>1, <1>5 DEF Update, Ordered, At, Return
    <2>2. Finalized' = Finalized /\ NumbersOrdered' /\ SnapshotsChained'
      BY <2>1, PendingGrows
    <2>3. Ordered(Idle)'
      BY DEF Ordered, Idle
    <2> QED
      BY <2>1, <2>2, <2>3, CreatorKept, CallMoves
  <1>6. CASE Finalize(t)
    <2>1. /\ Follows(call[t].seq) /\ Chained(call[t].snapshot, call[t].seq)
          /\ finalized' = With(finalized, call[t].seq, call[t].snapshot)
          /\ UNCHANGED <<pending, current, created, creator>>
          /\ call' = [call EXCEPT ![t] = [call[t] EXCEPT !.pc = "remove"]]
          /\ {"pc", "seq"} \subseteq DOMAIN call[t]
      BY <1>1, <1>6 DEF Finalize, Ordered, At
    <2>2. /\ Finalized \subseteq Finalized' /\ call[t].seq \in Finalized'
          /\ NumbersOrdered' /\ SnapshotsChained'
      BY <2>1, FinalizedGrows
    <2> DEFINE c == [call[t] EXCEPT !.pc = "remove"]
    <2>3. c.pc = "remove" /\ c.seq = call[t].seq /\ {"pc", "seq"} \subseteq DOMAIN c
      BY <2>1
    <2>4. PICK d : d = c
      OBVIOUS
    <2>5. Ordered(d)'
      BY <2>2, <2>3, <2>4 DEF Ordered
    <2> QED
      BY <2>1, <2>2, <2>4, <2>5, CreatorKept, CallMoves
  <1>7. CASE RemovePending(t)
    <2>1. /\ pending' = [x \in Pending \ {call[t].seq} |-> pending[x]]
          /\ UNCHANGED <<finalized, current, created, creator>>
          /\ call' = [call EXCEPT ![t] = [call[t] EXCEPT !.pc = "height"]]
          /\ {"pc", "seq"} \subseteq DOMAIN call[t] /\ call[t].seq \in Finalized
      BY <1>1, <1>7 DEF RemovePending, Restrict, Ordered, At
    <2>2. Finalized' = Finalized /\ Pending' = Pending \ {call[t].seq}
      BY <2>1 DEF Finalized, Pending
    <2>3. NumbersOrdered' /\ SnapshotsChained'
      BY <2>1, <2>2 DEF NumbersOrdered, SnapshotsChained, Follows
    <2> DEFINE c == [call[t] EXCEPT !.pc = "height"]
    <2>4. c.pc = "height" /\ c.seq = call[t].seq /\ {"pc", "seq"} \subseteq DOMAIN c
      BY <2>1
    <2>5. PICK d : d = c
      OBVIOUS
    <2>6. Ordered(d)
      BY <2>1, <2>4, <2>5 DEF Ordered
    <2> QED
      BY <1>2, <2>1, <2>2, <2>3, <2>5, <2>6, CreatorKept, CallMoves
  <1>8. CASE SetHeight(t)
    <2>1. /\ current' = call[t].seq /\ call[t].seq \in Finalized
          /\ UNCHANGED <<pending, finalized, created, creator>>
          /\ call' = [call EXCEPT ![t] = [call[t] EXCEPT !.pc = "store"]]
          /\ "pc" \in DOMAIN call[t]
      BY <1>1, <1>8 DEF SetHeight, Ordered, At
    <2>2. Finalized' = Finalized /\ Pending' = Pending
      BY <2>1 DEF Finalized, Pending
    <2>3. NumbersOrdered' /\ SnapshotsChained'
      BY <2>1, <2>2 DEF NumbersOrdered, SnapshotsChained, Follows
    <2> DEFINE c == [call[t] EXCEPT !.pc = "store"]
    <2>4. c.pc = "store" /\ "pc" \in DOMAIN c
      BY <2>1
    <2>5. PICK d : d = c
      OBVIOUS
    <2>6. Ordered(d)
      BY <2>4, <2>5 DEF Ordered
    <2> QED
      BY <1>2, <2>1, <2>2, <2>3, <2>5, <2>6, CreatorKept, CallMoves
  <1>9. CASE StoreFinalized(t)
    <2>1. /\ UNCHANGED <<pending, finalized, current, created, creator>>
          /\ call' = [call EXCEPT ![t] = Idle]
      BY <1>9 DEF StoreFinalized, Return
    <2>2. Ordered(Idle)'
      BY DEF Ordered, Idle
    <2> QED
      BY <2>1, <2>2, MapsKept, CreatorKept, CallMoves
  <1> QED
    BY <1>3, <1>4, <1>5, <1>6, <1>7, <1>8, <1>9 DEF AddSignature

(* Every step of the engine keeps the invariant. *)
LEMMA EngineStep == EngineInv /\ [Next]_vars => EngineInv'
  <1> SUFFICES ASSUME EngineInv, [Next]_vars
               PROVE  EngineInv'
    OBVIOUS
  <1>1. CASE CreateSnapshot \/ CreationFails
    BY <1>1, CreatorStep
  <1>2. ASSUME NEW t \in Threads,
               AddSignature(t) \/ \E v \in Validators, seq \in Sequence : Call(t, v, seq)
        PROVE  EngineInv'
    BY <1>2, CallStep
  <1>3. ASSUME UNCHANGED <<pending, finalized, current, created, creator, call>>
        PROVE  EngineInv'
    <2>1. Finalized' = Finalized
      BY <1>3 DEF Finalized
    <2> QED
      BY <1>3, <2>1, MapsKept, CreatorKept, CallsKept DEF EngineInv
  <1>4. CASE \E v \in Validators : RemoveValidator(v) \/ AddValidator(v)
    BY <1>3, <1>4 DEF RemoveValidator, AddValidator, SetMembers, mapVars
  <1>5. CASE UNCHANGED vars
    BY <1>3, <1>5 DEF vars, mapVars
  <1> QED
    BY <1>1, <1>2, <1>4, <1>5 DEF Next, Steady

(* Safety of the snapshot engine, for any number of concurrent signature    *)
(* calls next to the creator task and while validators join and leave: the  *)
(* finalized snapshots are numbered 1 to n without a gap, the height is one *)
(* of these numbers, and only snapshot 1 has an all-zero predecessor.       *)
THEOREM NumberingSound == Spec => []NumberingExact
  <1>1. EngineInv => NumberingExact
    BY EngineInvImplies DEF NumberingExact
  <1> QED
    BY InitEngineInv, EngineStep, <1>1, PTL DEF Spec
-----------------------------------------------------------------------------
(***************************************************************************)
(* What is finalized has a quorum of distinct signers, for any validators, *)
(* stakes, number of concurrent calls and deliveries: only a snapshot that *)
(* names a signer twice can miss its quorum, and only signatures counted   *)
(* twice make one.  QuorumUnlessRepeated is not inductive: a call          *)
(* finalizes the snapshot that it has cloned and weighed steps before, so  *)
(* every snapshot that the maps, the creator task or a call hold must be   *)
(* weighed with no more than the stake of its signers when these are       *)
(* distinct, and its signers must have been counted as often as named.     *)
(***************************************************************************)
CountedAtLeast(v, seq, times) == v # Self /\ seq \in Sequence /\ received[seq][v] >= times

(* A snapshot's signers are this node, once, and validators whose           *)
(* signature was counted; a validator named twice was counted twice.        *)
SignersCounted(s, seq) ==
  /\ \A i \in DOMAIN s.signers : s.signers[i] = Self \/ CountedAtLeast(s.signers[i], seq, 1)
  /\ \A i, j \in DOMAIN s.signers :
       i # j /\ s.signers[i] = s.signers[j] => CountedAtLeast(s.signers[i], seq, 2)

Weighed(s, seq) ==
  /\ s \in Snapshot /\ SignersCounted(s, seq)
  /\ NoRepeat(s.signers) => s.weight =< DistinctWeight(s.signers)

QuorumOf(s) == HasQuorum(s.weight, s.total)

(* The creator task has room for a digest when it builds a snapshot, and    *)
(* what it carries is weighed.                                              *)
CreatorWeighed ==
  /\ creator \in CreatorRecord
  /\ creator.pc \in {"execute", "number", "previous", "sign"} => created < MaxCreates
  /\ creator.pc \in {"decide", "pend", "finalize"} => Weighed(creator.snapshot, creator.seq)
  /\ creator.pc = "finalize" => QuorumOf(creator.snapshot)

(* A call that counts a signature counts that of another validator.         *)
CallWeighed(c) ==
  /\ c \in CallRecord
  /\ c.pc = "count" => c.validator # Self /\ c.seq \in Sequence
  /\ c.pc \in {"update", "finalize"} => Weighed(c.snapshot, c.seq)
  /\ c.pc = "finalize" => QuorumOf(c.snapshot)

CallsWeighed == DOMAIN call = Threads /\ \A t \in Threads : CallWeighed(call[t])

MapsWeighed ==
  /\ Pending \subseteq Nat /\ \A s \in Pending : Weighed(pending[s], s)
  /\ Finalized \subseteq Nat
  /\ \A s \in Finalized : Weighed(finalized[s], s) /\ QuorumOf(finalized[s])
  /\ DOMAIN stored \subseteq Nat /\ \A s \in DOMAIN stored : stored[s] \in Snapshot

InputsOK ==
  /\ members \subseteq Validators
  /\ current \in Nat /\ created \in 0..MaxCreates
  /\ received \in [Sequence -> [Validators -> Nat]]

(* The inductive invariant behind FinalizedSoundly. *)
QuorumInv == InputsOK /\ MapsWeighed /\ CreatorWeighed /\ CallsWeighed

(* The sums of the model as sums of functions. *)
Stakes == [v \in Validators |-> StakeOf(v)]

LEMMA StakesFacts ==
  ASSUME members \subseteq Validators
  PROVE  /\ NatOn(Stakes, Validators) /\ IntOn(Stakes, Validators)
         /\ NatOn(Stake, Validators) /\ IntOn(Stake, Validators)
         /\ \A v \in Validators : Stakes[v] =< Stake[v]
  BY StakeAssumption DEF NatOn, IntOn, Stakes, StakeOf

LEMMA TotalStakeIsTotal ==
  ASSUME members \subseteq Validators
  PROVE  TotalStake = Total(Stakes, members) /\ TotalStake \in Nat
  <1> DEFINE body(it) == [s \in SUBSET members |->
                            IF s = {} THEN 0
                            ELSE LET x == CHOOSE x \in s : TRUE IN StakeOf(x) + it[s \ {x}]]
             body2(it) == [s \in SUBSET members |->
                             IF s = {} THEN 0
                             ELSE LET x == CHOOSE x \in s : TRUE IN Stakes[x] + it[s \ {x}]]
  <1>1. TotalStake = (CHOOSE it : it = body(it))[members]
    BY DEF TotalStake, MapThenSumSet, MapThenFoldSet
  <1>2. Total(Stakes, members) = (CHOOSE it : it = body2(it))[members]
    BY DEF Total, MapThenSumSet, MapThenFoldSet
  <1>3. \A it : body(it) = body2(it)
    <2> SUFFICES ASSUME NEW it, NEW s \in SUBSET members, s # {}
                 PROVE  StakeOf(CHOOSE x \in s : TRUE) = Stakes[CHOOSE x \in s : TRUE]
      OBVIOUS
    <2>1. (CHOOSE x \in s : TRUE) \in Validators
      OBVIOUS
    <2> QED
      BY <2>1 DEF Stakes
  <1>4. TotalStake = Total(Stakes, members)
    <2> HIDE DEF body, body2
    <2> QED
      BY <1>1, <1>2, <1>3
  <1>5. IsFiniteSet(members) /\ NatOn(Stakes, members)
    BY StakesFacts, ValidatorsAssumption, FS_Subset DEF NatOn
  <1> QED
    BY <1>4, <1>5, TotalNat

LEMMA StakeWeightIsTotal ==
  ASSUME NEW list \in Seq(Validators)
  PROVE  StakeWeight(list) = SeqTotal(Stakes, list)
  <1> DEFINE body(it) == [s \in SUBSET (DOMAIN list) |->
                            IF s = {} THEN 0
                            ELSE LET x == Max(s) IN it[s \ {x}] + StakeOf(list[x])]
             body2(it) == [s \in SUBSET (DOMAIN list) |->
                             IF s = {} THEN 0
                             ELSE LET x == Max(s) IN it[s \ {x}] + Stakes[list[x]]]
  <1>1. StakeWeight(list) = (CHOOSE it : it = body(it))[DOMAIN list]
    BY DEF StakeWeight, FoldLeft, MapThenFoldSet
  <1>2. SeqTotal(Stakes, list) = (CHOOSE it : it = body2(it))[DOMAIN list]
    BY DEF SeqTotal, FoldLeft, MapThenFoldSet
  <1>3. \A it : body(it) = body2(it)
    <2> SUFFICES ASSUME NEW it, NEW s \in SUBSET (DOMAIN list), s # {}
                 PROVE  it[s \ {Max(s)}] + StakeOf(list[Max(s)])
                          = it[s \ {Max(s)}] + Stakes[list[Max(s)]]
      OBVIOUS
    <2>1. Max(s) \in s
      <3>1. s \in SUBSET Int /\ IsFiniteSet(DOMAIN list)
        BY FS_Interval
      <3>2. IsFiniteSet(s)
        BY <3>1, FS_Subset
      <3> QED
        BY <3>1, <3>2, MaxElement
    <2>2. list[Max(s)] \in Validators
      BY <2>1
    <2> QED
      BY <2>2 DEF Stakes
  <1> HIDE DEF body, body2
  <1> QED
    BY <1>1, <1>2, <1>3

(* The weight of distinct signers is that of their set, which is a number,  *)
(* and one more signer adds its stake.                                      *)
LEMMA SignersWeight ==
  ASSUME members \subseteq Validators, NEW list \in Seq(Validators), NoRepeat(list)
  PROVE  /\ StakeWeight(list) \in Nat
         /\ StakeWeight(list) =< DistinctWeight(list)
         /\ DistinctWeight(list) \in Nat
  <1> DEFINE S == ToSet(list)
  <1>1. S \in SUBSET Validators
    BY DEF ToSet
  <1>2. IsFiniteSet(S)
    BY <1>1, ValidatorsAssumption, FS_Subset
  <1>3. /\ NatOn(Stakes, S) /\ IntOn(Stakes, S) /\ NatOn(Stake, S) /\ IntOn(Stake, S)
        /\ \A v \in S : Stakes[v] =< Stake[v]
    BY <1>1, StakesFacts DEF NatOn, IntOn
  <1>4. StakeWeight(list) = Total(Stakes, S)
    <2>1. SeqTotal(Stakes, list) = Total(Stakes, ToSet(list))
      BY StakesFacts, SeqTotalDistinct DEF NoRepeat
    <2> QED
      BY <2>1, StakeWeightIsTotal
  <1>5. DistinctWeight(list) = Total(Stake, S)
    BY DEF DistinctWeight, Total
  <1> HIDE DEF S
  <1>6. Total(Stakes, S) =< Total(Stake, S)
    BY <1>2, <1>3, TotalOrdered
  <1>7. Total(Stakes, S) \in Nat /\ Total(Stake, S) \in Nat
    BY <1>2, <1>3, TotalNat
  <1> QED
    BY <1>4, <1>5, <1>6, <1>7

(* What a step that takes no signature back keeps.                          *)
CountsGrow ==
  \A n \in Sequence, v \in Validators :
    /\ received[n][v] >= 1 => received'[n][v] >= 1
    /\ received[n][v] >= 2 => received'[n][v] >= 2

(* A snapshot with one more signature, weighed again. *)
LEMMA SignedFacts ==
  ASSUME members \subseteq Validators, NEW s \in Snapshot, NEW v \in Validators
  PROVE  /\ Signed(s, v) \in Snapshot
         /\ Signed(s, v).signers = Append(s.signers, v)
         /\ NoRepeat(Append(s.signers, v)) =>
              Signed(s, v).weight =< DistinctWeight(Append(s.signers, v))
  <1> DEFINE signers == Append(s.signers, v)
  <1>1. signers \in Seq(Validators)
    <2>1. s.signers \in Seq(Validators)
      BY DEF Snapshot
    <2> QED
      BY <2>1, AppendElements
  <1>2. Signed(s, v) = [s EXCEPT !.signers = signers, !.weight = StakeWeight(signers),
                                 !.total = TotalStake]
    BY DEF Signed
  <1> HIDE DEF signers
  <1>3. StakeWeight(signers) \in Nat
    <2>1. NatOn(Stakes, Validators)
      BY StakesFacts
    <2>2. SeqTotal(Stakes, signers) \in Nat
      BY <1>1, <2>1, SeqTotalNat
    <2> QED
      BY <1>1, <2>2, StakeWeightIsTotal
  <1>4. NoRepeat(signers) => StakeWeight(signers) =< DistinctWeight(signers)
    BY <1>1, SignersWeight
  <1>5. TotalStake \in Nat
    BY TotalStakeIsTotal
  <1>6. /\ Signed(s, v) \in Snapshot /\ Signed(s, v).signers = signers
        /\ Signed(s, v).weight = StakeWeight(signers)
    BY <1>1, <1>2, <1>3, <1>5 DEF Snapshot
  <1> QED
    BY <1>4, <1>6 DEF signers

(* One more signature of v leaves the signers counted once v is counted     *)
(* once more.                                                               *)
LEMMA OneMoreCounted ==
  ASSUME NEW list \in Seq(Validators), NEW v \in Validators \ {Self}, NEW seq \in Sequence,
         NEW s, s.signers = list, SignersCounted(s, seq), CountsGrow,
         received \in [Sequence -> [Validators -> Nat]], received'[seq][v] = received[seq][v] + 1,
         NEW r, r.signers = Append(list, v)
  PROVE  SignersCounted(r, seq)'
  <1> DEFINE longer == Append(list, v)
             n == Len(list)
  <1>1. /\ n \in Nat /\ DOMAIN list = 1..n /\ DOMAIN longer = 1..(n + 1) /\ longer[n + 1] = v
        /\ \A i \in 1..n : longer[i] = list[i] /\ list[i] \in Validators
    OBVIOUS
  <1> HIDE DEF longer, n
  <1>2. received[seq][v] \in Nat
    OBVIOUS
  <1>3. \A i \in 1..n : list[i] = Self \/ CountedAtLeast(list[i], seq, 1)
    BY <1>1 DEF SignersCounted
  <1>4. \A i, j \in 1..n : i # j /\ list[i] = list[j] => CountedAtLeast(list[i], seq, 2)
    BY <1>1 DEF SignersCounted
  <1>5. CountedAtLeast(v, seq, 1)'
    BY <1>2 DEF CountedAtLeast
  <1>6. ASSUME NEW i \in 1..(n + 1)
        PROVE  longer[i] = Self \/ CountedAtLeast(longer[i], seq, 1)'
    BY <1>1, <1>3, <1>5 DEF CountsGrow, CountedAtLeast
  <1>7. ASSUME NEW i \in 1..n, list[i] = v
        PROVE  CountedAtLeast(v, seq, 2)'
    <2>1. CountedAtLeast(v, seq, 1)
      BY <1>3, <1>7
    <2> QED
      BY <1>2, <2>1 DEF CountedAtLeast
  <1>8. ASSUME NEW i \in 1..(n + 1), NEW j \in 1..(n + 1), i # j, longer[i] = longer[j]
        PROVE  CountedAtLeast(longer[i], seq, 2)'
    <2>1. CASE i = n + 1
      <3>1. j \in 1..n
        BY <1>1, <1>8, <2>1
      <3> QED
        BY <1>1, <1>7, <1>8, <2>1, <3>1
    <2>2. CASE j = n + 1
      <3>1. i \in 1..n
        BY <1>1, <1>8, <2>2
      <3> QED
        BY <1>1, <1>7, <1>8, <2>2, <3>1
    <2>3. CASE i # n + 1 /\ j # n + 1
      <3>1. i \in 1..n /\ j \in 1..n
        BY <1>1, <2>3
      <3>2. CountedAtLeast(list[i], seq, 2) /\ longer[i] = list[i] /\ list[i] \in Validators
        BY <1>1, <1>4, <1>8, <3>1
      <3> QED
        BY <3>2 DEF CountsGrow, CountedAtLeast
    <2> QED
      BY <2>1, <2>2, <2>3
  <1> QED
    BY <1>1, <1>6, <1>8 DEF SignersCounted, longer

(* The node's own signature. *)
LEMMA OwnSignatureFacts ==
  ASSUME members \subseteq Validators
  PROVE  /\ OwnSignature \in Seq(Validators) /\ NoRepeat(OwnSignature)
         /\ \A i, j \in DOMAIN OwnSignature : OwnSignature[i] = Self /\ i = j
         /\ StakeOf(Self) \in Nat /\ StakeOf(Self) =< DistinctWeight(OwnSignature)
  <1>1. CASE Self \in Validators
    <2>1. OwnSignature = <<Self>> /\ ToSet(<<Self>>) = {Self}
      BY <1>1 DEF OwnSignature, ToSet
    <2>2. DistinctWeight(<<Self>>) = Total(Stake, {Self})
      BY <2>1 DEF DistinctWeight, Total
    <2>3. IsFiniteSet({Self}) /\ IntOn(Stake, {Self}) /\ {Self} \ {Self} = {}
      BY <1>1, FS_Singleton, StakeAssumption DEF IntOn
    <2>4. Total(Stake, {Self}) = Stake[Self] + Total(Stake, {})
      BY <2>3, TotalElement
    <2>5. Total(Stake, {Self}) = Stake[Self] + 0
      BY <2>4, TotalEmpty
    <2>6. Stake[Self] \in Nat /\ StakeOf(Self) \in Nat /\ StakeOf(Self) =< Stake[Self]
      BY <1>1, StakeAssumption DEF StakeOf
    <2>7. <<Self>> \in Seq(Validators) /\ NoRepeat(<<Self>>)
      BY <1>1 DEF NoRepeat
    <2> QED
      BY <2>1, <2>2, <2>5, <2>6, <2>7
  <1>2. CASE Self \notin Validators
    <2>1. OwnSignature = << >> /\ ToSet(<< >>) = {} /\ StakeOf(Self) = 0
      BY <1>2 DEF OwnSignature, ToSet, StakeOf
    <2>2. DistinctWeight(<< >>) = Total(Stake, {})
      BY <2>1 DEF DistinctWeight, Total
    <2>3. DistinctWeight(<< >>) = 0
      BY <2>2, TotalEmpty
    <2>4. << >> \in Seq(Validators) /\ NoRepeat(<< >>)
      BY DEF NoRepeat
    <2> QED
      BY <2>1, <2>3, <2>4
  <1> QED
    BY <1>1, <1>2

LEMMA WeighedKept ==
  ASSUME CountsGrow, NEW seq, NEW s, Weighed(s, seq)
  PROVE  Weighed(s, seq)'
  <1>1. \A i \in DOMAIN s.signers : s.signers[i] \in Validators
    BY DEF Weighed, Snapshot
  <1> QED
    BY <1>1 DEF Weighed, SignersCounted, CountedAtLeast, CountsGrow

LEMMA CreatorWeighedKept ==
  ASSUME CreatorWeighed, CountsGrow, UNCHANGED <<creator, created>>
  PROVE  CreatorWeighed'
  <1>1. ASSUME creator.pc \in {"decide", "pend", "finalize"}
        PROVE  Weighed(creator.snapshot, creator.seq)'
    <2>1. PICK s, n : s = creator.snapshot /\ n = creator.seq /\ Weighed(s, n)
      BY <1>1 DEF CreatorWeighed
    <2>2. Weighed(s, n)'
      BY <2>1, WeighedKept
    <2> QED
      BY <2>1, <2>2 DEF Weighed, SignersCounted, CountedAtLeast
  <1> QED
    BY <1>1 DEF CreatorWeighed, QuorumOf

LEMMA MapsWeighedKept ==
  ASSUME MapsWeighed, CountsGrow, UNCHANGED <<pending, finalized, stored>>
  PROVE  MapsWeighed'
  <1>1. Pending' = Pending /\ Finalized' = Finalized
    BY DEF Pending, Finalized
  <1>2. ASSUME NEW n \in Pending PROVE Weighed(pending[n], n)'
    <2>1. PICK s : s = pending[n] /\ Weighed(s, n)
      BY DEF MapsWeighed
    <2>2. Weighed(s, n)'
      BY <2>1, WeighedKept
    <2> QED
      BY <2>1, <2>2 DEF Weighed, SignersCounted, CountedAtLeast
  <1>3. ASSUME NEW n \in Finalized PROVE Weighed(finalized[n], n)'
    <2>1. PICK s : s = finalized[n] /\ Weighed(s, n)
      BY DEF MapsWeighed
    <2>2. Weighed(s, n)'
      BY <2>1, WeighedKept
    <2> QED
      BY <2>1, <2>2 DEF Weighed, SignersCounted, CountedAtLeast
  <1> QED
    BY <1>1, <1>2, <1>3 DEF MapsWeighed, QuorumOf

LEMMA CallWeighedKept ==
  ASSUME NEW c, CallWeighed(c), CountsGrow
  PROVE  CallWeighed(c)'
  <1>1. ASSUME c.pc \in {"update", "finalize"} PROVE Weighed(c.snapshot, c.seq)'
    BY <1>1, WeighedKept DEF CallWeighed
  <1> QED
    BY <1>1 DEF CallWeighed, QuorumOf

(* New maps of weighed snapshots. *)
LEMMA NewMapsWeighed ==
  ASSUME NEW p, NEW f, pending' = p, finalized' = f, received' = received,
         DOMAIN p \subseteq Nat, \A n \in DOMAIN p : Weighed(p[n], n),
         DOMAIN f \subseteq Nat, \A n \in DOMAIN f : Weighed(f[n], n) /\ QuorumOf(f[n]),
         DOMAIN stored' \subseteq Nat, \A n \in DOMAIN stored' : stored'[n] \in Snapshot
  PROVE  MapsWeighed'
  <1>1. CountsGrow
    BY DEF CountsGrow
  <1>2. ASSUME NEW n \in DOMAIN p PROVE Weighed(pending[n], n)'
    <2>1. PICK s : s = p[n] /\ Weighed(s, n)
      OBVIOUS
    <2>2. Weighed(s, n)'
      BY <1>1, <2>1, WeighedKept
    <2> QED
      BY <2>1, <2>2 DEF Weighed, SignersCounted, CountedAtLeast
  <1>3. ASSUME NEW n \in DOMAIN f PROVE Weighed(finalized[n], n)' /\ QuorumOf(finalized[n])'
    <2>1. PICK s : s = f[n] /\ Weighed(s, n) /\ QuorumOf(s)
      OBVIOUS
    <2>2. Weighed(s, n)'
      BY <1>1, <2>1, WeighedKept
    <2> QED
      BY <2>1, <2>2 DEF Weighed, SignersCounted, CountedAtLeast, QuorumOf
  <1> QED
    BY <1>2, <1>3 DEF MapsWeighed, Pending, Finalized

(* Inserting a weighed snapshot into a map.                                 *)
LEMMA InsertedWeighed ==
  ASSUME NEW map, NEW seq, NEW s, Weighed(s, seq),
         \A n \in DOMAIN map : Weighed(map[n], n)
  PROVE  \A n \in DOMAIN With(map, seq, s) : Weighed(With(map, seq, s)[n], n)
  BY DEF With

(* Steps of the creator task that change no map. *)
LEMMA CreatorAlone ==
  ASSUME QuorumInv, CreatorWeighed', created' \in 0..MaxCreates,
         UNCHANGED <<members, mapVars, call, received>>
  PROVE  QuorumInv'
  <1> USE DEF QuorumInv
  <1>1. /\ UNCHANGED <<pending, finalized, stored, current, members, received, call>>
        /\ CountsGrow
    BY DEF mapVars, CountsGrow
  <1>2. InputsOK'
    BY <1>1 DEF InputsOK
  <1>3. MapsWeighed'
    BY <1>1, MapsWeighedKept
  <1>4. CallsWeighed'
    BY <1>1 DEF CallsWeighed, At, CallWeighed, Weighed, SignersCounted, CountedAtLeast, QuorumOf
  <1> QED
    BY <1>2, <1>3, <1>4

LEMMA CreatorQuorumStep ==
  ASSUME QuorumInv, CreateSnapshot \/ CreationFails
  PROVE  QuorumInv'
  <1> USE DEF QuorumInv
  <1>0. /\ members \subseteq Validators /\ current \in Nat
        /\ created \in 0..MaxCreates /\ created \in Nat
    BY BoundsAssumption DEF InputsOK
  <1>1. CASE Traverse
    <2>1. creator' = [pc |-> "execute", batches |-> FirstBatches] /\ created < MaxCreates
          /\ UNCHANGED <<members, mapVars, created, call, received>>
      BY <1>1 DEF Traverse
    <2>2. FirstBatches \in SUBSET Batches
      BY <1>0 DEF FirstBatches
    <2>3. CreatorWeighed'
      BY <2>1, <2>2 DEF CreatorWeighed, CreatorRecord
    <2> QED
      BY <1>0, <2>1, <2>3, CreatorAlone
  <1>2. CASE CreationFails
    <2>1. creator' = [pc |-> "tick"] /\ UNCHANGED <<members, mapVars, created, call, received>>
      BY <1>2 DEF CreationFails, Ticking
    <2>2. CreatorWeighed'
      BY <2>1 DEF CreatorWeighed, CreatorRecord
    <2> QED
      BY <1>0, <2>1, <2>2, CreatorAlone
  <1>3. CASE Execute
    <2>1. UNCHANGED <<members, mapVars, created, call, received>> /\ created < MaxCreates
      BY <1>3 DEF Execute, CreatorWeighed
    <2>2. creator \in [pc : {"execute", "number"}, batches : SUBSET Batches]
      BY <1>3 DEF Execute, CreatorWeighed, CreatorRecord
    <2>3. creator' = [creator EXCEPT !.pc = "number"] \/ creator' = [pc |-> "panicked"]
      BY <1>3 DEF Execute
    <2>4. CreatorWeighed'
      BY <2>1, <2>2, <2>3 DEF CreatorWeighed, CreatorRecord
    <2> QED
      BY <1>0, <2>1, <2>4, CreatorAlone
  <1>4. CASE Number
    <2>1. /\ UNCHANGED <<members, mapVars, created, call, received>> /\ created < MaxCreates
          /\ creator' = [pc |-> "previous", batches |-> creator.batches, seq |-> current + 1]
      BY <1>4 DEF Number, CreatorWeighed
    <2>2. creator.batches \in SUBSET Batches /\ current + 1 \in Nat
      BY <1>0, <1>4 DEF Number, CreatorWeighed, CreatorRecord
    <2>3. CreatorWeighed'
      BY <2>1, <2>2 DEF CreatorWeighed, CreatorRecord
    <2> QED
      BY <1>0, <2>1, <2>3, CreatorAlone
  <1>5. CASE ReadPrevious
    <2>1. /\ UNCHANGED <<members, mapVars, created, call, received>> /\ created < MaxCreates
          /\ creator' = [pc |-> "sign", batches |-> creator.batches, seq |-> creator.seq,
                         prev |-> PreviousDigest(creator.seq)]
      BY <1>5 DEF ReadPrevious, CreatorWeighed
    <2>2. creator.batches \in SUBSET Batches /\ creator.seq \in Nat
      BY <1>5 DEF ReadPrevious, CreatorWeighed, CreatorRecord
    <2>3. PreviousDigest(creator.seq) \in Digests \cup {NoDigest}
      BY DEF PreviousDigest, MapsWeighed, Weighed, Snapshot
    <2>4. CreatorWeighed'
      BY <2>1, <2>2, <2>3 DEF CreatorWeighed, CreatorRecord
    <2> QED
      BY <1>0, <2>1, <2>4, CreatorAlone
  <1>6. CASE BuildSnapshot
    <2> DEFINE s == [digest |-> created + 1, prev |-> creator.prev, batches |-> creator.batches,
                     signers |-> OwnSignature, weight |-> StakeOf(Self), total |-> 0]
    <2>1. /\ UNCHANGED <<members, mapVars, call, received>> /\ created < MaxCreates
          /\ creator' = [pc |-> "decide", seq |-> creator.seq, snapshot |-> s]
          /\ created' = created + 1
      BY <1>6 DEF BuildSnapshot, CreatorWeighed
    <2>2. /\ creator.batches \in SUBSET Batches /\ creator.seq \in Nat
          /\ creator.prev \in Digests \cup {NoDigest}
      BY <1>6 DEF BuildSnapshot, CreatorWeighed, CreatorRecord
    <2>3. created + 1 \in Digests /\ created' \in 0..MaxCreates
      BY <1>0, <2>1, BoundsAssumption DEF Digests
    <2>4. s \in Snapshot
      BY <1>0, <2>2, <2>3, OwnSignatureFacts DEF Snapshot
    <2>5. Weighed(s, creator.seq)
      BY <1>0, <2>4, OwnSignatureFacts DEF Weighed, SignersCounted, CountedAtLeast
    <2> HIDE DEF s
    <2>6. PICK n : n = creator.seq /\ Weighed(s, n)
      BY <2>5
    <2>7. PICK r : r = s
      OBVIOUS
    <2>8. Weighed(r, n)'
      <3>1. CountsGrow
        BY <2>1 DEF CountsGrow
      <3> QED
        BY <2>6, <2>7, <3>1, WeighedKept
    <2>9. CreatorWeighed'
      BY <2>1, <2>2, <2>4, <2>6, <2>7, <2>8 DEF CreatorWeighed, CreatorRecord
    <2> QED
      BY <2>1, <2>3, <2>9, CreatorAlone
  <1>7. CASE Decide
    <2> DEFINE s == [creator.snapshot EXCEPT !.total = TotalStake]
               pc == IF HasQuorum(creator.snapshot.weight, TotalStake) THEN "finalize" ELSE "pend"
    <2>1. /\ creator.pc = "decide" /\ creator.seq \in Nat
          /\ Weighed(creator.snapshot, creator.seq) /\ creator.snapshot \in Snapshot
          /\ DOMAIN creator = {"pc", "seq", "snapshot"}
      BY <1>7 DEF Decide, CreatorWeighed, CreatorRecord, Weighed
    <2>2. /\ UNCHANGED <<members, mapVars, created, call, received>>
          /\ creator' = [creator EXCEPT !.snapshot = s, !.pc = pc]
      BY <1>7 DEF Decide
    <2>3. creator' = [pc |-> pc, seq |-> creator.seq, snapshot |-> s]
      <3>1. creator \in [pc : {"decide"}, seq : Nat, snapshot : Snapshot]
        BY <2>1, <1>7 DEF Decide, CreatorWeighed, CreatorRecord
      <3> HIDE DEF s, pc
      <3> QED
        BY <2>2, <3>1
    <2>4. /\ s \in Snapshot /\ s.signers = creator.snapshot.signers
          /\ s.weight = creator.snapshot.weight /\ s.total = TotalStake
      BY <1>0, <2>1, TotalStakeIsTotal DEF Snapshot
    <2>5. Weighed(s, creator.seq) /\ (pc = "finalize" => QuorumOf(s))
      BY <2>1, <2>4 DEF Weighed, SignersCounted, CountedAtLeast, QuorumOf
    <2>6. pc \in {"pend", "finalize"}
      OBVIOUS
    <2> HIDE DEF s, pc
    <2>7. PICK n, r, p : n = creator.seq /\ r = s /\ p = pc /\ Weighed(r, n)
                         /\ (p = "finalize" => QuorumOf(r))
      BY <2>5
    <2>8. Weighed(r, n)'
      <3>1. CountsGrow
        BY <2>2 DEF CountsGrow
      <3> QED
        BY <2>7, <3>1, WeighedKept
    <2>9. CreatorWeighed'
      BY <2>1, <2>3, <2>4, <2>6, <2>7, <2>8 DEF CreatorWeighed, CreatorRecord, QuorumOf
    <2> QED
      BY <1>0, <2>2, <2>9, CreatorAlone
  <1>8. CASE Pend \/ FinalizeOwn \/ RaiseHeight \/ Store
    <2>1. /\ creator.seq \in Nat /\ creator.snapshot \in Snapshot
          /\ creator \in [pc : {"pend", "finalize", "height", "store"}, seq : Nat,
                          snapshot : Snapshot]
      BY <1>8 DEF Pend, FinalizeOwn, RaiseHeight, Store, CreatorWeighed, CreatorRecord
    <2>2. /\ UNCHANGED <<members, created, call, received>>
          /\ current' \in {current, creator.seq} /\ CountsGrow
          /\ creator' \in {[pc |-> "tick"], [creator EXCEPT !.pc = "height"],
                           [creator EXCEPT !.pc = "store"]}
      BY <1>8 DEF Pend, FinalizeOwn, RaiseHeight, Store, Ticking, CountsGrow
    <2>3. InputsOK'
      BY <2>1, <2>2 DEF InputsOK
    <2>4. CreatorWeighed'
      BY <2>1, <2>2 DEF CreatorWeighed, CreatorRecord
    <2>5. CallsWeighed'
      BY <2>2 DEF CallsWeighed, At, CallWeighed, Weighed, SignersCounted, CountedAtLeast, QuorumOf
    <2>6. MapsWeighed'
      <3>1. CASE Pend
        <4>1. /\ pending' = With(pending, creator.seq, creator.snapshot)
              /\ UNCHANGED <<finalized, stored>> /\ Weighed(creator.snapshot, creator.seq)
          BY <3>1 DEF Pend, CreatorWeighed
        <4>2. PICK p : p = pending' /\ DOMAIN p \subseteq Nat
                       /\ \A n \in DOMAIN p : Weighed(p[n], n)
          BY <2>1, <4>1, InsertedWeighed DEF MapsWeighed, Pending, With
        <4> QED
          BY <2>2, <4>1, <4>2 DEF MapsWeighed, Pending, Finalized, Weighed, SignersCounted, CountedAtLeast, QuorumOf
      <3>2. CASE FinalizeOwn
        <4>1. /\ finalized' = With(finalized, creator.seq, creator.snapshot)
              /\ UNCHANGED <<pending, stored>> /\ Weighed(creator.snapshot, creator.seq)
              /\ QuorumOf(creator.snapshot)
          BY <3>2 DEF FinalizeOwn, CreatorWeighed
        <4>2. PICK p : p = finalized' /\ DOMAIN p \subseteq Nat
                       /\ \A n \in DOMAIN p : Weighed(p[n], n) /\ QuorumOf(p[n])
          BY <2>1, <4>1 DEF MapsWeighed, Finalized, With
        <4> QED
          BY <2>2, <4>1, <4>2 DEF MapsWeighed, Pending, Finalized, Weighed, SignersCounted, CountedAtLeast, QuorumOf
      <3>3. CASE RaiseHeight
        <4>1. UNCHANGED <<pending, finalized, stored>>
          BY <3>3 DEF RaiseHeight
        <4> QED
          BY <2>2, <4>1, MapsWeighedKept
      <3>4. CASE Store
        <4>1. /\ UNCHANGED <<pending, finalized>>
              /\ stored' \in {stored, With(stored, creator.seq, creator.snapshot)}
          BY <3>4 DEF Store
        <4>2. DOMAIN stored' \subseteq Nat /\ \A n \in DOMAIN stored' : stored'[n] \in Snapshot
          BY <2>1, <4>1 DEF MapsWeighed, With
        <4> QED
          BY <2>2, <4>1, <4>2 DEF MapsWeighed, Pending, Finalized, Weighed, SignersCounted, CountedAtLeast, QuorumOf
      <3> QED
        BY <1>8, <3>1, <3>2, <3>3, <3>4
    <2> QED
      BY <2>3, <2>4, <2>5, <2>6
  <1> QED
    BY <1>1, <1>2, <1>3, <1>4, <1>5, <1>6, <1>7, <1>8 DEF CreateSnapshot

(* Steps of a call that count no signature: it moves to record c.           *)
LEMMA CallMovesWeighed ==
  ASSUME QuorumInv, NEW t \in Threads, NEW c, CallWeighed(c),
         call' = [call EXCEPT ![t] = c], UNCHANGED received
  PROVE  CallsWeighed'
  <1>1. DOMAIN call' = Threads /\ \A u \in Threads : call'[u] = IF u = t THEN c ELSE call[u]
    BY DEF QuorumInv, CallsWeighed
  <1>2. ASSUME NEW u \in Threads PROVE CallWeighed(call[u])'
    <2>1. PICK d : d = call'[u] /\ CallWeighed(d)
      BY <1>1 DEF QuorumInv, CallsWeighed
    <2>2. CallWeighed(d)'
      BY <2>1 DEF CallWeighed, Weighed, SignersCounted, CountedAtLeast, QuorumOf
    <2> QED
      BY <2>1, <2>2 DEF CallWeighed, Weighed, SignersCounted, CountedAtLeast, QuorumOf
  <1> QED
    BY <1>1, <1>2 DEF CallsWeighed

LEMMA CallStarts ==
  ASSUME QuorumInv, NEW t \in Threads, NEW v \in Validators \ {Self},
         NEW seq \in Sequence, Call(t, v, seq)
  PROVE  QuorumInv'
  <1> DEFINE c == [pc |-> "count", validator |-> v, seq |-> seq]
  <1>1. /\ UNCHANGED <<members, mapVars, created, creator, received>>
        /\ call' = [call EXCEPT ![t] = c]
    BY DEF Call
  <1>2. /\ UNCHANGED <<members, current, created, received, pending, finalized, stored>>
        /\ CountsGrow
    BY <1>1 DEF mapVars, CountsGrow
  <1>3. InputsOK' /\ MapsWeighed' /\ CreatorWeighed'
    BY <1>1, <1>2, MapsWeighedKept, CreatorWeighedKept DEF QuorumInv, InputsOK
  <1>4. CallWeighed(c)
    <2>1. seq \in Nat
      BY BoundsAssumption DEF Sequence
    <2> QED
      BY <2>1 DEF CallWeighed, CallRecord
  <1> HIDE DEF c
  <1>5. CallsWeighed'
    BY <1>1, <1>4, CallMovesWeighed
  <1> QED
    BY <1>3, <1>5 DEF QuorumInv

(* The count itself: the signature may be the second of its validator.      *)
LEMMA SignatureCounted ==
  ASSUME QuorumInv, NEW t \in Threads, Count(t)
  PROVE  QuorumInv'
  <1> USE DEF QuorumInv
  <1> DEFINE v == call[t].validator
             seq == call[t].seq
  <1>1. /\ call[t].pc = "count" /\ v \in Validators \ {Self} /\ seq \in Sequence
        /\ DOMAIN call = Threads
        /\ UNCHANGED <<members, current, created, creator, pending, finalized, stored>>
    BY DEF Count, At, CallsWeighed, CallWeighed, CallRecord, mapVars
  <1>2. CASE ~(seq \in Pending /\ v \in members)
    <2>1. call' = [call EXCEPT ![t] = Idle] /\ UNCHANGED received /\ CountsGrow
      BY <1>2 DEF Count, Return, CountsGrow
    <2>2. CallWeighed(Idle)
      BY DEF CallWeighed, Idle, CallRecord
    <2>3. CallsWeighed'
      BY <2>1, <2>2, CallMovesWeighed
    <2> QED
      BY <1>1, <2>1, <2>3, MapsWeighedKept, CreatorWeighedKept DEF InputsOK
  <1>3. CASE seq \in Pending /\ v \in members
    <2> DEFINE s == Signed(pending[seq], v)
               pc == IF HasQuorum(s.weight, s.total) THEN "finalize" ELSE "update"
               c == [pc |-> pc, seq |-> seq, snapshot |-> s]
    <2>1. /\ call' = [call EXCEPT ![t] = c]
          /\ received' = [received EXCEPT ![seq][v] = @ + 1]
      BY <1>3 DEF Count
    <2>2. received \in [Sequence -> [Validators -> Nat]] /\ members \subseteq Validators
      BY DEF InputsOK
    <2>3. /\ received' \in [Sequence -> [Validators -> Nat]]
          /\ received'[seq][v] = received[seq][v] + 1
          /\ \A n \in Sequence, w \in Validators :
               <<n, w>> # <<seq, v>> => received'[n][w] = received[n][w]
      <3>1. received' = [received EXCEPT ![seq] = [received[seq] EXCEPT ![v] = received[seq][v] + 1]]
        BY <1>1, <2>1, <2>2
      <3> HIDE DEF seq, v
      <3> QED
        BY <1>1, <2>2, <3>1
    <2>4. CountsGrow
      <3>1. received[seq][v] \in Nat
        BY <1>1, <2>2
      <3> HIDE DEF seq, v
      <3> QED
        BY <1>1, <2>3, <3>1 DEF CountsGrow
    <2>5. InputsOK'
      BY <1>1, <2>3 DEF InputsOK
    <2>6. MapsWeighed' /\ CreatorWeighed'
      BY <1>1, <2>4, MapsWeighedKept, CreatorWeighedKept
    <2>7. /\ SignersCounted(pending[seq], seq) /\ pending[seq] \in Snapshot
          /\ pending[seq].signers \in Seq(Validators) /\ seq \in Nat
      BY <1>3 DEF MapsWeighed, Weighed, Snapshot
    <2>8. /\ s \in Snapshot /\ s.signers = Append(pending[seq].signers, v)
          /\ NoRepeat(s.signers) => s.weight =< DistinctWeight(s.signers)
      <3> HIDE DEF seq, v
      <3> QED
        BY <1>1, <2>2, <2>7, SignedFacts
    <2>10. /\ pc \in {"update", "finalize"}
           /\ pc = "finalize" => QuorumOf(s)
      BY DEF QuorumOf
    <2>11. /\ c \in CallRecord /\ c.pc = pc /\ c.seq = seq /\ c.snapshot = s
      <3> HIDE DEF s, pc, seq
      <3> QED
        BY <2>7, <2>8, <2>10 DEF CallRecord
    <2> HIDE DEF s, pc, c
    <2>9. PICK d, r, n, w, old, list :
            /\ d = c /\ r = s /\ n = seq /\ w = v /\ old = pending[seq] /\ list = old.signers
      OBVIOUS
    <2>12. SignersCounted(r, n)'
      <3> HIDE DEF seq, v
      <3> QED
        BY <1>1, <2>2, <2>3, <2>4, <2>7, <2>8, <2>9, OneMoreCounted
    <2>13. /\ d \in CallRecord /\ d.pc \in {"update", "finalize"} /\ d.seq = n /\ d.snapshot = r
           /\ r \in Snapshot /\ (NoRepeat(r.signers) => r.weight =< DistinctWeight(r.signers))
           /\ d.pc = "finalize" => QuorumOf(r)
      BY <2>8, <2>9, <2>10, <2>11
    <2>14. CallWeighed(d)'
      BY <2>12, <2>13 DEF CallWeighed, Weighed, QuorumOf
    <2>15. DOMAIN call' = Threads /\ \A u \in Threads : call'[u] = IF u = t THEN c ELSE call[u]
      BY <1>1, <2>1
    <2>16. ASSUME NEW u \in Threads, u # t PROVE CallWeighed(call[u])'
      <3>1. PICK e : e = call[u] /\ e = call'[u] /\ CallWeighed(e)
        BY <2>15, <2>16 DEF CallsWeighed
      <3>2. CallWeighed(e)'
        BY <2>4, <3>1, CallWeighedKept
      <3> QED
        BY <3>1, <3>2 DEF CallWeighed, Weighed, SignersCounted, CountedAtLeast, QuorumOf
    <2>18. CallsWeighed'
      BY <2>9, <2>14, <2>15, <2>16
      DEF CallsWeighed, CallWeighed, Weighed, SignersCounted, CountedAtLeast, QuorumOf
    <2> QED
      BY <2>5, <2>6, <2>18
  <1> QED
    BY <1>2, <1>3

(* The steps after the count. *)
LEMMA CallProceeds ==
  ASSUME QuorumInv, NEW t \in Threads,
         Update(t) \/ Finalize(t) \/ RemovePending(t) \/ SetHeight(t) \/ StoreFinalized(t)
  PROVE  QuorumInv'
  <1> USE DEF QuorumInv
  <1>1. /\ call[t] \in [pc : {"update", "finalize", "remove", "height", "store"},
                        seq : Nat, snapshot : Snapshot]
        /\ call[t].seq \in Nat /\ call[t].snapshot \in Snapshot /\ DOMAIN call = Threads
    BY DEF Update, Finalize, RemovePending, SetHeight, StoreFinalized, At,
           CallsWeighed, CallWeighed, CallRecord
  <1>2. /\ UNCHANGED <<members, created, creator, received>>
        /\ current' \in {current, call[t].seq} /\ CountsGrow
    BY DEF Update, Finalize, RemovePending, SetHeight, StoreFinalized, CountsGrow
  <1>3. InputsOK' /\ CreatorWeighed'
    BY <1>1, <1>2, CreatorWeighedKept DEF InputsOK
  <1>4. CallsWeighed'
    <2>1. PICK c : /\ c \in {Idle, [call[t] EXCEPT !.pc = "remove"],
                             [call[t] EXCEPT !.pc = "height"], [call[t] EXCEPT !.pc = "store"]}
                   /\ call' = [call EXCEPT ![t] = c]
      <3>1. CASE Update(t) \/ StoreFinalized(t)
        BY <3>1 DEF Update, StoreFinalized, Return
      <3>2. CASE Finalize(t)
        BY <1>1, <3>2 DEF Finalize
      <3>3. CASE RemovePending(t)
        BY <1>1, <3>3 DEF RemovePending
      <3>4. CASE SetHeight(t)
        BY <1>1, <3>4 DEF SetHeight
      <3> QED
        BY <3>1, <3>2, <3>3, <3>4
    <2>2. CallWeighed(c)
      BY <1>1, <2>1 DEF CallWeighed, CallRecord, Idle
    <2> QED
      BY <1>2, <2>1, <2>2, CallMovesWeighed
  <1>5. MapsWeighed'
    <2>1. CASE Update(t)
      <3>1. /\ pending' = With(pending, call[t].seq, call[t].snapshot)
            /\ UNCHANGED <<finalized, stored>> /\ Weighed(call[t].snapshot, call[t].seq)
        BY <2>1 DEF Update, At, CallsWeighed, CallWeighed
      <3>2. PICK p : p = pending' /\ DOMAIN p \subseteq Nat
                     /\ \A n \in DOMAIN p : Weighed(p[n], n)
        BY <1>1, <3>1, InsertedWeighed DEF MapsWeighed, Pending, With
      <3> QED
        BY <1>2, <3>1, <3>2, NewMapsWeighed DEF MapsWeighed, Pending, Finalized
    <2>2. CASE Finalize(t)
      <3>1. /\ finalized' = With(finalized, call[t].seq, call[t].snapshot)
            /\ UNCHANGED <<pending, stored>> /\ Weighed(call[t].snapshot, call[t].seq)
            /\ QuorumOf(call[t].snapshot)
        BY <2>2 DEF Finalize, At, CallsWeighed, CallWeighed
      <3>2. PICK p : p = finalized' /\ DOMAIN p \subseteq Nat
                     /\ \A n \in DOMAIN p : Weighed(p[n], n) /\ QuorumOf(p[n])
        BY <1>1, <3>1 DEF MapsWeighed, Finalized, With
      <3> QED
        BY <1>2, <3>1, <3>2, NewMapsWeighed DEF MapsWeighed, Pending, Finalized
    <2>3. CASE RemovePending(t)
      <3>1. /\ pending' = [x \in Pending \ {call[t].seq} |-> pending[x]]
            /\ UNCHANGED <<finalized, stored>>
        BY <2>3 DEF RemovePending, Restrict
      <3>2. PICK p : p = pending' /\ DOMAIN p \subseteq Nat
                     /\ \A n \in DOMAIN p : Weighed(p[n], n)
        BY <3>1 DEF MapsWeighed, Pending
      <3> QED
        BY <1>2, <3>1, <3>2, NewMapsWeighed DEF MapsWeighed, Pending, Finalized
    <2>4. CASE SetHeight(t)
      BY <1>2, <2>4, MapsWeighedKept DEF SetHeight
    <2>5. CASE StoreFinalized(t)
      <3>1. /\ UNCHANGED <<pending, finalized>>
            /\ stored' \in {stored, With(stored, call[t].seq, call[t].snapshot)}
        BY <2>5 DEF StoreFinalized
      <3>2. DOMAIN stored' \subseteq Nat /\ \A n \in DOMAIN stored' : stored'[n] \in Snapshot
        BY <1>1, <3>1 DEF MapsWeighed, With
      <3> QED
        BY <1>2, <3>1, <3>2, NewMapsWeighed DEF MapsWeighed, Pending, Finalized
    <2> QED
      BY <2>1, <2>2, <2>3, <2>4, <2>5
  <1> QED
    BY <1>3, <1>4, <1>5

(* Every step of the engine keeps the invariant. *)
LEMMA QuorumStep == QuorumInv /\ [Next]_vars => QuorumInv'
  <1> SUFFICES ASSUME QuorumInv, [Next]_vars PROVE QuorumInv'
    OBVIOUS
  <1>1. CASE CreateSnapshot \/ CreationFails
    BY <1>1, CreatorQuorumStep
  <1>2. CASE \E t \in Threads, v \in Validators \ {Self}, seq \in Sequence : Call(t, v, seq)
    BY <1>2, CallStarts
  <1>3. CASE \E t \in Threads : AddSignature(t)
    BY <1>3, SignatureCounted, CallProceeds DEF AddSignature
  <1>4. ASSUME UNCHANGED <<mapVars, created, creator, call, received>>,
               members' \subseteq Validators
        PROVE  QuorumInv'
    <2>1. CountsGrow /\ UNCHANGED <<pending, finalized, stored, current>>
      BY <1>4 DEF CountsGrow, mapVars
    <2>2. CallsWeighed'
      BY <1>4 DEF QuorumInv, CallsWeighed, At, CallWeighed, Weighed, SignersCounted, CountedAtLeast, QuorumOf
    <2> QED
      BY <1>4, <2>1, <2>2, MapsWeighedKept, CreatorWeighedKept DEF QuorumInv, InputsOK
  <1>5. CASE \E v \in Validators : RemoveValidator(v) \/ AddValidator(v)
    <2>1. /\ UNCHANGED <<mapVars, created, creator, call, received>>
          /\ members' \subseteq Validators
      BY <1>5 DEF RemoveValidator, AddValidator, SetMembers, QuorumInv, InputsOK
    <2> QED
      BY <1>4, <2>1 DEF QuorumInv, InputsOK
  <1>6. CASE UNCHANGED vars
    BY <1>4, <1>6 DEF vars, QuorumInv, InputsOK
  <1> QED
    BY <1>1, <1>2, <1>3, <1>5, <1>6 DEF Next, Steady

LEMMA InitQuorumInv == Init => QuorumInv
  <1> SUFFICES ASSUME Init PROVE QuorumInv
    OBVIOUS
  <1>1. InputsOK
    BY BoundsAssumption DEF Init, InputsOK
  <1>2. MapsWeighed
    BY DEF Init, MapsWeighed, Pending, Finalized
  <1>3. CreatorWeighed
    BY DEF Init, CreatorWeighed, CreatorRecord, Ticking
  <1>4. CallsWeighed
    BY DEF Init, CallsWeighed, At, CallWeighed, CallRecord, Idle
  <1> QED
    BY <1>1, <1>2, <1>3, <1>4 DEF QuorumInv

(* Safety of the snapshot engine, for any number of concurrent signature    *)
(* calls next to the creator task, while validators join and leave and      *)
(* signatures are delivered any number of times: the signers of a finalized *)
(* snapshot that names none twice hold more than two thirds of the total    *)
(* stake of the moment it was weighed; it names one twice only if two of    *)
(* its signatures were counted; and all state has its type.                 *)
THEOREM QuorumSound == Spec => []FinalizedSoundly
  <1>1. QuorumInv => FinalizedSoundly
    <2> SUFFICES ASSUME QuorumInv PROVE FinalizedSoundly
      OBVIOUS
    <2>1. TypeOK
      BY DEF TypeOK, QuorumInv, InputsOK, MapsWeighed, CreatorWeighed, CallsWeighed,
             CallWeighed, Weighed
    <2>2. ASSUME NEW n \in Finalized
          PROVE  Weighed(finalized[n], n) /\ QuorumOf(finalized[n])
      BY DEF QuorumInv, MapsWeighed
    <2>3. ASSUME NEW n \in Finalized, IsInjective(finalized[n].signers)
          PROVE  SignedByQuorum(finalized[n])
      <3>1. finalized[n].signers \in Seq(Validators)
        BY <2>2 DEF Weighed, Snapshot
      <3>2. NoRepeat(finalized[n].signers)
        BY <2>3, <3>1 DEF IsInjective, NoRepeat
      <3>3. DistinctWeight(finalized[n].signers) \in Nat
        BY <3>1, <3>2, SignersWeight DEF QuorumInv, InputsOK
      <3>4. /\ finalized[n].weight \in Nat /\ finalized[n].total \in Nat
            /\ finalized[n].weight =< DistinctWeight(finalized[n].signers)
        BY <2>2, <3>2 DEF Weighed, Snapshot
      <3> QED
        BY <2>2, <3>3, <3>4 DEF QuorumOf, HasQuorum, SignedByQuorum
    <2>4. ASSUME NEW n \in Finalized, NEW i \in DOMAIN finalized[n].signers,
                 NEW j \in DOMAIN finalized[n].signers,
                 i # j, finalized[n].signers[i] = finalized[n].signers[j]
          PROVE  finalized[n].signers[i] # Self /\ received[n][finalized[n].signers[i]] >= 2
      BY <2>2, <2>4 DEF Weighed, SignersCounted, CountedAtLeast
    <2> QED
      BY <2>1, <2>3, <2>4 DEF FinalizedSoundly, QuorumUnlessRepeated
  <1>2. QuorumInv /\ [Next]_vars => QuorumInv'
    BY QuorumStep
  <1> QED
    BY InitQuorumInv, <1>1, <1>2, PTL DEF Spec
-----------------------------------------------------------------------------
(***************************************************************************)
(* The engine with one signature call at a time, a fixed validator set and *)
(* creations that do not fail: memory, store and height agree, what is     *)
(* finalized stays, and the engine implements the append-only log.  Either *)
(* this node alone is a quorum; then only the creator task finalizes, and  *)
(* nothing is ever pending.  Or it is not; then only the call does.  In    *)
(* both cases the finalizer's number is the next one, which is what fails  *)
(* when two calls overtake each other.                                     *)
(***************************************************************************)
OneThread == \A t, u \in Threads : t = u

OwnStake == IF Self \in Validators THEN Stake[Self] ELSE 0
OwnQuorum == HasQuorum(OwnStake, Total(Stake, Validators))

(* Between the insertion and the update of the height the newest finalized  *)
(* snapshot is one ahead of the height.                                     *)
Inserted == creator.pc = "height" \/ \E t \in Threads : call[t].pc \in {"remove", "height"}
Top == IF Inserted THEN current + 1 ELSE current

(* A previous digest that the log accepts for a sequence number, and a      *)
(* snapshot that it accepts.                                                *)
Links(p, seq) ==
  /\ p \in Digests \cup {NoDigest}
  /\ seq # 1 => seq - 1 \in Finalized /\ p = finalized[seq - 1].digest

Fits(s, seq) == seq \in 1..(current + 1) /\ s.digest \in Digests /\ Links(s.prev, seq)

MapsSerial ==
  /\ Finalized = 1..Top
  /\ \A s \in Finalized : finalized[s].digest \in Digests
  /\ \A s \in Pending : Fits(pending[s], s) /\ ~OwnQuorum
  /\ StoredAsFinalized

CreatorSerial ==
  /\ creator.pc \in {"execute", "number", "previous", "sign"} => created < MaxCreates
  /\ creator.pc \in {"previous", "sign"} => creator.seq \in 1..(current + 1)
  /\ creator.pc = "sign" => Links(creator.prev, creator.seq)
  /\ creator.pc \in {"decide", "pend", "finalize"} => Fits(creator.snapshot, creator.seq)
  /\ creator.pc = "decide" => "weight" \in DOMAIN creator.snapshot /\ creator.snapshot.weight = OwnStake
  /\ creator.pc = "pend" => ~OwnQuorum
  /\ creator.pc \in {"finalize", "height", "store"} => OwnQuorum
  /\ creator.pc \in {"previous", "sign", "decide", "finalize"} /\ OwnQuorum =>
       creator.seq = current + 1
  /\ creator.pc \in {"height", "store"} =>
       /\ {"pc", "seq", "snapshot"} \subseteq DOMAIN creator
       /\ creator.seq = Top
       /\ creator.seq \in Finalized /\ finalized[creator.seq] = creator.snapshot

CallSerial(c) ==
  /\ c.pc \in {"idle", "count"} \/ (~OwnQuorum /\ {"pc", "seq", "snapshot"} \subseteq DOMAIN c)
  /\ c.pc = "count" /\ ~OwnQuorum => c.seq \notin Finalized
  /\ c.pc \in {"update", "finalize"} => c.seq = current + 1 /\ Fits(c.snapshot, c.seq)
  /\ c.pc \in {"remove", "height"} => c.seq = current + 1
  /\ c.pc = "store" => c.seq = current
  /\ c.pc \in {"remove", "height", "store"} =>
       c.seq \in Finalized /\ finalized[c.seq] = c.snapshot

CallsSerial == \A t \in Threads : CallSerial(call[t])

(* The inductive invariant of the engine with one call at a time. *)
SerialInv ==
  /\ EngineInv
  /\ members = Validators /\ current \in Nat /\ created \in 0..MaxCreates
  /\ MapsSerial
  /\ CreatorSerial
  /\ CallsSerial

(* What the log promises of one step: the height does not fall, and what is *)
(* finalized stays as it is.                                                *)
Stays ==
  /\ current' \in Nat /\ current' >= current
  /\ \A s \in Finalized : s \in Finalized' /\ finalized'[s] = finalized[s]

(* The initial state has nothing finalized, pending or stored.              *)
LEMMA InitSerialInv == Init => SerialInv
  <1> SUFFICES ASSUME Init PROVE SerialInv
    OBVIOUS
  <1>1. EngineInv
    BY InitEngineInv
  <1>2. Finalized = {} /\ Pending = {} /\ DOMAIN stored = {} /\ current = 0 /\ created = 0
    BY DEF Init, Finalized, Pending
  <1>3. creator.pc = "tick" /\ \A t \in Threads : call[t].pc = "idle"
    BY DEF Init, Ticking, Idle
  <1>4. Top = 0
    BY <1>2, <1>3 DEF Top, Inserted
  <1>5. MapsSerial
    <2>1. 1..Top = {}
      BY <1>4
    <2> QED
      BY <2>1, <1>2 DEF MapsSerial, StoredAsFinalized
  <1>6. CreatorSerial /\ CallsSerial
    BY <1>3 DEF CreatorSerial, CallsSerial, CallSerial
  <1> QED
    BY <1>1, <1>2, <1>5, <1>6, BoundsAssumption DEF SerialInv, Init

(* With a fixed validator set the stakes are constants.                     *)
LEMMA OwnWeight ==
  ASSUME members = Validators
  PROVE  /\ StakeOf(Self) = OwnStake
         /\ OwnQuorum = HasQuorum(OwnStake, TotalStake)
  <1>1. StakeOf(Self) = OwnStake
    BY DEF StakeOf, OwnStake
  <1>2. TotalStake = Total(Stakes, Validators)
    BY TotalStakeIsTotal
  <1>3. \A v \in Validators : Stakes[v] = Stake[v]
    BY DEF Stakes, StakeOf
  <1>4. IntOn(Stakes, Validators) /\ IntOn(Stake, Validators)
    BY StakesFacts
  <1>5. Total(Stakes, Validators) = Total(Stake, Validators)
    BY <1>3, <1>4, TotalSame, ValidatorsAssumption
  <1> QED
    BY <1>1, <1>2, <1>5 DEF OwnQuorum

(* Links and fitting snapshots outlast a step that keeps what is finalized. *)
LEMMA LinksKept ==
  ASSUME Stays, NEW p, NEW seq, Links(p, seq)
  PROVE  Links(p, seq)'
  BY DEF Stays, Links

LEMMA FitsKept ==
  ASSUME Stays, current \in Nat, NEW s, NEW seq, Fits(s, seq)
  PROVE  Fits(s, seq)'
  <1>1. Links(s.prev, seq)'
    BY LinksKept DEF Fits
  <1>2. seq \in 1..(current + 1) /\ current' \in Nat /\ current' >= current
    BY DEF Fits, Stays
  <1>3. \A a, b \in Nat : a >= b => 1..(b + 1) \subseteq 1..(a + 1)
    OBVIOUS
  <1>4. seq \in 1..(current' + 1)
    BY <1>2, <1>3
  <1> QED
    BY <1>1, <1>2, <1>4 DEF Fits

(* With a single thread the other calls do not matter. *)
LEMMA OnlyCall ==
  ASSUME OneThread, DOMAIN call = Threads, NEW t \in Threads, NEW c,
         call' = [call EXCEPT ![t] = c], CallSerial(c)'
  PROVE  /\ CallsSerial'
         /\ Inserted' = (creator'.pc = "height" \/ c.pc \in {"remove", "height"})
  <1>1. \A u \in Threads : u = t /\ call'[u] = c
    BY DEF OneThread
  <1>2. CallsSerial'
    <2> SUFFICES ASSUME NEW u \in Threads PROVE CallSerial(call[u])'
      BY DEF CallsSerial
    <2>1. u = t /\ call'[u] = c
      BY <1>1
    <2> QED
      BY <2>1 DEF CallSerial, Fits, Links
  <1> QED
    BY <1>1, <1>2 DEF Inserted

(* The call as the only one that may have inserted a snapshot. *)
LEMMA CallInserted ==
  ASSUME OneThread, NEW t \in Threads
  PROVE  Inserted = (creator.pc = "height" \/ call[t].pc \in {"remove", "height"})
  BY DEF OneThread, Inserted

(* A step of the creator task that touches neither maps nor height. *)
LEMMA CreatorCarries ==
  ASSUME SerialInv, EngineInv', CreatorSerial', created' \in 0..MaxCreates,
         UNCHANGED <<members, current, pending, finalized, stored, call>>,
         (creator'.pc = "height") = (creator.pc = "height")
  PROVE  SerialInv'
  <1>1. Top' = Top
    BY DEF Top, Inserted
  <1>2. MapsSerial'
    BY <1>1 DEF SerialInv, MapsSerial, Finalized, Pending, Fits, Links, StoredAsFinalized
  <1>3. CallsSerial'
    BY DEF SerialInv, CallsSerial, CallSerial, Finalized, Fits, Links
  <1> QED
    BY <1>2, <1>3 DEF SerialInv

(* What the log sees of a step of the creator task: nothing, or the next    *)
(* snapshot.                                                                *)
Appended(seq, s) ==
  /\ seq = Top + 1 /\ Fits(s, seq)
  /\ finalized' = With(finalized, seq, s)

(* With nothing inserted yet, inserting the next number keeps the numbers   *)
(* and what is finalized.                                                   *)
LEMMA InsertNext ==
  ASSUME MapsSerial, current \in Nat, ~Inserted, Inserted',
         NEW s, Fits(s, current + 1), finalized' = With(finalized, current + 1, s),
         UNCHANGED <<current, pending, stored>>,
         Pending = {} \/ ~OwnQuorum
  PROVE  /\ Stays /\ MapsSerial' /\ current + 1 \in Finalized'
         /\ finalized'[current + 1] = s
  <1>1. Finalized = 1..current /\ Top' = current + 1
    BY DEF MapsSerial, Top
  <1>2. /\ Finalized' = Finalized \cup {current + 1} /\ Pending' = Pending
        /\ finalized'[current + 1] = s
        /\ \A x \in Finalized : x # current + 1 => finalized'[x] = finalized[x]
    BY DEF With, Finalized, Pending
  <1>3. current + 1 \notin Finalized
    BY <1>1
  <1>4. Stays
    BY <1>2, <1>3 DEF Stays
  <1>5. Finalized' = 1..Top'
    BY <1>1, <1>2
  <1>6. \A x \in Finalized' : finalized'[x].digest \in Digests
    BY <1>2, <1>3 DEF MapsSerial, Fits
  <1>7. ASSUME NEW x \in Pending' PROVE Fits(pending[x], x)' /\ ~OwnQuorum
    <2>1. Fits(pending[x], x) /\ ~OwnQuorum
      BY <1>2, <1>7 DEF MapsSerial
    <2>2. PICK p : p = pending[x] /\ Fits(p, x)
      BY <2>1
    <2>3. Fits(p, x)'
      BY <1>4, <2>2, FitsKept
    <2>4. p = pending'[x]
      BY <2>2
    <2> QED
      BY <2>1, <2>3, <2>4 DEF Fits, Links
  <1>8. StoredAsFinalized'
    BY <1>2, <1>3 DEF MapsSerial, StoredAsFinalized
  <1> QED
    BY <1>2, <1>4, <1>5, <1>6, <1>7, <1>8 DEF MapsSerial

(* Every step of the creator task keeps the invariant and what is finalized. *)
LEMMA CreatorSerialStep ==
  ASSUME OneThread, SerialInv, CreateSnapshot
  PROVE  SerialInv'
  <1> USE DEF SerialInv
  <1>0. /\ EngineInv' /\ members = Validators /\ current \in Nat /\ created \in Nat
        /\ MaxCreates \in Nat /\ "pc" \in DOMAIN creator
    BY CreatorStep, BoundsAssumption DEF EngineInv, CreatorOrdered
  <1>1. CASE Traverse
    <2>1. /\ creator' = [pc |-> "execute", batches |-> FirstBatches] /\ created < MaxCreates
          /\ UNCHANGED <<members, current, pending, finalized, stored, call, created>>
          /\ creator.pc # "height"
      BY <1>1 DEF Traverse, mapVars
    <2>2. CreatorSerial'
      BY <2>1 DEF CreatorSerial
    <2> QED
      BY <1>0, <2>1, <2>2, CreatorCarries
  <1>2. CASE Execute
    <2>1. /\ creator.pc = "execute"
          /\ creator' = IF HashBytes = DigestBytes THEN [creator EXCEPT !.pc = "number"]
                        ELSE [pc |-> "panicked"]
          /\ UNCHANGED <<members, current, pending, finalized, stored, call, created>>
      BY <1>2 DEF Execute, mapVars
    <2>2. creator'.pc \in {"number", "panicked"}
      BY <1>0, <2>1
    <2>3. CreatorSerial'
      BY <2>1, <2>2 DEF CreatorSerial
    <2> QED
      BY <1>0, <2>1, <2>2, <2>3, CreatorCarries
  <1>3. CASE Number
    <2>1. /\ creator.pc = "number"
          /\ creator' = [pc |-> "previous", batches |-> creator.batches, seq |-> current + 1]
          /\ UNCHANGED <<members, current, pending, finalized, stored, call, created>>
      BY <1>3 DEF Number, mapVars
    <2>2. creator'.seq = current' + 1 /\ creator'.seq \in 1..(current' + 1)
      BY <1>0, <2>1
    <2>3. CreatorSerial'
      BY <2>1, <2>2 DEF CreatorSerial
    <2> QED
      BY <1>0, <2>1, <2>3, CreatorCarries
  <1>4. CASE ReadPrevious
    <2>1. /\ creator.pc = "previous"
          /\ creator' = [pc |-> "sign", batches |-> creator.batches, seq |-> creator.seq,
                         prev |-> PreviousDigest(creator.seq)]
          /\ UNCHANGED <<members, current, pending, finalized, stored, call, created>>
      BY <1>4 DEF ReadPrevious, mapVars
    <2>2. creator.seq \in 1..(current + 1) /\ Follows(creator.seq)
      BY <2>1 DEF CreatorSerial, EngineInv, CreatorOrdered
    <2>3. creator.seq # 1 => creator.seq - 1 \in Finalized
      <3>1. creator.seq # 1 => creator.seq - 1 \in 1..(creator.seq - 1)
        BY <2>2 DEF Follows
      <3> QED
        BY <2>2, <3>1 DEF Follows
    <2>4. Links(PreviousDigest(creator.seq), creator.seq)
      BY <2>3 DEF Links, PreviousDigest, MapsSerial
    <2>5. /\ Links(creator.prev, creator.seq)'
          /\ creator'.pc = "sign" /\ creator'.seq = creator.seq
      <3>1. PICK p : p = PreviousDigest(creator.seq)
        OBVIOUS
      <3>2. creator'.prev = p /\ creator'.seq = creator.seq /\ creator'.pc = "sign"
        BY <2>1, <3>1
      <3>3. Links(p, creator.seq)
        BY <2>4, <3>1
      <3> QED
        BY <2>1, <3>2, <3>3 DEF Links, Finalized
    <2>6. CreatorSerial'
      BY <2>1, <2>2, <2>5 DEF CreatorSerial
    <2> QED
      BY <1>0, <2>1, <2>5, <2>6, CreatorCarries
  <1>5. CASE BuildSnapshot
    <2> DEFINE s == [digest |-> created + 1, prev |-> creator.prev, batches |-> creator.batches,
                     signers |-> OwnSignature, weight |-> StakeOf(Self), total |-> 0]
    <2>1. /\ creator.pc = "sign" /\ created' = created + 1
          /\ creator' = [pc |-> "decide", seq |-> creator.seq, snapshot |-> s]
          /\ UNCHANGED <<members, current, pending, finalized, stored, call>>
      BY <1>5 DEF BuildSnapshot, mapVars
    <2>2. /\ created < MaxCreates /\ creator.seq \in 1..(current + 1)
          /\ Links(creator.prev, creator.seq)
          /\ OwnQuorum => creator.seq = current + 1
      BY <2>1 DEF CreatorSerial
    <2>3. created + 1 \in Digests /\ created' \in 0..MaxCreates
      BY <1>0, <2>1, <2>2 DEF Digests
    <2>4. s.digest = created + 1 /\ s.prev = creator.prev /\ s.weight = OwnStake
          /\ "weight" \in DOMAIN s
      BY <1>0, OwnWeight
    <2> HIDE DEF s
    <2>5. Fits(s, creator.seq)
      BY <2>2, <2>3, <2>4 DEF Fits
    <2>6. PICK p : p = s
      OBVIOUS
    <2>7. Fits(p, creator.seq)'
      BY <2>1, <2>5, <2>6 DEF Fits, Links, Finalized
    <2>8. /\ creator'.pc = "decide" /\ creator'.seq = creator.seq /\ creator'.snapshot = p
          /\ p.weight = OwnStake /\ "weight" \in DOMAIN p
      BY <2>1, <2>4, <2>6
    <2>9. CreatorSerial'
      <3>1. Fits(creator.snapshot, creator.seq)'
        BY <2>7, <2>8 DEF Fits, Links
      <3> QED
        BY <2>1, <2>2, <2>8, <3>1 DEF CreatorSerial
    <2> QED
      BY <1>0, <2>1, <2>3, <2>8, <2>9, CreatorCarries
  <1>6. CASE Decide
    <2>1. /\ creator.pc = "decide"
          /\ creator' = [creator EXCEPT !.snapshot.total = TotalStake,
                           !.pc = IF HasQuorum(creator.snapshot.weight, TotalStake)
                                  THEN "finalize" ELSE "pend"]
          /\ UNCHANGED <<members, current, pending, finalized, stored, call, created>>
      BY <1>6 DEF Decide, mapVars
    <2>2. /\ Fits(creator.snapshot, creator.seq) /\ creator.snapshot.weight = OwnStake
          /\ OwnQuorum => creator.seq = current + 1
          /\ {"pc", "seq", "snapshot"} \subseteq DOMAIN creator
          /\ {"digest", "prev"} \subseteq DOMAIN creator.snapshot
      BY <2>1 DEF CreatorSerial, EngineInv, CreatorOrdered, Chained
    <2>3. creator'.pc = IF OwnQuorum THEN "finalize" ELSE "pend"
      BY <1>0, <2>1, <2>2, OwnWeight
    <2>4. /\ creator'.seq = creator.seq
          /\ creator'.snapshot.digest = creator.snapshot.digest
          /\ creator'.snapshot.prev = creator.snapshot.prev
      BY <2>1, <2>2
    <2>5. Fits(creator.snapshot, creator.seq)'
      BY <2>1, <2>2, <2>4 DEF Fits, Links, Finalized
    <2>6. CreatorSerial'
      BY <2>1, <2>2, <2>3, <2>4, <2>5 DEF CreatorSerial
    <2> QED
      BY <1>0, <2>1, <2>3, <2>6, CreatorCarries
  <1>7. CASE Pend
    <2>1. /\ Fits(creator.snapshot, creator.seq) /\ ~OwnQuorum /\ creator.pc = "pend"
          /\ pending' = With(pending, creator.seq, creator.snapshot)
          /\ creator' = Ticking
          /\ UNCHANGED <<members, finalized, current, stored, created, call>>
      BY <1>7 DEF Pend, CreatorSerial
    <2>2. Finalized' = Finalized /\ Top' = Top /\ Stays
      BY <1>0, <2>1 DEF Finalized, Top, Inserted, Ticking, Stays
    <2>3. MapsSerial'
      <3>1. ASSUME NEW x \in Pending' PROVE Fits(pending[x], x)'
        <4>1. /\ x \in Pending \/ x = creator.seq
              /\ pending'[x] = IF x = creator.seq THEN creator.snapshot ELSE pending[x]
          BY <2>1, <3>1 DEF With, Pending
        <4>2. PICK p : p = pending'[x] /\ Fits(p, x)
          BY <2>1, <4>1 DEF MapsSerial
        <4>3. Fits(p, x)'
          BY <1>0, <2>2, <4>2, FitsKept
        <4> QED
          BY <4>2, <4>3 DEF Fits, Links
      <3> QED
        BY <2>1, <2>2, <3>1 DEF MapsSerial, StoredAsFinalized
    <2>4. CreatorSerial'
      BY <2>1 DEF CreatorSerial, Ticking
    <2>5. CallsSerial'
      BY <2>1, <2>2 DEF CallsSerial, CallSerial, Fits, Links
    <2> QED
      BY <1>0, <2>1, <2>3, <2>4, <2>5
  <1>8. CASE FinalizeOwn
    <2>1. /\ creator.pc = "finalize" /\ OwnQuorum
          /\ creator.seq = current + 1 /\ Fits(creator.snapshot, creator.seq)
          /\ {"pc", "seq", "snapshot"} \subseteq DOMAIN creator
          /\ finalized' = With(finalized, creator.seq, creator.snapshot)
          /\ creator' = [creator EXCEPT !.pc = "height"]
          /\ UNCHANGED <<members, pending, current, stored, created, call>>
      BY <1>8 DEF FinalizeOwn, CreatorSerial, EngineInv, CreatorOrdered
    <2>2. \A t \in Threads : call[t].pc \in {"idle", "count"}
      BY <2>1 DEF CallsSerial, CallSerial
    <2>3. creator'.pc = "height" /\ creator'.seq = creator.seq /\ creator'.snapshot = creator.snapshot
          /\ DOMAIN creator' = DOMAIN creator
      BY <2>1
    <2>4. ~Inserted /\ Inserted' /\ Pending = {}
      BY <2>1, <2>2, <2>3 DEF Inserted, MapsSerial
    <2>5. Top' = current + 1
      BY <2>1, <2>4 DEF Top
    <2>6. PICK p : p = creator.snapshot
      OBVIOUS
    <2>7. Stays /\ MapsSerial' /\ current + 1 \in Finalized' /\ finalized'[current + 1] = p
      BY <1>0, <2>1, <2>4, <2>6, InsertNext
    <2>8. CreatorSerial'
      BY <2>1, <2>3, <2>5, <2>6, <2>7 DEF CreatorSerial
    <2>9. CallsSerial'
      BY <2>1, <2>2 DEF CallsSerial, CallSerial
    <2> QED
      BY <1>0, <2>1, <2>7, <2>8, <2>9
  <1>9. CASE RaiseHeight
    <2>1. /\ creator.pc = "height" /\ OwnQuorum
          /\ {"pc", "seq", "snapshot"} \subseteq DOMAIN creator
          /\ creator.seq = Top /\ creator.seq \in Finalized
          /\ finalized[creator.seq] = creator.snapshot
          /\ current' = creator.seq /\ creator' = [creator EXCEPT !.pc = "store"]
          /\ UNCHANGED <<members, pending, finalized, stored, created, call>>
      BY <1>9 DEF RaiseHeight, CreatorSerial
    <2>2. \A t \in Threads : call[t].pc \in {"idle", "count"}
      BY <2>1 DEF CallsSerial, CallSerial
    <2>3. creator'.pc = "store" /\ creator'.seq = creator.seq /\ creator'.snapshot = creator.snapshot
          /\ DOMAIN creator' = DOMAIN creator
      BY <2>1
    <2>4. Inserted /\ ~Inserted' /\ Pending = {}
      BY <2>1, <2>2, <2>3 DEF Inserted, MapsSerial
    <2>5. Top = current + 1 /\ Top' = current' /\ current' = Top
      BY <2>1, <2>4 DEF Top
    <2>6. Finalized' = Finalized /\ Pending' = {}
      BY <2>1, <2>4 DEF Finalized, Pending
    <2>7. MapsSerial'
      BY <2>1, <2>5, <2>6 DEF MapsSerial, StoredAsFinalized
    <2>8. CreatorSerial'
      BY <2>1, <2>3, <2>5, <2>6 DEF CreatorSerial
    <2>9. CallsSerial'
      BY <2>1, <2>2 DEF CallsSerial, CallSerial
    <2> QED
      BY <1>0, <2>1, <2>5, <2>7, <2>8, <2>9
  <1>10. CASE Store
    <2>1. /\ creator.pc = "store"
          /\ creator.seq \in Finalized /\ finalized[creator.seq] = creator.snapshot
          /\ stored' \in {stored, With(stored, creator.seq, creator.snapshot)}
          /\ creator' = Ticking
          /\ UNCHANGED <<members, pending, finalized, current, created, call>>
      BY <1>10 DEF Store, CreatorSerial
    <2>2. Finalized' = Finalized /\ Pending' = Pending /\ Top' = Top
      BY <2>1 DEF Finalized, Pending, Top, Inserted, Ticking
    <2>3. StoredAsFinalized'
      BY <2>1, <2>2 DEF MapsSerial, StoredAsFinalized, With
    <2>4. MapsSerial'
      BY <2>1, <2>2, <2>3 DEF MapsSerial, Fits, Links
    <2>5. CreatorSerial'
      BY <2>1 DEF CreatorSerial, Ticking
    <2>6. CallsSerial'
      BY <2>1, <2>2 DEF CallsSerial, CallSerial, Fits, Links
    <2> QED
      BY <1>0, <2>1, <2>4, <2>5, <2>6
  <1> QED
    BY <1>1, <1>2, <1>3, <1>4, <1>5, <1>6, <1>7, <1>8, <1>9, <1>10 DEF CreateSnapshot

(* A step of the call that leaves finalized_snapshots, the height and the   *)
(* creator task alone.                                                      *)
LEMMA CallCarries ==
  ASSUME OneThread, SerialInv, EngineInv', NEW t \in Threads, NEW c,
         call' = [call EXCEPT ![t] = c], CallSerial(c),
         UNCHANGED <<members, current, finalized, created, creator>>,
         c.pc \in {"remove", "height"} <=> call[t].pc \in {"remove", "height"},
         \A x \in Pending' : Fits(pending'[x], x) /\ ~OwnQuorum,
         StoredAsFinalized'
  PROVE  SerialInv'
  <1> USE DEF SerialInv
  <1>1. Finalized' = Finalized /\ DOMAIN call = Threads
    BY DEF Finalized, EngineInv, CallsOrdered
  <1>2. CallSerial(c)'
    BY <1>1 DEF CallSerial, Fits, Links
  <1>3. /\ CallsSerial'
        /\ Inserted' = (creator'.pc = "height" \/ c.pc \in {"remove", "height"})
    BY <1>1, <1>2, OnlyCall
  <1>4. Top' = Top
    BY <1>3, CallInserted DEF Top
  <1>5. MapsSerial'
    BY <1>1, <1>4 DEF MapsSerial, Fits, Links
  <1>6. CreatorSerial'
    BY <1>1, <1>4 DEF CreatorSerial, Fits, Links
  <1> QED
    BY <1>3, <1>5, <1>6

(* The creator task does not notice what the call finalizes: as the node is *)
(* no quorum, it finalizes nothing itself.                                  *)
LEMMA CreatorStays ==
  ASSUME CreatorSerial, Stays, current \in Nat, ~OwnQuorum, UNCHANGED <<creator, created>>
  PROVE  CreatorSerial'
  <1>1. creator.pc \in {"decide", "pend"} => Fits(creator.snapshot, creator.seq)'
    <2>1. PICK p, seq : p = creator.snapshot /\ seq = creator.seq
      OBVIOUS
    <2>2. creator.pc \in {"decide", "pend"} => Fits(p, seq)'
      BY <2>1, FitsKept DEF CreatorSerial
    <2> QED
      BY <2>1, <2>2 DEF Fits, Links
  <1>2. creator.pc = "sign" => Links(creator.prev, creator.seq)'
    <2>1. PICK p, seq : p = creator.prev /\ seq = creator.seq
      OBVIOUS
    <2>2. creator.pc = "sign" => Links(p, seq)'
      BY <2>1, LinksKept DEF CreatorSerial
    <2> QED
      BY <2>1, <2>2 DEF Links
  <1>3. 1..(current + 1) \subseteq 1..(current' + 1)
    <2>1. \A a, b \in Nat : a >= b => 1..(b + 1) \subseteq 1..(a + 1)
      OBVIOUS
    <2> QED
      BY <2>1 DEF Stays
  <1> QED
    BY <1>1, <1>2, <1>3 DEF CreatorSerial

(* Every step of a call keeps the invariant. *)
LEMMA CallSerialStep ==
  ASSUME OneThread, SerialInv, NEW t \in Threads,
         AddSignature(t) \/ \E v \in Validators, seq \in Sequence : Call(t, v, seq)
  PROVE  SerialInv'
  <1> USE DEF SerialInv
  <1>0. /\ EngineInv' /\ members = Validators /\ current \in Nat /\ created \in Nat
        /\ CallSerial(call[t]) /\ DOMAIN call = Threads
        /\ Inserted = (creator.pc = "height" \/ call[t].pc \in {"remove", "height"})
    BY CallStep, CallInserted DEF EngineInv, CallsOrdered, CallsSerial
  <1>1. ASSUME NEW v \in Validators, NEW seq \in Sequence, Call(t, v, seq)
        PROVE  SerialInv'
    <2> DEFINE c == [pc |-> "count", validator |-> v, seq |-> seq]
    <2>1. /\ UNCHANGED <<members, current, pending, finalized, stored, created, creator>>
          /\ call' = [call EXCEPT ![t] = c]
          /\ seq \notin Finalized /\ call[t].pc = "idle"
      BY <1>1 DEF Call, At, mapVars
    <2>2. CallSerial(c) /\ c.pc = "count"
      BY <2>1 DEF CallSerial
    <2> HIDE DEF c
    <2>3. /\ \A x \in Pending' : Fits(pending'[x], x) /\ ~OwnQuorum
          /\ StoredAsFinalized'
      BY <2>1 DEF MapsSerial, StoredAsFinalized, Pending, Finalized
    <2> QED
      BY <1>0, <2>1, <2>2, <2>3, CallCarries
  <1>2. CASE Count(t)
    <2>1. /\ UNCHANGED <<members, current, pending, finalized, stored, created, creator>>
          /\ call[t].pc = "count"
      BY <1>2 DEF Count, At, mapVars
    <2>2. /\ \A x \in Pending' : Fits(pending'[x], x) /\ ~OwnQuorum
          /\ StoredAsFinalized'
      BY <2>1 DEF MapsSerial, StoredAsFinalized, Pending, Finalized
    <2>3. PICK c : /\ call' = [call EXCEPT ![t] = c] /\ CallSerial(c)
                   /\ c.pc \notin {"remove", "height"}
      <3> DEFINE v == call[t].validator
                 seq == call[t].seq
                 s == Signed(pending[seq], v)
                 moved == [pc |-> IF HasQuorum(s.weight, s.total) THEN "finalize" ELSE "update",
                           seq |-> seq, snapshot |-> s]
      <3>1. CASE seq \in Pending /\ v \in members
        <4>1. call' = [call EXCEPT ![t] = moved]
          BY <1>2, <3>1 DEF Count
        <4>2. /\ ~OwnQuorum /\ Fits(pending[seq], seq) /\ seq \notin Finalized
              /\ {"digest", "prev"} \subseteq DOMAIN pending[seq]
          BY <1>0, <2>1, <3>1 DEF MapsSerial, CallSerial, EngineInv, SnapshotsChained, Chained
        <4>3. seq = current + 1
          <5>1. Top = current
            BY <1>0, <2>1, <4>2 DEF Top, CreatorSerial
          <5>2. seq \in 1..(current + 1) /\ seq \notin 1..current
            BY <4>2, <5>1 DEF Fits, MapsSerial
          <5> QED
            BY <1>0, <5>2
        <4>4. s.digest = pending[seq].digest /\ s.prev = pending[seq].prev
          BY <4>2 DEF Signed
        <4>5. /\ moved.pc \in {"finalize", "update"} /\ moved.seq = seq /\ moved.snapshot = s
              /\ DOMAIN moved = {"pc", "seq", "snapshot"}
          OBVIOUS
        <4>6. Fits(moved.snapshot, moved.seq)
          <5> HIDE DEF s, seq, moved
          <5> QED
            BY <4>2, <4>4, <4>5 DEF Fits
        <4>7. CallSerial(moved)
          <5> HIDE DEF s, seq, moved
          <5> QED
            BY <4>2, <4>3, <4>5, <4>6 DEF CallSerial
        <4>8. PICK m : m = moved
          OBVIOUS
        <4>9. CallSerial(m) /\ m.pc \notin {"remove", "height"} /\ call' = [call EXCEPT ![t] = m]
          <5> HIDE DEF moved
          <5> QED
            BY <4>1, <4>5, <4>7, <4>8
        <4> QED
          BY <4>9
      <3>2. CASE ~(seq \in Pending /\ v \in members)
        <4>1. call' = [call EXCEPT ![t] = Idle]
          BY <1>2, <3>2 DEF Count, Return
        <4>2. CallSerial(Idle) /\ Idle.pc = "idle"
          BY DEF CallSerial, Idle
        <4> QED
          BY <4>1, <4>2
      <3> QED
        BY <3>1, <3>2
    <2> QED
      BY <1>0, <2>1, <2>2, <2>3, CallCarries
  <1>3. CASE Update(t)
    <2>1. /\ call[t].pc = "update" /\ ~OwnQuorum /\ Fits(call[t].snapshot, call[t].seq)
          /\ UNCHANGED <<members, current, finalized, stored, created, creator>>
          /\ pending' = With(pending, call[t].seq, call[t].snapshot)
          /\ call' = [call EXCEPT ![t] = Idle]
      BY <1>0, <1>3 DEF Update, At, Return, CallSerial
    <2>2. \A x \in Pending' : Fits(pending'[x], x) /\ ~OwnQuorum
      BY <2>1 DEF MapsSerial, With, Pending
    <2>3. StoredAsFinalized'
      BY <2>1 DEF MapsSerial, StoredAsFinalized, Finalized
    <2>4. CallSerial(Idle) /\ Idle.pc = "idle"
      BY DEF CallSerial, Idle
    <2> QED
      BY <1>0, <2>1, <2>2, <2>3, <2>4, CallCarries
  <1>4. CASE Finalize(t)
    <2>1. /\ call[t].pc = "finalize" /\ ~OwnQuorum
          /\ call[t].seq = current + 1 /\ Fits(call[t].snapshot, call[t].seq)
          /\ {"pc", "seq", "snapshot"} \subseteq DOMAIN call[t]
          /\ UNCHANGED <<members, current, pending, stored, created, creator>>
          /\ finalized' = With(finalized, call[t].seq, call[t].snapshot)
          /\ call' = [call EXCEPT ![t] = [call[t] EXCEPT !.pc = "remove"]]
      BY <1>0, <1>4 DEF Finalize, At, CallSerial
    <2>2. PICK c : c = [call[t] EXCEPT !.pc = "remove"]
      OBVIOUS
    <2>3. /\ c.pc = "remove" /\ c.seq = current + 1 /\ c.snapshot = call[t].snapshot
          /\ {"pc", "seq", "snapshot"} \subseteq DOMAIN c
      BY <2>1, <2>2
    <2>4. ~Inserted
      BY <1>0, <2>1 DEF CreatorSerial
    <2>5. call' = [call EXCEPT ![t] = c] /\ Inserted'
      BY <1>0, <2>1, <2>2, <2>3 DEF Inserted
    <2>6. PICK s : s = call[t].snapshot
      OBVIOUS
    <2>7. Stays /\ MapsSerial' /\ current + 1 \in Finalized' /\ finalized'[current + 1] = s
      BY <1>0, <2>1, <2>4, <2>5, <2>6, InsertNext
    <2>8. CallSerial(c)'
      BY <2>1, <2>3, <2>6, <2>7 DEF CallSerial
    <2>9. CallsSerial'
      BY <1>0, <2>5, <2>8, OnlyCall
    <2>10. CreatorSerial'
      BY <1>0, <2>1, <2>7, CreatorStays
    <2> QED
      BY <1>0, <2>1, <2>7, <2>9, <2>10
  <1>5. CASE RemovePending(t)
    <2>1. /\ call[t].pc = "remove" /\ ~OwnQuorum
          /\ {"pc", "seq", "snapshot"} \subseteq DOMAIN call[t]
          /\ call[t].seq = current + 1 /\ call[t].seq \in Finalized
          /\ finalized[call[t].seq] = call[t].snapshot
          /\ UNCHANGED <<members, current, finalized, stored, created, creator>>
          /\ pending' = [x \in Pending \ {call[t].seq} |-> pending[x]]
          /\ call' = [call EXCEPT ![t] = [call[t] EXCEPT !.pc = "height"]]
      BY <1>0, <1>5 DEF RemovePending, Restrict, At, CallSerial
    <2>2. PICK c : c = [call[t] EXCEPT !.pc = "height"]
      OBVIOUS
    <2>3. /\ c.pc = "height" /\ c.seq = call[t].seq /\ c.snapshot = call[t].snapshot
          /\ {"pc", "seq", "snapshot"} \subseteq DOMAIN c
      BY <2>1, <2>2
    <2>4. call' = [call EXCEPT ![t] = c] /\ CallSerial(c)
      BY <2>1, <2>2, <2>3 DEF CallSerial
    <2>5. \A x \in Pending' : Fits(pending'[x], x) /\ ~OwnQuorum
      BY <2>1 DEF MapsSerial, Pending
    <2>6. StoredAsFinalized'
      BY <2>1 DEF MapsSerial, StoredAsFinalized, Finalized
    <2> QED
      BY <1>0, <2>1, <2>3, <2>4, <2>5, <2>6, CallCarries
  <1>6. CASE SetHeight(t)
    <2>1. /\ call[t].pc = "height" /\ ~OwnQuorum
          /\ {"pc", "seq", "snapshot"} \subseteq DOMAIN call[t]
          /\ call[t].seq = current + 1 /\ call[t].seq \in Finalized
          /\ finalized[call[t].seq] = call[t].snapshot
          /\ UNCHANGED <<members, finalized, pending, stored, created, creator>>
          /\ current' = call[t].seq
          /\ call' = [call EXCEPT ![t] = [call[t] EXCEPT !.pc = "store"]]
      BY <1>0, <1>6 DEF SetHeight, At, CallSerial
    <2>2. PICK c : c = [call[t] EXCEPT !.pc = "store"]
      OBVIOUS
    <2>3. /\ c.pc = "store" /\ c.seq = current' /\ c.snapshot = call[t].snapshot
          /\ {"pc", "seq", "snapshot"} \subseteq DOMAIN c
          /\ call' = [call EXCEPT ![t] = c]
      BY <2>1, <2>2
    <2>4. CallSerial(c)'
      BY <2>1, <2>3 DEF CallSerial, Finalized
    <2>5. CallsSerial' /\ ~Inserted' /\ Inserted
      BY <1>0, <2>1, <2>3, <2>4, OnlyCall DEF CreatorSerial
    <2>6. Top' = Top /\ Stays
      BY <1>0, <2>1, <2>5 DEF Top, Stays, Finalized
    <2>7. CreatorSerial'
      BY <1>0, <2>1, <2>6, CreatorStays
    <2>8. ASSUME NEW x \in Pending' PROVE Fits(pending[x], x)'
      <3>1. PICK p : p = pending[x] /\ Fits(p, x)
        BY <2>1 DEF MapsSerial, Pending
      <3>2. Fits(p, x)'
        BY <1>0, <2>6, <3>1, FitsKept
      <3> QED
        BY <2>1, <3>1, <3>2 DEF Fits, Links
    <2>9. MapsSerial'
      BY <2>1, <2>6, <2>8 DEF MapsSerial, StoredAsFinalized, Finalized
    <2> QED
      BY <1>0, <2>1, <2>5, <2>7, <2>9
  <1>7. CASE StoreFinalized(t)
    <2>1. /\ call[t].pc = "store" /\ call[t].seq \in Finalized
          /\ finalized[call[t].seq] = call[t].snapshot
          /\ UNCHANGED <<members, current, finalized, pending, created, creator>>
          /\ stored' \in {stored, With(stored, call[t].seq, call[t].snapshot)}
          /\ call' = [call EXCEPT ![t] = Idle]
      BY <1>0, <1>7 DEF StoreFinalized, At, Return, CallSerial
    <2>2. StoredAsFinalized'
      BY <2>1 DEF MapsSerial, StoredAsFinalized, With, Finalized
    <2>3. \A x \in Pending' : Fits(pending'[x], x) /\ ~OwnQuorum
      BY <2>1 DEF MapsSerial, Pending
    <2>4. CallSerial(Idle) /\ Idle.pc = "idle"
      BY DEF CallSerial, Idle
    <2> QED
      BY <1>0, <2>1, <2>2, <2>3, <2>4, CallCarries
  <1> QED
    BY <1>1, <1>2, <1>3, <1>4, <1>5, <1>6, <1>7 DEF AddSignature

(* Every step of the steady engine keeps the invariant. *)
LEMMA SerialStep == OneThread /\ SerialInv /\ [Steady]_vars => SerialInv'
  <1> SUFFICES ASSUME OneThread, SerialInv, [Steady]_vars
               PROVE  SerialInv'
    OBVIOUS
  <1>1. CASE CreateSnapshot
    BY <1>1, CreatorSerialStep
  <1>2. CASE \E t \in Threads, v \in Validators \ {Self}, seq \in Sequence : Call(t, v, seq)
    BY <1>2, CallSerialStep
  <1>3. CASE \E t \in Threads : AddSignature(t)
    BY <1>3, CallSerialStep
  <1>4. ASSUME UNCHANGED <<members, mapVars, created, creator, call>>
        PROVE  SerialInv'
    <2>1. UNCHANGED <<members, current, pending, finalized, stored, created, creator, call>>
      BY <1>4 DEF mapVars
    <2>2. EngineInv'
      <3>1. Finalized' = Finalized
        BY <2>1 DEF Finalized
      <3> QED
        BY <2>1, <3>1, MapsKept, CreatorKept, CallsKept DEF SerialInv, EngineInv
    <2>3. CreatorSerial'
      BY <2>1 DEF SerialInv, CreatorSerial, Finalized, Fits, Links, Top, Inserted
    <2> QED
      BY <2>1, <2>2, <2>3, CreatorCarries DEF SerialInv
  <1>5. CASE UNCHANGED vars
    BY <1>4, <1>5 DEF vars
  <1> QED
    BY <1>1, <1>2, <1>3, <1>5 DEF Steady

(* What a step does to finalized_snapshots: nothing, or it inserts a fitting *)
(* snapshot under the number after the newest one.  The height follows.     *)
LEMMA LogMoves ==
  ASSUME OneThread, SerialInv, [Steady]_vars
  PROVE  /\ current' \in Nat /\ current' >= current
         /\ \/ finalized' = finalized
            \/ \E s : Fits(s, Top + 1) /\ finalized' = With(finalized, Top + 1, s)
  <1> USE DEF SerialInv
  <1>1. ASSUME UNCHANGED <<current, finalized>>
        PROVE  /\ current' \in Nat /\ current' >= current /\ finalized' = finalized
    BY <1>1
  <1>2. CASE FinalizeOwn
    <2>1. /\ creator.pc = "finalize" /\ OwnQuorum /\ current' = current
          /\ creator.seq = current + 1 /\ Fits(creator.snapshot, creator.seq)
          /\ finalized' = With(finalized, creator.seq, creator.snapshot)
      BY <1>2 DEF FinalizeOwn, CreatorSerial
    <2>2. \A t \in Threads : call[t].pc \in {"idle", "count"}
      BY <2>1 DEF CallsSerial, CallSerial
    <2>3. Top = current
      BY <2>1, <2>2 DEF Top, Inserted
    <2> QED
      BY <2>1, <2>3
  <1>3. CASE RaiseHeight
    <2>1. /\ creator.pc = "height" /\ creator.seq = Top
          /\ current' = creator.seq /\ finalized' = finalized
      BY <1>3 DEF RaiseHeight, CreatorSerial
    <2>2. Top = current + 1
      BY <2>1 DEF Top, Inserted
    <2> QED
      BY <2>1, <2>2
  <1>4. ASSUME NEW t \in Threads, Finalize(t) \/ SetHeight(t)
        PROVE  /\ current' \in Nat /\ current' >= current
               /\ \/ finalized' = finalized
                  \/ \E s : Fits(s, Top + 1) /\ finalized' = With(finalized, Top + 1, s)
    <2>1. CallSerial(call[t])
      BY DEF CallsSerial
    <2>2. CASE Finalize(t)
      <3>1. /\ call[t].pc = "finalize" /\ ~OwnQuorum /\ current' = current
            /\ call[t].seq = current + 1 /\ Fits(call[t].snapshot, call[t].seq)
            /\ finalized' = With(finalized, call[t].seq, call[t].snapshot)
        BY <2>1, <2>2 DEF Finalize, At, CallSerial
      <3>2. Top = current
        BY <3>1, CallInserted DEF Top, CreatorSerial
      <3> QED
        BY <3>1, <3>2
    <2>3. CASE SetHeight(t)
      <3>1. call[t].seq = current + 1 /\ current' = call[t].seq /\ finalized' = finalized
        BY <2>1, <2>3 DEF SetHeight, At, CallSerial
      <3> QED
        BY <3>1
    <2> QED
      BY <1>4, <2>2, <2>3
  <1>5. CASE \/ Traverse \/ Execute \/ Number \/ ReadPrevious \/ BuildSnapshot \/ Decide
             \/ Pend \/ Store
    BY <1>1, <1>5 DEF Traverse, Execute, Number, ReadPrevious, BuildSnapshot, Decide, Pend, Store,
                      mapVars
  <1>6. CASE \E t \in Threads : Count(t) \/ Update(t) \/ RemovePending(t) \/ StoreFinalized(t)
    BY <1>1, <1>6 DEF Count, Update, RemovePending, StoreFinalized, mapVars
  <1>7. CASE \/ UNCHANGED vars
             \/ \E t \in Threads, v \in Validators \ {Self}, seq \in Sequence : Call(t, v, seq)
    BY <1>1, <1>7 DEF vars, mapVars, Call
  <1> QED
    BY <1>2, <1>3, <1>4, <1>5, <1>6, <1>7 DEF Steady, CreateSnapshot, AddSignature

(* Safety of the snapshot engine, for signature calls that come one at a    *)
(* time: the store holds no other snapshot than memory, and at rest the     *)
(* height is the newest finalized snapshot.                                 *)
THEOREM StoreAgrees ==
  ASSUME OneThread
  PROVE  SteadySpec => []StoreAndHeightAgree
  <1>1. SerialInv => StoreAndHeightAgree
    <2> SUFFICES ASSUME SerialInv PROVE StoreAndHeightAgree
      OBVIOUS
    <2>1. StoredAsFinalized
      BY DEF SerialInv, MapsSerial
    <2>2. ASSUME AtRest PROVE \A s \in Finalized : s =< current
      <3>1. Top = current
        BY <2>2 DEF AtRest, At, Top, Inserted
      <3> QED
        BY <3>1 DEF SerialInv, MapsSerial
    <2> QED
      BY <2>1, <2>2 DEF StoreAndHeightAgree, LatestIsNewest
  <1>2. SerialInv /\ [Steady]_vars => SerialInv'
    BY SerialStep
  <1> QED
    BY InitSerialInv, <1>1, <1>2, PTL DEF SteadySpec

(* Action property of the snapshot engine, for signature calls that come    *)
(* one at a time: a finalized snapshot never changes, not even when the     *)
(* creator task pends or finalizes another of the same number, and the      *)
(* height never falls.                                                      *)
THEOREM EngineFinalityIsStable ==
  ASSUME OneThread
  PROVE  SteadySpec => FinalityStable
  <1>1. ASSUME SerialInv, [Steady]_vars
        PROVE  /\ current' >= current
               /\ \A s \in Finalized : s \in Finalized' /\ finalized'[s] = finalized[s]
    <2>1. Top + 1 \notin Finalized
      <3>1. Top \in Nat
        BY <1>1 DEF SerialInv, Top
      <3> QED
        BY <1>1, <3>1 DEF SerialInv, MapsSerial
    <2>2. /\ current' >= current
          /\ \/ finalized' = finalized
             \/ \E s : finalized' = With(finalized, Top + 1, s)
      BY <1>1, LogMoves
    <2> QED
      BY <2>1, <2>2 DEF With, Finalized
  <1>2. SerialInv /\ [Steady]_vars => SerialInv'
    BY SerialStep
  <1>3. SerialInv /\ [Steady]_vars =>
          [/\ current' >= current
           /\ \A s \in Finalized : s \in Finalized' /\ finalized'[s] = finalized[s]]_vars
    BY <1>1
  <1> QED
    BY InitSerialInv, <1>2, <1>3, PTL DEF SteadySpec, FinalityStable

(* Refinement, for signature calls that come one at a time: the engine is   *)
(* an append-only log of finalized snapshots.  An insertion, by the creator *)
(* task or by the call, appends; every other step stutters.                 *)
THEOREM EngineImplementsLog ==
  ASSUME OneThread
  PROVE  SteadySpec => ImplementsLog
  <1>1. Init => Log!Init
    <2>1. Init => Finalized = {}
      BY DEF Init, Finalized
    <2> QED
      BY <2>1, FS_EmptySet DEF Log!Init
  <1>2. ASSUME SerialInv, [Steady]_vars
        PROVE  [Log!Next]_(Log!logVars)
    <2>1. CASE finalized' = finalized
      BY <2>1 DEF Log!logVars, Finalized
    <2>2. ASSUME NEW s, Fits(s, Top + 1), finalized' = With(finalized, Top + 1, s)
          PROVE  Log!Next
      <3> DEFINE n == Top + 1
                 entries == [i \in Finalized |->
                               [digest |-> finalized[i].digest, prev |-> finalized[i].prev]]
      <3>1. Top \in Nat /\ Finalized = 1..Top
        BY <1>2 DEF SerialInv, Top, MapsSerial
      <3>2. /\ Finalized' = Finalized \cup {n} /\ n \notin Finalized /\ finalized'[n] = s
            /\ \A i \in Finalized : finalized'[i] = finalized[i]
        BY <2>2, <3>1 DEF With, Finalized
      <3>3. /\ Cardinality(Finalized) = Top
            /\ Cardinality(Finalized)' = Top + 1
        <4>1. IsFiniteSet(Finalized) /\ Cardinality(Finalized) = Top
          BY <3>1, FS_Interval
        <4>2. Cardinality(Finalized \cup {n}) = Cardinality(Finalized) + 1
          BY <3>2, <4>1, FS_AddElement
        <4> QED
          BY <3>2, <4>1, <4>2
      <3>4. s.digest \in Digests /\ s.prev \in Digests \cup {NoDigest} /\ Links(s.prev, n)
        BY <2>2 DEF Fits, Links
      <3>5. s.prev \in Log!Previous
        <4>1. CASE Top = 0
          <5>1. Top \notin Finalized
            BY <3>1, <4>1
          <5> QED
            BY <3>3, <3>4, <5>1 DEF Log!Previous
        <4>2. CASE Top # 0
          <5>1. Top \in Finalized /\ n # 1 /\ n - 1 = Top
            BY <3>1, <4>2
          <5>2. s.prev = finalized[Top].digest
            BY <3>4, <5>1 DEF Links
          <5>3. entries[Top].digest = finalized[Top].digest
            BY <5>1
          <5> QED
            BY <3>3, <5>1, <5>2, <5>3 DEF Log!Previous
        <4> QED
          BY <4>1, <4>2
      <3>6. entries' = [i \in Finalized \cup {n} |->
                          IF i = n THEN [digest |-> s.digest, prev |-> s.prev] ELSE entries[i]]
        BY <3>2
      <3>7. Log!Append(s.digest, s.prev)
        BY <3>3, <3>5, <3>6 DEF Log!Append
      <3> QED
        BY <3>4, <3>7 DEF Log!Next
    <2> QED
      BY <1>2, <2>1, <2>2, LogMoves
  <1>3. SerialInv /\ [Steady]_vars => SerialInv'
    BY SerialStep
  <1> QED
    BY InitSerialInv, <1>1, <1>2, <1>3, PTL DEF SteadySpec, ImplementsLog, Log!Spec
=============================================================================
