--------------------------- MODULE CascadeProofs -----------------------------
(***************************************************************************)
(* For any number of workers and transactions and any limits:              *)
(* - own batches are inserted after their parents.  OwnBatchesLinked is    *)
(*   not inductive: a batch is linked because the tips that a worker read  *)
(*   before it built the batch were in the graph, and the mempool removes  *)
(*   nothing from the graph until the batch has waited in the channel and  *)
(*   is inserted;                                                          *)
(* - no submission is batched twice and both limits are kept, because a    *)
(*   collection cuts the channel into pieces that stay apart;              *)
(* - no submission is lost but in a failed build.                          *)
(***************************************************************************)
EXTENDS Cascade, SequenceTheorems, Sums, TLAPS

Present == Graph!Present

PresentAuthored == Present \subseteq Graph!Authored

VerticesSound == \A p \in Present : "children" \in DOMAIN vertices[p]

(* What a worker read stays in the graph. *)
ParentsRead == DOMAIN worker = Workers /\ \A w \in Workers : worker[w].parents \subseteq Present

OwnBatchesTyped == DOMAIN content \subseteq Graph!Authored /\ outbox \in Seq(DOMAIN content)

OwnParentsPresent == \A b \in DOMAIN content : prev[b] \subseteq Present

OwnLinked == \A b \in DOMAIN content \cap Present : Graph!Linked(b)

LinkInv ==
  /\ tips \subseteq Present /\ PresentAuthored /\ VerticesSound
  /\ ParentsRead /\ OwnBatchesTyped /\ OwnParentsPresent /\ OwnLinked

-----------------------------------------------------------------------------
LEMMA LinkInitInv == Init => LinkInv
<1> SUFFICES ASSUME Init PROVE LinkInv
  OBVIOUS
<1>1. << >> \in Seq({}) /\ DOMAIN << >> = {}
  OBVIOUS
<1>2. Present = {} /\ DOMAIN content = {} /\ tips = {} /\ outbox = << >>
  BY <1>1 DEF Init, Graph!Init, Graph!Present, Present
<1>3. ParentsRead
  BY DEF Init, ParentsRead, Idle
<1> QED
  BY <1>1, <1>2, <1>3 DEF LinkInv, PresentAuthored, VerticesSound, OwnBatchesTyped, OwnParentsPresent, OwnLinked

(* An insertion keeps what is present and every link, and links an own      *)
(* batch, whose parents are present.                                        *)
LEMMA InsertionKeepsLinks ==
  ASSUME LinkInv, NEW b, Graph!AddBatch(b), UNCHANGED <<worker, content>>,
         outbox' \in Seq(DOMAIN content)
  PROVE  LinkInv'
<1>1. /\ Present' = Present \cup {b} /\ b \notin Present /\ prev' = prev
      /\ vertices' = Graph!Inserted(b) /\ tips' \subseteq tips \cup {b}
  BY DEF Graph!AddBatch, Graph!ContainsBatch, Graph!Inserted, Graph!Present, Present
<1>2. /\ vertices'[b] = Graph!NewVertex(b)
      /\ \A p \in Present : vertices'[p] =
           IF p \in prev[b] THEN [vertices[p] EXCEPT !.children = @ \cup {b}] ELSE vertices[p]
  BY <1>1 DEF Graph!Inserted, Graph!WithChild, Graph!Present, Present
<1>3. ASSUME NEW p \in Present
      PROVE  /\ "children" \in DOMAIN vertices'[p] /\ vertices[p].children \subseteq vertices'[p].children
             /\ p \in prev[b] => b \in vertices'[p].children
  <2>1. "children" \in DOMAIN vertices[p]
    BY DEF LinkInv, VerticesSound
  <2> QED
    BY <1>2, <2>1
<1>4. VerticesSound'
  <2>1. "children" \in DOMAIN vertices'[b]
    BY <1>2 DEF Graph!NewVertex
  <2> QED
    BY <1>1, <1>3, <2>1 DEF VerticesSound
<1>5. /\ tips' \subseteq Present' /\ PresentAuthored'
      /\ ParentsRead' /\ OwnBatchesTyped' /\ OwnParentsPresent'
  BY <1>1 DEF Graph!AddBatch, PresentAuthored, LinkInv, ParentsRead, OwnBatchesTyped, OwnParentsPresent, Graph!Authored
<1>6. OwnLinked'
  <2> SUFFICES ASSUME NEW c \in DOMAIN content, c \in Present', NEW p \in prev[c]
               PROVE  p \in Present' /\ c \in vertices'[p].children
    BY <1>1 DEF OwnLinked, Graph!Linked, Graph!LinkedTo, Present
  <2>1. p \in Present
    BY DEF LinkInv, OwnParentsPresent
  <2>2. CASE c = b
    BY <1>1, <1>3, <2>1, <2>2
  <2>3. CASE c # b
    <3>1. c \in vertices[p].children
      BY <1>1, <2>3 DEF LinkInv, OwnLinked, Graph!Linked, Graph!LinkedTo
    <3> QED
      BY <1>1, <1>3, <2>1, <3>1
  <2> QED
    BY <2>2, <2>3
<1> QED
  BY <1>4, <1>5, <1>6 DEF LinkInv

(* A step that leaves the graph, the batches and the parents that were read *)
(* as they are.                                                             *)
LEMMA OtherStepKeepsLinks ==
  ASSUME LinkInv, UNCHANGED <<prev, vertices, tips, content>>, outbox' \in Seq(DOMAIN content),
         ParentsRead'
  PROVE  LinkInv'
BY DEF LinkInv, PresentAuthored, VerticesSound, OwnBatchesTyped, OwnParentsPresent, OwnLinked, Graph!Authored,
       Graph!Present, Present, Graph!Linked, Graph!LinkedTo

(* A new batch changes no content and no link of those before it.           *)
LEMMA NewBatchKeepsLinks ==
  ASSUME LinkInv, UNCHANGED <<vertices, tips>>, NEW b, b \notin Graph!Authored, NEW ps,
         prev' = [x \in Graph!Authored \cup {b} |-> IF x = b THEN ps ELSE prev[x]],
         \/ DOMAIN content' = DOMAIN content
         \/ DOMAIN content' = DOMAIN content \cup {b} /\ ps \subseteq Present,
         outbox' \in Seq(DOMAIN content'), ParentsRead'
  PROVE  LinkInv'
<1>1. /\ Present' = Present /\ Graph!Authored' = Graph!Authored \cup {b} /\ prev'[b] = ps
      /\ \A c \in Graph!Authored : prev'[c] = prev[c]
  BY DEF Graph!Authored, Graph!Present, Present
<1>2. tips' \subseteq Present' /\ PresentAuthored' /\ VerticesSound'
  BY <1>1 DEF LinkInv, PresentAuthored, VerticesSound
<1>3. OwnBatchesTyped' /\ OwnParentsPresent'
  BY <1>1 DEF LinkInv, OwnBatchesTyped, OwnParentsPresent
<1>4. OwnLinked'
  <2> SUFFICES ASSUME NEW c \in DOMAIN content' \cap Present'
               PROVE  Graph!Linked(c)'
    BY DEF OwnLinked
  <2>1. c \in DOMAIN content \cap Present /\ c \in Graph!Authored
    BY <1>1 DEF LinkInv, PresentAuthored, OwnBatchesTyped
  <2> QED
    BY <1>1, <2>1 DEF LinkInv, OwnLinked, Graph!Linked, Graph!LinkedTo, Present
<1> QED
  BY <1>2, <1>3, <1>4 DEF LinkInv

-----------------------------------------------------------------------------
LEMMA LinkNextInv == LinkInv /\ [Next]_vars => LinkInv'
<1> SUFFICES ASSUME LinkInv, [Next]_vars PROVE LinkInv'
  OBVIOUS
<1>t. outbox \in Seq(DOMAIN content)
  BY DEF LinkInv, OwnBatchesTyped
<1>1. CASE UNCHANGED vars
  BY <1>1, <1>t, OtherStepKeepsLinks DEF vars, graphVars, batchVars, LinkInv, ParentsRead,
                                         Graph!Present, Present
<1>2. ASSUME NEW tx \in Submissions, CheckCapacity(tx) \/ Submit(tx)
      PROVE  LinkInv'
  BY <1>2, <1>t, OtherStepKeepsLinks DEF CheckCapacity, Submit, graphVars, batchVars, LinkInv,
                                         ParentsRead, Graph!Present, Present
<1>3. ASSUME NEW w \in Workers, Collect(w) \/ BuildFails(w) \/ Shutdown(w)
      PROVE  LinkInv'
  <2>1. UNCHANGED <<prev, vertices, tips, content, outbox>>
    BY <1>3 DEF Collect, BuildFails, Shutdown, graphVars, batchVars
  <2>2. /\ DOMAIN worker' = DOMAIN worker
        /\ \A x \in Workers : worker'[x].parents \in {worker[x].parents, {}}
    <3>1. DOMAIN worker = Workers
      BY DEF LinkInv, ParentsRead
    <3>2. CASE Collect(w)
      <4>1. PICK list : worker' = worker \/ worker' = [worker EXCEPT ![w] =
                          [pc |-> "collected", parents |-> {}, txs |-> list]]
        BY <3>2 DEF Collect
      <4> QED
        BY <3>1, <4>1
    <3>3. CASE BuildFails(w)
      BY <3>1, <3>3 DEF BuildFails, Idle
    <3>4. CASE Shutdown(w)
      BY <3>1, <3>4 DEF Shutdown
    <3> QED
      BY <1>3, <3>2, <3>3, <3>4
  <2>3. ParentsRead'
    BY <2>1, <2>2 DEF LinkInv, ParentsRead, Graph!Present, Present
  <2> QED
    BY <1>t, <2>1, <2>3, OtherStepKeepsLinks
<1>4. ASSUME NEW w \in Workers, ReadTips(w)
      PROVE  LinkInv'
  <2>1. UNCHANGED <<prev, vertices, tips, content, outbox>>
    BY <1>4 DEF ReadTips, graphVars, batchVars
  <2>2. /\ DOMAIN worker' = DOMAIN worker
        /\ \A x \in Workers : worker'[x].parents = worker[x].parents
                               \/ worker'[x].parents \subseteq tips
    BY <1>4 DEF ReadTips, LinkInv, ParentsRead
  <2>3. ParentsRead'
    BY <2>1, <2>2 DEF LinkInv, ParentsRead, Graph!Present, Present
  <2> QED
    BY <1>t, <2>1, <2>3, OtherStepKeepsLinks
<1>5. ASSUME NEW w \in Workers, Build(w)
      PROVE  LinkInv'
  <2>1. PICK b \in Batches \ Graph!Authored :
          /\ prev' = [x \in Graph!Authored \cup {b} |->
                        IF x = b THEN worker[w].parents ELSE prev[x]]
          /\ DOMAIN content' = DOMAIN content \cup {b}
          /\ outbox' = Append(outbox, b)
    BY <1>5 DEF Build
  <2>2. outbox' \in Seq(DOMAIN content')
    <3>1. outbox \in Seq(DOMAIN content \cup {b})
      BY <1>t
    <3> QED
      BY <2>1, <3>1
  <2>3. UNCHANGED <<vertices, tips>> /\ worker[w].parents \subseteq Present
    BY <1>5 DEF Build, LinkInv, ParentsRead
  <2>4. ParentsRead'
    <3>1. /\ DOMAIN worker' = DOMAIN worker
          /\ \A x \in Workers : worker'[x].parents \in {worker[x].parents, {}}
      BY <1>5 DEF Build, Idle, LinkInv, ParentsRead
    <3> QED
      BY <2>3, <3>1 DEF LinkInv, ParentsRead, Graph!Present, Present
  <2> QED
    BY <2>1, <2>2, <2>3, <2>4, NewBatchKeepsLinks
<1>6. CASE InsertOwn
  <2>1. outbox' \in Seq(DOMAIN content)
    BY <1>6, <1>t DEF InsertOwn
  <2>2. UNCHANGED <<worker, content>>
    BY <1>6 DEF InsertOwn
  <2>3. CASE Graph!AddBatch(Head(outbox))
    BY <2>1, <2>2, <2>3, InsertionKeepsLinks
  <2>4. CASE UNCHANGED graphVars
    BY <2>1, <2>2, <2>4, OtherStepKeepsLinks DEF graphVars, LinkInv, ParentsRead, Graph!Present,
                                                 Present
  <2> QED
    BY <1>6, <2>3, <2>4 DEF InsertOwn
<1>7. CASE BroadcastSucceeds \/ BroadcastFails
  BY <1>7, <1>t, OtherStepKeepsLinks DEF BroadcastSucceeds, BroadcastFails, graphVars, batchVars,
                                         LinkInv, ParentsRead, Graph!Present, Present
<1>8. ASSUME NEW b \in Batches, AuthorRemote(b)
      PROVE  LinkInv'
  <2>1. PICK ps \in SUBSET Graph!Authored :
          prev' = [x \in Graph!Authored \cup {b} |-> IF x = b THEN ps ELSE prev[x]]
    BY <1>8 DEF AuthorRemote, Graph!Author
  <2>2. /\ b \notin Graph!Authored
        /\ UNCHANGED <<vertices, tips, worker, content, outbox>>
    BY <1>8 DEF AuthorRemote, Graph!Author, Graph!graphVars, batchVars
  <2>3. ParentsRead'
    BY <2>2 DEF LinkInv, ParentsRead, Graph!Present, Present
  <2>4. outbox' \in Seq(DOMAIN content')
    BY <1>t, <2>2
  <2> QED
    BY <2>1, <2>2, <2>3, <2>4, NewBatchKeepsLinks
<1>9. ASSUME NEW b \in Batches, Receive(b)
      PROVE  LinkInv'
  BY <1>9, <1>t, OtherStepKeepsLinks DEF Receive, graphVars, batchVars, LinkInv, ParentsRead,
                                         Graph!Present, Present
<1>10. ASSUME NEW b \in Batches, InsertIncoming(b)
       PROVE  LinkInv'
  <2>1. UNCHANGED <<worker, content, outbox>>
    BY <1>10 DEF InsertIncoming, batchVars
  <2>2. CASE Graph!AddBatch(b)
    BY <1>t, <2>1, <2>2, InsertionKeepsLinks
  <2>3. CASE UNCHANGED graphVars
    BY <1>t, <2>1, <2>3, OtherStepKeepsLinks DEF graphVars, LinkInv, ParentsRead, Graph!Present,
                                                 Present
  <2> QED
    BY <1>10, <2>2, <2>3 DEF InsertIncoming
<1> QED
  BY <1>1, <1>2, <1>3, <1>4, <1>5, <1>6, <1>7, <1>8, <1>9, <1>10 DEF Next, WorkerStep, Broadcast

(* A batch of this node finds all its parents in the graph when it is       *)
(* inserted, however long it waited in the channel, and is linked to them.  *)
THEOREM OwnBatchesAreLinked == Spec => []OwnBatchesLinked
<1>1. LinkInv => OwnBatchesLinked
  <2> SUFFICES ASSUME LinkInv PROVE OwnBatchesLinked
    OBVIOUS
  <2>1. \A i \in DOMAIN outbox : outbox[i] \in DOMAIN content
    <3>1. outbox \in Seq(DOMAIN content)
      BY DEF LinkInv, OwnBatchesTyped
    <3> QED
      BY <3>1
  <2> QED
    BY <2>1 DEF LinkInv, OwnParentsPresent, OwnLinked, OwnBatchesLinked, Present
<1> QED
  BY <1>1, LinkInitInv, LinkNextInv, PTL DEF Spec
-----------------------------------------------------------------------------
(* Sequences: a piece of a list, an element put before one.                 *)
LEMMA Slice ==
  ASSUME NEW S, NEW list \in Seq(S), NEW m \in 1..Len(list) + 1, NEW n \in m - 1..Len(list)
  PROVE  /\ SubSeq(list, m, n) \in Seq(S) /\ Len(SubSeq(list, m, n)) = n - m + 1
         /\ ToSet(SubSeq(list, m, n)) = {list[i] : i \in m..n}
         /\ NoRepeat(list) => NoRepeat(SubSeq(list, m, n))
<1> DEFINE piece == SubSeq(list, m, n)
<1>1. /\ Len(list) \in Nat /\ m \in Nat /\ n \in Nat /\ 1 =< m /\ n =< Len(list) /\ m =< n + 1
      /\ \A i \in 1..Len(list) : list[i] \in S
  OBVIOUS
<1>2. \A i \in m..n : list[i] \in S
  BY <1>1
<1>3. /\ piece \in Seq(S) /\ Len(piece) = n - m + 1
      /\ \A i \in 1..n - m + 1 : piece[i] = list[m + i - 1]
  BY <1>1, <1>2, SubSeqProperties
<1> HIDE DEF piece
<1>4. ToSet(piece) = {list[i] : i \in m..n}
  <2>1. DOMAIN piece = 1..n - m + 1
    BY <1>3
  <2>2. ASSUME NEW i \in m..n
        PROVE  list[i] \in ToSet(piece)
    <3>1. i - m + 1 \in 1..n - m + 1 /\ m + (i - m + 1) - 1 = i
      BY <1>1
    <3>2. piece[i - m + 1] = list[i]
      BY <1>3, <3>1
    <3> QED
      BY <2>1, <3>1, <3>2 DEF ToSet
  <2>3. ASSUME NEW i \in 1..n - m + 1
        PROVE  piece[i] \in {list[j] : j \in m..n}
    <3>1. m + i - 1 \in m..n
      BY <1>1
    <3> QED
      BY <1>3, <3>1
  <2> QED
    BY <2>1, <2>2, <2>3 DEF ToSet
<1>5. ASSUME NoRepeat(list)
      PROVE  NoRepeat(piece)
  <2> SUFFICES ASSUME NEW i \in 1..n - m + 1, NEW j \in 1..n - m + 1, piece[i] = piece[j]
               PROVE  i = j
    BY <1>3 DEF NoRepeat
  <2>1. m + i - 1 \in 1..Len(list) /\ m + j - 1 \in 1..Len(list)
    BY <1>1
  <2>2. m + i - 1 = m + j - 1
    BY <1>3, <1>5, <2>1 DEF NoRepeat
  <2> QED
    BY <1>1, <2>2
<1> QED
  BY <1>3, <1>4, <1>5 DEF piece

LEMMA Before ==
  ASSUME NEW S, NEW list \in Seq(S), NEW x \in S
  PROVE  /\ <<x>> \o list \in Seq(S) /\ ToSet(<<x>> \o list) = {x} \cup ToSet(list)
         /\ NoRepeat(list) /\ x \notin ToSet(list) => NoRepeat(<<x>> \o list)
<1> DEFINE longer == <<x>> \o list
<1>1. /\ longer \in Seq(S) /\ Len(longer) = Len(list) + 1 /\ Len(list) \in Nat /\ longer[1] = x
      /\ \A i \in 1..Len(list) : longer[i + 1] = list[i]
  OBVIOUS
<1> HIDE DEF longer
<1>2. \A i \in 1..Len(list) + 1 : i = 1 \/ (i - 1 \in 1..Len(list) /\ longer[i] = list[i - 1])
  <2> SUFFICES ASSUME NEW i \in 1..Len(list) + 1, i # 1
               PROVE  i - 1 \in 1..Len(list) /\ longer[i] = list[i - 1]
    OBVIOUS
  <2>1. i - 1 \in 1..Len(list) /\ i = (i - 1) + 1
    BY <1>1
  <2> QED
    BY <1>1, <2>1
<1>3. ToSet(longer) = {x} \cup ToSet(list)
  <2>1. DOMAIN longer = 1..Len(list) + 1 /\ DOMAIN list = 1..Len(list)
    BY <1>1
  <2>2. ToSet(longer) \subseteq {x} \cup ToSet(list)
    <3>1. \A i \in 1..Len(list) : list[i] \in ToSet(list)
      BY <2>1 DEF ToSet
    <3>2. \A i \in 1..Len(list) + 1 : longer[i] \in {x} \cup ToSet(list)
      BY <1>1, <1>2, <3>1
    <3> QED
      BY <2>1, <3>2 DEF ToSet
  <2>3. \A i \in 1..Len(list) : i + 1 \in 1..Len(list) + 1 /\ 1 \in 1..Len(list) + 1
    BY <1>1
  <2>4. 1 \in 1..Len(list) + 1
    BY <1>1
  <2> QED
    BY <1>1, <2>1, <2>2, <2>3, <2>4 DEF ToSet
<1>4. ASSUME NoRepeat(list), x \notin ToSet(list)
      PROVE  NoRepeat(longer)
  <2> SUFFICES ASSUME NEW i \in 1..Len(list) + 1, NEW j \in 1..Len(list) + 1,
                      longer[i] = longer[j]
               PROVE  i = j
    BY <1>1 DEF NoRepeat
  <2>1. \A k \in 1..Len(list) : list[k] # x
    BY <1>4 DEF ToSet
  <2>2. CASE i = 1 \/ j = 1
    BY <1>1, <1>2, <2>1, <2>2
  <2>3. CASE i # 1 /\ j # 1
    <3>1. i - 1 \in 1..Len(list) /\ j - 1 \in 1..Len(list) /\ list[i - 1] = list[j - 1]
      BY <1>2, <2>3
    <3>2. i - 1 = j - 1
      BY <1>4, <3>1 DEF NoRepeat
    <3> QED
      BY <1>1, <3>2
  <2> QED
    BY <2>2, <2>3
<1> QED
  BY <1>1, <1>3, <1>4 DEF longer

LEMMA NoRepeatInjective ==
  ASSUME NEW S, NEW list \in Seq(S), NoRepeat(list)
  PROVE  IsInjective(list)
BY DEF NoRepeat, IsInjective

(* What a worker takes fits: there is a longest prefix that does.           *)
LEMMA BytesOfNothing == Bytes(<< >>) = 0
<1>1. Bytes(<< >>) = SeqTotal(Size, << >>)
  BY DEF Bytes, SeqTotal
<1> QED
  BY <1>1, SeqTotalEmpty

LEMMA TakenFits ==
  ASSUME queue \in Seq(Submissions)
  PROVE  Taken \in 0..Len(queue) /\ Fits(Taken)
<1> DEFINE F == {n \in 0..Len(queue) : Fits(n)}
<1>0. Len(queue) \in Nat
  OBVIOUS
<1>1. 0 \in F
  <2>1. SubSeq(queue, 1, 0) = << >>
    OBVIOUS
  <2>2. Bytes(SubSeq(queue, 1, 0)) = 0
    BY <2>1, BytesOfNothing
  <2>3. 0 =< Len(queue) /\ 0 =< MaxTransactions /\ 0 =< MaxBytes /\ 0 \in 0..Len(queue)
    BY <1>0, LimitsAssumption
  <2>4. Fits(0)
    BY <2>2, <2>3 DEF Fits
  <2> QED
    BY <2>3, <2>4
<1>2. F \in SUBSET Int /\ IsFiniteSet(F)
  <2>1. IsFiniteSet(0..Len(queue))
    BY <1>0, FS_Interval
  <2> QED
    BY <1>0, <2>1, FS_Subset
<1>3. Max(F) \in F /\ \A n \in F : Max(F) >= n
  BY <1>1, <1>2, MaxElement
<1>4. \E n \in 0..Len(queue) : Fits(n) /\ ~Fits(n + 1)
  <2>1. PICK n \in F : \A k \in F : n >= k
    BY <1>3
  <2>2. ASSUME Fits(n + 1) PROVE FALSE
    <3>1. n + 1 \in 0..Len(queue)
      BY <1>0, <2>2 DEF Fits
    <3> QED
      BY <2>1, <2>2, <3>1
  <2> QED
    BY <2>1, <2>2
<1> QED
  BY <1>4 DEF Taken

-----------------------------------------------------------------------------
(* Every place holds a submission at most once, and no two places hold the  *)
(* same one.                                                                *)
Apart(s, t) == ToSet(s) \cap ToSet(t) = {}
Held(s) == s \in Seq(Submissions) /\ NoRepeat(s)

WithinLimits(list) == Len(list) \in 1..MaxTransactions /\ Bytes(list) =< MaxBytes

WorkerKept(c) ==
  /\ DOMAIN c = {"pc", "txs", "parents"} /\ Held(c.txs)
  /\ c.pc \in {"idle", "collected", "build", "stopped"}
  /\ c.pc \in {"idle", "stopped"} => c.txs = << >>
  /\ c.pc \in {"collected", "build"} => WithinLimits(c.txs)

ChannelsHeld ==
  /\ Held(queue) /\ Held(putBack) /\ Apart(queue, putBack)
  /\ called \subseteq Submissions /\ checked \cup Sent \subseteq called
  /\ checked \cap Sent = {}

WorkersHeld ==
  /\ DOMAIN worker = Workers /\ \A w \in Workers : WorkerKept(worker[w])
  /\ \A w \in Workers : Apart(worker[w].txs, queue) /\ Apart(worker[w].txs, putBack)
  /\ \A w \in Workers, u \in Workers : w # u => Apart(worker[w].txs, worker[u].txs)

BatchesHeld ==
  /\ \A b \in DOMAIN content : Held(content[b]) /\ WithinLimits(content[b])
  /\ \A b \in DOMAIN content :
       /\ Apart(content[b], queue) /\ Apart(content[b], putBack)
       /\ \A w \in Workers : Apart(content[b], worker[w].txs)
  /\ \A a \in DOMAIN content, b \in DOMAIN content : a # b => Apart(content[a], content[b])

TxInv == ChannelsHeld /\ WorkersHeld /\ BatchesHeld

(* The transactions that were in the mempool and are nowhere now.           *)
Lost == Sent \ Sent'

LEMMA NothingHeld ==
  Held(<< >>) /\ ToSet(<< >>) = {} /\ \A s : Apart(<< >>, s) /\ Apart(s, << >>)
BY DEF Held, NoRepeat, ToSet, Apart

LEMMA TxInitInv == Init => TxInv
<1> SUFFICES ASSUME Init PROVE TxInv
  OBVIOUS
<1>1. /\ queue = << >> /\ putBack = << >> /\ called = {} /\ checked = {} /\ DOMAIN content = {}
      /\ worker = [w \in Workers |-> Idle]
  BY DEF Init
<1>2. WorkerKept(Idle) /\ Idle.txs = << >>
  BY NothingHeld DEF WorkerKept, Idle
<1>3. Sent = {}
  BY <1>1, <1>2, NothingHeld DEF Sent, InHands, Batched
<1> QED
  BY <1>1, <1>2, <1>3, NothingHeld DEF TxInv, ChannelsHeld, WorkersHeld, BatchesHeld

LEMMA TxOtherStep ==
  ASSUME TxInv, UNCHANGED <<txVars, worker, content>>
  PROVE  TxInv' /\ Lost = {}
<1>1. UNCHANGED <<called, checked, queue, putBack, worker, content>> /\ UNCHANGED Sent
  BY DEF txVars, Sent, InHands, Batched
<1> QED
  BY <1>1 DEF TxInv, ChannelsHeld, WorkersHeld, BatchesHeld, WorkerKept, Lost

LEMMA CheckStep ==
  ASSUME TxInv, NEW tx \in Submissions, CheckCapacity(tx)
  PROVE  TxInv' /\ Lost = {}
<1>1. /\ tx \notin called /\ called' = called \cup {tx} /\ checked' = checked \cup {tx}
      /\ UNCHANGED <<queue, putBack, worker, content>> /\ UNCHANGED Sent
  BY DEF CheckCapacity, batchVars, Sent, InHands, Batched
<1> QED
  BY <1>1 DEF TxInv, ChannelsHeld, WorkersHeld, BatchesHeld, WorkerKept, Lost

LEMMA SubmitStep ==
  ASSUME TxInv, NEW tx \in Submissions, Submit(tx)
  PROVE  TxInv' /\ Lost = {}
<1>1. /\ tx \in checked /\ checked' = checked \ {tx} /\ queue' = Append(queue, tx)
      /\ UNCHANGED <<called, putBack, worker, content>>
  BY DEF Submit, batchVars
<1>2. queue \in Seq(Submissions) /\ NoRepeat(queue) /\ tx \notin Sent
  BY <1>1 DEF TxInv, ChannelsHeld, Held
<1>3. /\ tx \notin ToSet(queue) /\ tx \notin ToSet(putBack)
      /\ \A w \in Workers : tx \notin ToSet(worker[w].txs)
      /\ \A b \in DOMAIN content : tx \notin ToSet(content[b])
  BY <1>2 DEF Sent, InHands, Batched
<1>4. Held(queue') /\ ToSet(queue') = ToSet(queue) \cup {tx}
  BY <1>1, <1>2, <1>3, AppendElements DEF Held
<1>5. Sent' = Sent \cup {tx}
  BY <1>1, <1>4 DEF Sent, InHands, Batched
<1>6. ChannelsHeld'
  BY <1>1, <1>2, <1>3, <1>4, <1>5 DEF TxInv, ChannelsHeld, Apart, Held
<1>7. WorkersHeld'
  BY <1>1, <1>3, <1>4 DEF TxInv, WorkersHeld, Apart, WorkerKept
<1>8. BatchesHeld'
  BY <1>1, <1>3, <1>4 DEF TxInv, BatchesHeld, Apart
<1> QED
  BY <1>5, <1>6, <1>7, <1>8 DEF TxInv, Lost

(* The channel is cut into what the worker takes, one transaction that may  *)
(* be put back, and the rest.                                               *)
LEMMA CollectFacts ==
  ASSUME TxInv, NEW w \in Workers, Collect(w)
  PROVE  /\ UNCHANGED <<called, checked, content>> /\ worker[w].txs = << >>
         /\ Held(queue') /\ Held(putBack') /\ Apart(queue', putBack')
         /\ ToSet(queue') \subseteq ToSet(queue)
         /\ DOMAIN worker' = Workers /\ \A u \in Workers \ {w} : worker'[u] = worker[u]
         /\ WorkerKept(worker'[w])
         /\ Apart(worker'[w].txs, queue') /\ Apart(worker'[w].txs, putBack')
         /\ ToSet(worker'[w].txs) \subseteq ToSet(queue)
         /\ ToSet(worker'[w].txs) \cup ToSet(queue') \cup ToSet(putBack')
              = ToSet(queue) \cup ToSet(putBack)
<1>0. /\ queue \in Seq(Submissions) /\ NoRepeat(queue) /\ putBack \in Seq(Submissions) /\ NoRepeat(putBack)
      /\ ToSet(queue) \cap ToSet(putBack) = {} /\ DOMAIN worker = Workers
      /\ WorkerKept(worker[w]) /\ worker[w].txs = << >>
  <2>1. ChannelsHeld /\ WorkerKept(worker[w]) /\ worker[w].pc = "idle" /\ DOMAIN worker = Workers
    BY DEF TxInv, WorkersHeld, Collect
  <2>2. worker[w].txs = << >>
    BY <2>1 DEF WorkerKept
  <2> QED
    BY <2>1, <2>2 DEF ChannelsHeld, Held, Apart
<1>1. PICK n \in 0..Len(queue), gone \in 0..Len(queue) :
        /\ Fits(n)
        /\ queue' = SubSeq(queue, gone + 1, Len(queue))
        /\ \/ gone = n /\ putBack' = putBack
           \/ gone = n + 1 /\ putBack' = <<queue[n + 1]>> \o putBack
        /\ worker' = IF n = 0 THEN worker
                     ELSE [worker EXCEPT ![w] = [pc |-> "collected", parents |-> {},
                                                 txs |-> SubSeq(queue, 1, n)]]
  <2> DEFINE n == Taken
             gone == IF Overflows(n) THEN n + 1 ELSE n
  <2>1. n \in 0..Len(queue) /\ Fits(n)
    BY <1>0, TakenFits
  <2>2. Len(queue) \in Nat
    BY <1>0
  <2>3. gone \in 0..Len(queue)
    BY <2>1, <2>2 DEF Overflows
  <2>4. /\ queue' = SubSeq(queue, gone + 1, Len(queue))
        /\ \/ gone = n /\ putBack' = putBack
           \/ gone = n + 1 /\ putBack' = <<queue[n + 1]>> \o putBack
        /\ worker' = IF n = 0 THEN worker
                     ELSE [worker EXCEPT ![w] = [pc |-> "collected", parents |-> {},
                                                 txs |-> SubSeq(queue, 1, n)]]
    BY DEF Collect
  <2> HIDE DEF n, gone
  <2> QED
    BY <2>1, <2>3, <2>4
<1> DEFINE taken == SubSeq(queue, 1, n)
           rest == SubSeq(queue, gone + 1, Len(queue))
<1>2. Len(queue) \in Nat /\ n \in Nat /\ gone \in Nat /\ n =< gone /\ gone =< n + 1
      /\ gone =< Len(queue)
  BY <1>0, <1>1
<1>s. \A m \in 1..Len(queue) + 1 : \A k \in m - 1..Len(queue) :
        /\ SubSeq(queue, m, k) \in Seq(Submissions) /\ Len(SubSeq(queue, m, k)) = k - m + 1
        /\ ToSet(SubSeq(queue, m, k)) = {queue[i] : i \in m..k}
        /\ NoRepeat(SubSeq(queue, m, k))
  BY <1>0, Slice
<1>3. /\ taken \in Seq(Submissions) /\ Len(taken) = n /\ ToSet(taken) = {queue[i] : i \in 1..n}
      /\ NoRepeat(taken)
  <2>1. 1 \in 1..Len(queue) + 1 /\ n \in 1 - 1..Len(queue) /\ n - 1 + 1 = n
    BY <1>2
  <2> QED
    BY <1>s, <2>1
<1>4. /\ rest \in Seq(Submissions) /\ ToSet(rest) = {queue[i] : i \in gone + 1..Len(queue)}
      /\ NoRepeat(rest)
  <2>1. gone + 1 \in 1..Len(queue) + 1 /\ Len(queue) \in gone + 1 - 1..Len(queue)
    BY <1>2
  <2> QED
    BY <1>s, <2>1
<1>5. ToSet(queue) = {queue[i] : i \in 1..Len(queue)}
  BY <1>0 DEF ToSet
<1>6. \A i \in 1..Len(queue), j \in 1..Len(queue) : queue[i] = queue[j] => i = j
  BY <1>0 DEF NoRepeat
<1>7. Held(taken) /\ Held(rest) /\ Apart(taken, rest)
  <2>1. \A i \in 1..n, j \in gone + 1..Len(queue) :
          i \in 1..Len(queue) /\ j \in 1..Len(queue) /\ i # j
    BY <1>2
  <2>2. ToSet(taken) \cap ToSet(rest) = {}
    BY <1>3, <1>4, <1>6, <2>1
  <2> QED
    BY <1>3, <1>4, <2>2 DEF Held, Apart
<1>8. ToSet(taken) \subseteq ToSet(queue) /\ ToSet(rest) \subseteq ToSet(queue)
  <2>1. 1..n \subseteq 1..Len(queue) /\ gone + 1..Len(queue) \subseteq 1..Len(queue)
    BY <1>2
  <2> QED
    BY <1>3, <1>4, <1>5, <2>1
<1>9. /\ Held(putBack') /\ Apart(rest, putBack') /\ Apart(taken, putBack')
      /\ ToSet(taken) \cup ToSet(rest) \cup ToSet(putBack') = ToSet(queue) \cup ToSet(putBack)
  <2>1. CASE gone = n /\ putBack' = putBack
    <3>1. 1..Len(queue) = 1..n \cup gone + 1..Len(queue)
      BY <1>2, <2>1
    <3>2. ToSet(queue) = ToSet(taken) \cup ToSet(rest)
      BY <1>3, <1>4, <1>5, <3>1
    <3> QED
      BY <1>0, <2>1, <3>2 DEF Held, Apart
  <2>2. CASE gone = n + 1 /\ putBack' = <<queue[n + 1]>> \o putBack
    <3> DEFINE x == queue[n + 1]
    <3>1. /\ n + 1 \in 1..Len(queue) /\ n + 1 \notin 1..n /\ n + 1 \notin gone + 1..Len(queue)
          /\ 1..n \subseteq 1..Len(queue) /\ gone + 1..Len(queue) \subseteq 1..Len(queue)
          /\ 1..Len(queue) = 1..n \cup {n + 1} \cup gone + 1..Len(queue)
      BY <1>2, <2>2
    <3>2. x \in Submissions /\ x \in ToSet(queue) /\ x \notin ToSet(putBack)
      BY <1>0, <1>5, <3>1
    <3>3. x \notin ToSet(taken) /\ x \notin ToSet(rest)
      <4>1. \A i \in 1..Len(queue) : i # n + 1 => queue[i] # x
        BY <1>6, <3>1
      <4>2. (\A i \in 1..n : queue[i] # x) /\ \A i \in gone + 1..Len(queue) : queue[i] # x
        BY <3>1, <4>1
      <4> QED
        BY <1>3, <1>4, <4>2
    <3>4. ToSet(queue) = ToSet(taken) \cup {x} \cup ToSet(rest)
      BY <1>3, <1>4, <1>5, <3>1
    <3>5. Held(putBack') /\ ToSet(putBack') = {x} \cup ToSet(putBack)
      BY <1>0, <2>2, <3>2, Before DEF Held
    <3> HIDE DEF x, taken, rest
    <3> QED
      BY <1>0, <3>3, <3>4, <3>5 DEF Apart
  <2> QED
    BY <1>1, <2>1, <2>2
<1>10. /\ DOMAIN worker' = Workers /\ \A u \in Workers \ {w} : worker'[u] = worker[u]
       /\ worker'[w].txs = taken /\ WorkerKept(worker'[w])
  <2>1. CASE n = 0
    <3>1. taken = << >>
      BY <1>3, <2>1
    <3> QED
      BY <1>0, <1>1, <2>1, <3>1
  <2>2. CASE n # 0
    <3>1. WithinLimits(taken)
      BY <1>1, <1>2, <1>3, <2>2, LimitsAssumption DEF WithinLimits, Fits
    <3> DEFINE c == [pc |-> "collected", parents |-> {}, txs |-> taken]
    <3>2. WorkerKept(c) /\ c.txs = taken
      BY <1>7, <3>1 DEF WorkerKept
    <3>3. worker' = [worker EXCEPT ![w] = c]
      BY <1>1, <2>2
    <3> HIDE DEF c, taken
    <3> QED
      BY <1>0, <3>2, <3>3
  <2> QED
    BY <2>1, <2>2
<1>11. UNCHANGED <<called, checked, content>> /\ queue' = rest
  BY <1>1 DEF Collect, batchVars
<1> HIDE DEF taken, rest
<1> QED
  BY <1>0, <1>7, <1>8, <1>9, <1>10, <1>11 DEF Apart

LEMMA CollectStep ==
  ASSUME TxInv, NEW w \in Workers, Collect(w)
  PROVE  TxInv' /\ Lost = {}
<1>1. /\ UNCHANGED <<called, checked, content>> /\ worker[w].txs = << >>
      /\ Held(queue') /\ Held(putBack') /\ Apart(queue', putBack')
      /\ ToSet(queue') \subseteq ToSet(queue)
      /\ DOMAIN worker' = Workers /\ \A u \in Workers \ {w} : worker'[u] = worker[u]
      /\ WorkerKept(worker'[w])
      /\ Apart(worker'[w].txs, queue') /\ Apart(worker'[w].txs, putBack')
      /\ ToSet(worker'[w].txs) \subseteq ToSet(queue)
      /\ ToSet(worker'[w].txs) \cup ToSet(queue') \cup ToSet(putBack')
           = ToSet(queue) \cup ToSet(putBack)
  BY CollectFacts
<1>2. ToSet(putBack') \subseteq ToSet(queue) \cup ToSet(putBack)
  BY <1>1
<1>3. InHands' = InHands \cup ToSet(worker'[w].txs)
  <2>1. InHands' = UNION {ToSet(worker'[u].txs) : u \in Workers}
    BY DEF InHands
  <2>2. ToSet(worker[w].txs) = {}
    BY <1>1, NothingHeld
  <2> QED
    BY <1>1, <2>1, <2>2 DEF InHands
<1>4. Sent' = Sent
  BY <1>1, <1>3 DEF Sent, Batched
<1>5. ChannelsHeld'
  BY <1>1, <1>4 DEF TxInv, ChannelsHeld, Held, Apart
<1>6. WorkersHeld'
  <2>1. ASSUME NEW u \in Workers, u # w
        PROVE  /\ WorkerKept(worker'[u]) /\ Apart(worker'[u].txs, queue')
               /\ Apart(worker'[u].txs, putBack') /\ Apart(worker'[u].txs, worker'[w].txs)
               /\ \A x \in Workers : x # w /\ x # u => Apart(worker'[x].txs, worker'[u].txs)
    BY <1>1, <1>2, <2>1 DEF TxInv, WorkersHeld, Apart
  <2> QED
    BY <1>1, <2>1 DEF WorkersHeld, WorkerKept, Held, Apart
<1>7. BatchesHeld'
  <2>1. ASSUME NEW b \in DOMAIN content
        PROVE  /\ Apart(content[b], queue') /\ Apart(content[b], putBack')
               /\ \A u \in Workers : Apart(content[b], worker'[u].txs)
    BY <1>1, <1>2 DEF TxInv, BatchesHeld, Apart
  <2> QED
    BY <1>1, <2>1 DEF TxInv, BatchesHeld, Apart
<1> QED
  BY <1>4, <1>5, <1>6, <1>7 DEF TxInv, Lost

(* A worker that goes on with what it holds.                                *)
LEMMA WorkerGoesOn ==
  ASSUME TxInv, UNCHANGED <<txVars, content>>, NEW w \in Workers,
         DOMAIN worker' = Workers, \A u \in Workers \ {w} : worker'[u] = worker[u],
         WorkerKept(worker'[w]), worker'[w].txs = worker[w].txs
  PROVE  TxInv' /\ Lost = {}
<1>1. UNCHANGED <<called, checked, queue, putBack, content>>
  BY DEF txVars
<1>2. \A u \in Workers : worker'[u].txs = worker[u].txs
  OBVIOUS
<1>3. Sent' = Sent
  BY <1>1, <1>2 DEF Sent, InHands, Batched
<1>4. ChannelsHeld' /\ BatchesHeld'
  BY <1>1, <1>2, <1>3 DEF TxInv, ChannelsHeld, BatchesHeld
<1>5. WorkersHeld'
  <2>1. \A u \in Workers : WorkerKept(worker'[u])
    BY DEF TxInv, WorkersHeld
  <2> QED
    BY <1>1, <1>2, <2>1 DEF TxInv, WorkersHeld, WorkerKept
<1> QED
  BY <1>3, <1>4, <1>5 DEF TxInv, Lost

(* A batch gets what its worker held, and the worker holds nothing.         *)
LEMMA BuildStep ==
  ASSUME TxInv, DOMAIN content \subseteq Graph!Authored, NEW w \in Workers, Build(w)
  PROVE  TxInv' /\ Lost = {}
<1>1. PICK b \in Batches \ Graph!Authored :
        content' = [x \in DOMAIN content \cup {b} |-> IF x = b THEN worker[w].txs ELSE content[x]]
  BY DEF Build
<1>2. /\ UNCHANGED <<called, checked, queue, putBack>> /\ DOMAIN worker = Workers
      /\ WorkerKept(worker[w]) /\ worker[w].pc = "build" /\ worker' = [worker EXCEPT ![w] = Idle]
  BY DEF Build, txVars, TxInv, WorkersHeld
<1>3. b \notin DOMAIN content /\ DOMAIN content' = DOMAIN content \cup {b}
      /\ content'[b] = worker[w].txs /\ \A a \in DOMAIN content : content'[a] = content[a]
  BY <1>1
<1>4. /\ DOMAIN worker' = Workers /\ worker'[w] = Idle /\ WorkerKept(Idle) /\ Idle.txs = << >>
      /\ \A u \in Workers \ {w} : worker'[u] = worker[u]
  BY <1>2, NothingHeld DEF WorkerKept, Idle
<1>5. /\ ToSet(worker'[w].txs) = {} /\ Held(worker[w].txs) /\ WithinLimits(worker[w].txs)
      /\ \A s : Apart(worker'[w].txs, s) /\ Apart(s, worker'[w].txs)
  BY <1>2, <1>4, NothingHeld DEF WorkerKept
<1>6. Sent' = Sent
  <2>1. InHands = (UNION {ToSet(worker[u].txs) : u \in Workers \ {w}}) \cup ToSet(worker[w].txs)
    BY DEF InHands
  <2>2. InHands' = UNION {ToSet(worker[u].txs) : u \in Workers \ {w}}
    <3>1. InHands' = UNION {ToSet(worker'[u].txs) : u \in Workers}
      BY DEF InHands
    <3>2. InHands' = (UNION {ToSet(worker'[u].txs) : u \in Workers \ {w}}) \cup ToSet(worker'[w].txs)
      BY <3>1
    <3> QED
      BY <1>4, <1>5, <3>2
  <2>3. Batched' = Batched \cup ToSet(worker[w].txs)
    <3>1. Batched' = UNION {ToSet(content'[a]) : a \in DOMAIN content'}
      BY DEF Batched
    <3>2. Batched' = (UNION {ToSet(content'[a]) : a \in DOMAIN content}) \cup ToSet(content'[b])
      BY <1>3, <3>1
    <3> QED
      BY <1>3, <3>2 DEF Batched
  <2> QED
    BY <1>2, <2>1, <2>2, <2>3 DEF Sent
<1>7. ChannelsHeld'
  BY <1>2, <1>6 DEF TxInv, ChannelsHeld
<1>8. WorkersHeld'
  <2>1. ASSUME NEW u \in Workers
        PROVE  /\ WorkerKept(worker'[u]) /\ Apart(worker'[u].txs, queue)
               /\ Apart(worker'[u].txs, putBack)
               /\ \A x \in Workers : x # u => Apart(worker'[u].txs, worker'[x].txs)
    BY <1>4, <1>5 DEF TxInv, WorkersHeld
  <2> QED
    BY <1>2, <1>4, <2>1 DEF WorkersHeld
<1>9. BatchesHeld'
  <2>1. ASSUME NEW a \in DOMAIN content, NEW u \in Workers
        PROVE  /\ Apart(content[a], worker'[u].txs) /\ Apart(content'[b], worker'[u].txs)
               /\ Apart(content[a], content'[b]) /\ Apart(content'[b], content[a])
    <3>1. Apart(content[a], content'[b]) /\ Apart(content'[b], content[a])
      BY <1>3 DEF TxInv, BatchesHeld, Apart
    <3>2. CASE u = w
      BY <1>5, <3>1, <3>2
    <3>3. CASE u # w
      BY <1>3, <1>4, <3>1, <3>3 DEF TxInv, BatchesHeld, WorkersHeld
    <3> QED
      BY <3>2, <3>3
  <2>2. \A u \in Workers : Apart(content'[b], worker'[u].txs)
    <3> TAKE u \in Workers
    <3>1. CASE u = w
      BY <1>5, <3>1
    <3>2. CASE u # w
      BY <1>3, <1>4, <3>2 DEF TxInv, WorkersHeld
    <3> QED
      BY <3>1, <3>2
  <2>3. Apart(content'[b], queue) /\ Apart(content'[b], putBack)
    BY <1>3 DEF TxInv, WorkersHeld
  <2>4. \A a \in DOMAIN content : Apart(content[a], content'[b]) /\ Apart(content'[b], content[a])
    BY <1>3 DEF TxInv, BatchesHeld, Apart
  <2>5. \A a \in DOMAIN content' : Held(content'[a]) /\ WithinLimits(content'[a])
    BY <1>3, <1>5 DEF TxInv, BatchesHeld
  <2>6. \A a \in DOMAIN content' :
          /\ Apart(content'[a], queue') /\ Apart(content'[a], putBack')
          /\ \A u \in Workers : Apart(content'[a], worker'[u].txs)
    BY <1>2, <1>3, <2>1, <2>2, <2>3 DEF TxInv, BatchesHeld
  <2>7. \A a \in DOMAIN content', d \in DOMAIN content' : a # d => Apart(content'[a], content'[d])
    BY <1>3, <2>4 DEF TxInv, BatchesHeld
  <2> QED
    BY <2>5, <2>6, <2>7 DEF BatchesHeld
<1> QED
  BY <1>6, <1>7, <1>8, <1>9 DEF TxInv, Lost

(* A failed build loses what its worker held and nothing else.              *)
LEMMA BuildFailsStep ==
  ASSUME TxInv, NEW w \in Workers, BuildFails(w)
  PROVE  TxInv' /\ Lost \subseteq ToSet(worker[w].txs)
<1>1. /\ UNCHANGED <<called, checked, queue, putBack, content>> /\ DOMAIN worker = Workers
      /\ worker' = [worker EXCEPT ![w] = Idle]
  BY DEF BuildFails, txVars, batchVars, TxInv, WorkersHeld
<1>2. /\ DOMAIN worker' = Workers /\ worker'[w] = Idle /\ WorkerKept(Idle) /\ Idle.txs = << >>
      /\ \A u \in Workers \ {w} : worker'[u] = worker[u]
  BY <1>1, NothingHeld DEF WorkerKept, Idle
<1>3. /\ ToSet(worker'[w].txs) = {}
      /\ \A s : Apart(worker'[w].txs, s) /\ Apart(s, worker'[w].txs)
  BY <1>2, NothingHeld
<1>4. InHands' \subseteq InHands /\ InHands \subseteq InHands' \cup ToSet(worker[w].txs)
  <2>1. InHands' = UNION {ToSet(worker'[u].txs) : u \in Workers}
    BY DEF InHands
  <2>2. \A u \in Workers : ToSet(worker'[u].txs) \subseteq ToSet(worker[u].txs)
    BY <1>2, <1>3
  <2>3. \A u \in Workers : ToSet(worker[u].txs) \subseteq ToSet(worker'[u].txs) \cup ToSet(worker[w].txs)
    BY <1>2
  <2> QED
    BY <2>1, <2>2, <2>3 DEF InHands
<1>5. Sent' \subseteq Sent /\ Lost \subseteq ToSet(worker[w].txs)
  BY <1>1, <1>4 DEF Sent, Batched, Lost
<1>6. ChannelsHeld'
  BY <1>1, <1>5 DEF TxInv, ChannelsHeld
<1>7. WorkersHeld'
  <2>1. ASSUME NEW u \in Workers
        PROVE  /\ WorkerKept(worker'[u]) /\ Apart(worker'[u].txs, queue)
               /\ Apart(worker'[u].txs, putBack)
               /\ \A x \in Workers : x # u => Apart(worker'[u].txs, worker'[x].txs)
    BY <1>2, <1>3 DEF TxInv, WorkersHeld
  <2> QED
    BY <1>1, <1>2, <2>1 DEF WorkersHeld
<1>8. BatchesHeld'
  <2>1. \A a \in DOMAIN content : \A u \in Workers : Apart(content[a], worker'[u].txs)
    BY <1>2, <1>3 DEF TxInv, BatchesHeld
  <2> QED
    BY <1>1, <2>1 DEF TxInv, BatchesHeld
<1> QED
  BY <1>5, <1>6, <1>7, <1>8 DEF TxInv

(* Only a failed build loses transactions, and then those of its worker.    *)
OnlyFailedBuildsLose ==
  \A tx \in Sent \ Sent' : \E w \in Workers : tx \in ToSet(worker[w].txs) /\ BuildFails(w)

LEMMA TxNextInv ==
  ASSUME TxInv, DOMAIN content \subseteq Graph!Authored, [Next]_vars
  PROVE  TxInv' /\ OnlyFailedBuildsLose
<1> SUFFICES \/ TxInv' /\ Lost = {}
             \/ \E w \in Workers : BuildFails(w) /\ TxInv' /\ Lost \subseteq ToSet(worker[w].txs)
  BY DEF OnlyFailedBuildsLose, Lost
<1>1. CASE UNCHANGED vars
  BY <1>1, TxOtherStep DEF vars, batchVars
<1>2. ASSUME NEW tx \in Submissions, CheckCapacity(tx) \/ Submit(tx)
      PROVE  TxInv' /\ Lost = {}
  BY <1>2, CheckStep, SubmitStep
<1>3. ASSUME NEW w \in Workers, Collect(w) \/ Build(w)
      PROVE  TxInv' /\ Lost = {}
  BY <1>3, CollectStep, BuildStep
<1>4. ASSUME NEW w \in Workers, ReadTips(w) \/ Shutdown(w)
      PROVE  TxInv' /\ Lost = {}
  <2>1. UNCHANGED <<txVars, content>> /\ DOMAIN worker = Workers /\ WorkerKept(worker[w])
    BY <1>4 DEF ReadTips, Shutdown, batchVars, TxInv, WorkersHeld
  <2>2. CASE ReadTips(w)
    <3>1. PICK ps : worker' = [worker EXCEPT ![w].pc = "build", ![w].parents = ps]
      BY <2>2 DEF ReadTips
    <3> DEFINE c == [worker[w] EXCEPT !.pc = "build", !.parents = ps]
    <3>2. worker' = [worker EXCEPT ![w] = c] /\ worker[w].pc = "collected"
      BY <2>2, <3>1 DEF ReadTips
    <3>3. WorkerKept(c) /\ c.txs = worker[w].txs
      BY <2>1, <3>2 DEF WorkerKept
    <3> HIDE DEF c
    <3> QED
      BY <2>1, <3>2, <3>3, WorkerGoesOn
  <2>3. CASE Shutdown(w)
    <3> DEFINE c == [worker[w] EXCEPT !.pc = "stopped"]
    <3>1. worker' = [worker EXCEPT ![w] = c] /\ worker[w].pc = "idle"
      BY <2>3 DEF Shutdown
    <3>2. WorkerKept(c) /\ c.txs = worker[w].txs
      BY <2>1, <3>1 DEF WorkerKept
    <3> HIDE DEF c
    <3> QED
      BY <2>1, <3>1, <3>2, WorkerGoesOn
  <2> QED
    BY <1>4, <2>2, <2>3
<1>5. ASSUME NEW w \in Workers, BuildFails(w)
      PROVE  BuildFails(w) /\ TxInv' /\ Lost \subseteq ToSet(worker[w].txs)
  BY <1>5, BuildFailsStep
<1>6. CASE Broadcast
  BY <1>6, TxOtherStep DEF Broadcast, InsertOwn, BroadcastSucceeds, BroadcastFails, batchVars
<1>7. ASSUME NEW b \in Batches, AuthorRemote(b) \/ Receive(b) \/ InsertIncoming(b)
      PROVE  TxInv' /\ Lost = {}
  BY <1>7, TxOtherStep DEF AuthorRemote, Receive, InsertIncoming, batchVars
<1> QED
  BY <1>1, <1>2, <1>3, <1>4, <1>5, <1>6, <1>7 DEF Next, WorkerStep

-----------------------------------------------------------------------------
(* The graph beneath the mempool keeps its own invariant; the theorems      *)
(* about it are used through this instance.                                 *)
GP == INSTANCE FlowGraphProofs

LEMMA GraphInsertion ==
  ASSUME GP!GraphInv, NEW b \in Batches, Graph!AddBatch(b)
  PROVE  GP!GraphInv' /\ Graph!Authored' = Graph!Authored
<1>1. GP!AddBatch(b)
  BY DEF Graph!AddBatch, GP!AddBatch, Graph!Authored, GP!Authored, Graph!ContainsBatch,
         GP!ContainsBatch, Graph!Present, GP!Present, Graph!Inserted, GP!Inserted,
         Graph!NewVertex, GP!NewVertex, Graph!WithChild, GP!WithChild
<1> QED
  BY <1>1, GraphAssumption, GP!AddBatchStep DEF Graph!AddBatch, Graph!Authored

LEMMA GraphAuthored ==
  ASSUME GP!GraphInv, NEW b \in Batches, b \notin Graph!Authored,
         NEW ps \in SUBSET Graph!Authored,
         prev' = [x \in Graph!Authored \cup {b} |-> IF x = b THEN ps ELSE prev[x]],
         UNCHANGED <<vertices, roots, tips, clock>>
  PROVE  GP!GraphInv' /\ Graph!Authored \subseteq Graph!Authored'
<1>1. GP!GraphInv'
  BY GraphAssumption, GP!AuthoredStep DEF Graph!Authored, GP!Authored, GP!graphVars
<1> QED
  BY <1>1 DEF Graph!Authored

LEMMA GraphUnchanged ==
  ASSUME GP!GraphInv, UNCHANGED graphVars
  PROVE  GP!GraphInv' /\ Graph!Authored' = Graph!Authored
BY DEF GP!GraphInv, GP!TypeOK, GP!IndexesExact, GP!EdgesSound, GP!Authored, GP!Present,
       GP!Vertex, graphVars, Graph!Authored

LEMMA GraphTyped == GP!GraphInv => Graph!TypeOK /\ Graph!Authored \subseteq Batches
BY DEF GP!GraphInv, GP!TypeOK, Graph!TypeOK, GP!Authored, Graph!Authored, GP!Present,
       Graph!Present, GP!Vertex, Graph!Vertex

LEMMA GraphNextInv ==
  ASSUME LinkInv, GP!GraphInv, [Next]_vars
  PROVE  GP!GraphInv' /\ Graph!Authored \subseteq Graph!Authored'
<1>1. CASE UNCHANGED graphVars
  BY <1>1, GraphUnchanged
<1>2. ASSUME NEW b \in Batches, Graph!AddBatch(b)
      PROVE  GP!GraphInv' /\ Graph!Authored \subseteq Graph!Authored'
  BY <1>2, GraphInsertion
<1>3. ASSUME NEW w \in Workers, Build(w)
      PROVE  GP!GraphInv' /\ Graph!Authored \subseteq Graph!Authored'
  <2>1. worker[w].parents \in SUBSET Graph!Authored
    BY DEF LinkInv, ParentsRead, PresentAuthored
  <2> QED
    BY <1>3, <2>1, GraphAuthored DEF Build
<1>4. ASSUME NEW b \in Batches, AuthorRemote(b)
      PROVE  GP!GraphInv' /\ Graph!Authored \subseteq Graph!Authored'
  BY <1>4, GraphAuthored DEF AuthorRemote, Graph!Author, Graph!graphVars
<1>5. CASE InsertOwn
  <2>1. Head(outbox) \in Batches
    <3>1. outbox \in Seq(DOMAIN content) /\ outbox # << >>
      BY <1>5 DEF LinkInv, OwnBatchesTyped, InsertOwn
    <3>2. Head(outbox) \in DOMAIN content
      BY <3>1
    <3> QED
      BY <3>2, GraphTyped DEF LinkInv, OwnBatchesTyped
  <2> QED
    BY <1>1, <1>2, <1>5, <2>1 DEF InsertOwn
<1>6. ASSUME NEW b \in Batches, InsertIncoming(b)
      PROVE  GP!GraphInv' /\ Graph!Authored \subseteq Graph!Authored'
  BY <1>1, <1>2, <1>6 DEF InsertIncoming
<1>7. CASE \/ UNCHANGED vars
           \/ \E tx \in Submissions : CheckCapacity(tx) \/ Submit(tx)
           \/ \E w \in Workers : Collect(w) \/ ReadTips(w) \/ BuildFails(w) \/ Shutdown(w)
           \/ BroadcastSucceeds \/ BroadcastFails
           \/ \E b \in Batches : Receive(b)
  BY <1>1, <1>7 DEF vars, CheckCapacity, Submit, Collect, ReadTips, BuildFails, Shutdown,
                    BroadcastSucceeds, BroadcastFails, Receive
<1> QED
  BY <1>3, <1>4, <1>5, <1>6, <1>7 DEF Next, WorkerStep, Broadcast

(* The inductive invariant of the mempool. *)
MempoolInv == LinkInv /\ TxInv /\ GP!GraphInv /\ incoming \subseteq Graph!Authored

LEMMA MempoolInitInv == Init => MempoolInv
<1> SUFFICES ASSUME Init PROVE MempoolInv
  OBVIOUS
<1>1. GP!GraphInv
  BY GP!InitGraphInv, GraphAssumption DEF Init, Graph!Init, GP!Init
<1> QED
  BY <1>1, LinkInitInv, TxInitInv DEF Init, MempoolInv

LEMMA MempoolNextInv == MempoolInv /\ [Next]_vars => MempoolInv' /\ OnlyFailedBuildsLose
<1> SUFFICES ASSUME MempoolInv, [Next]_vars PROVE MempoolInv' /\ OnlyFailedBuildsLose
  OBVIOUS
<1>1. LinkInv' /\ GP!GraphInv' /\ Graph!Authored \subseteq Graph!Authored'
  BY LinkNextInv, GraphNextInv DEF MempoolInv
<1>2. TxInv' /\ OnlyFailedBuildsLose
  BY TxNextInv DEF MempoolInv, LinkInv, OwnBatchesTyped
<1>3. incoming' \subseteq incoming \cup Graph!Authored
  BY DEF Next, vars, netVars, CheckCapacity, Submit, WorkerStep, Collect, ReadTips, Build,
         BuildFails, Shutdown, Broadcast, InsertOwn, BroadcastSucceeds, BroadcastFails,
         AuthorRemote, Receive, InsertIncoming
<1> QED
  BY <1>1, <1>2, <1>3 DEF MempoolInv

(* The four kinds of place, taken apart.                                    *)
LEMMA PlacesApart == TxInv => NoTxTwice
<1> SUFFICES ASSUME TxInv PROVE NoTxTwice
  OBVIOUS
<1>1. /\ Held(queue) /\ Held(putBack) /\ \A w \in Workers : Held(worker[w].txs)
      /\ \A b \in DOMAIN content : Held(content[b])
  BY DEF TxInv, ChannelsHeld, WorkersHeld, BatchesHeld, WorkerKept
<1>2. ASSUME NEW p \in Places
      PROVE  \/ p = <<"queue">> /\ HeldAt(p) = queue
             \/ p = <<"putBack">> /\ HeldAt(p) = putBack
             \/ \E w \in Workers : p = <<"worker", w>> /\ HeldAt(p) = worker[w].txs
             \/ \E b \in DOMAIN content : p = <<"batch", b>> /\ HeldAt(p) = content[b]
  <2>1. CASE p = <<"queue">>
    BY <2>1 DEF HeldAt
  <2>2. CASE p = <<"putBack">>
    BY <2>2 DEF HeldAt
  <2>3. ASSUME NEW w \in Workers, p = <<"worker", w>>
        PROVE  HeldAt(p) = worker[w].txs
    BY <2>3 DEF HeldAt
  <2>4. ASSUME NEW b \in DOMAIN content, p = <<"batch", b>>
        PROVE  HeldAt(p) = content[b]
    BY <2>4 DEF HeldAt
  <2> QED
    BY <2>1, <2>2, <2>3, <2>4 DEF Places
<1>3. \A p \in Places : IsInjective(HeldAt(p))
  BY <1>1, <1>2, NoRepeatInjective DEF Held
<1>4. ASSUME NEW p \in Places, NEW q \in Places, p # q
      PROVE  ToSet(HeldAt(p)) \cap ToSet(HeldAt(q)) = {}
  <2>1. Apart(queue, putBack) /\ Apart(putBack, queue)
    BY DEF TxInv, ChannelsHeld, Apart
  <2>2. \A w \in Workers :
          /\ Apart(worker[w].txs, queue) /\ Apart(queue, worker[w].txs)
          /\ Apart(worker[w].txs, putBack) /\ Apart(putBack, worker[w].txs)
    BY DEF TxInv, WorkersHeld, Apart
  <2>3. \A b \in DOMAIN content :
          /\ Apart(content[b], queue) /\ Apart(queue, content[b])
          /\ Apart(content[b], putBack) /\ Apart(putBack, content[b])
    BY DEF TxInv, BatchesHeld, Apart
  <2>4. \A b \in DOMAIN content, w \in Workers :
          Apart(content[b], worker[w].txs) /\ Apart(worker[w].txs, content[b])
    BY DEF TxInv, BatchesHeld, Apart
  <2>5. \A u \in Workers, w \in Workers : u # w => Apart(worker[u].txs, worker[w].txs)
    BY DEF TxInv, WorkersHeld
  <2>6. \A a \in DOMAIN content, b \in DOMAIN content :
          a # b => Apart(content[a], content[b])
    BY DEF TxInv, BatchesHeld
  <2>q. Apart(HeldAt(p), HeldAt(q))
    <3>1. CASE p = <<"queue">> /\ HeldAt(p) = queue
      BY <1>2, <1>4, <2>1, <2>2, <2>3, <3>1
    <3>2. CASE p = <<"putBack">> /\ HeldAt(p) = putBack
      BY <1>2, <1>4, <2>1, <2>2, <2>3, <3>2
    <3>3. ASSUME NEW w \in Workers, p = <<"worker", w>>, HeldAt(p) = worker[w].txs
          PROVE  Apart(HeldAt(p), HeldAt(q))
      BY <1>2, <1>4, <2>2, <2>4, <2>5, <3>3
    <3>4. ASSUME NEW b \in DOMAIN content, p = <<"batch", b>>, HeldAt(p) = content[b]
          PROVE  Apart(HeldAt(p), HeldAt(q))
      BY <1>2, <1>4, <2>3, <2>4, <2>6, <3>4
    <3> QED
      BY <1>2, <3>1, <3>2, <3>3, <3>4
  <2> QED
    BY <2>q DEF Apart
<1> QED
  BY <1>3, <1>4 DEF NoTxTwice

(* A list is a list over any set that holds its elements.                   *)
LEMMA ListOver ==
  ASSUME NEW S, NEW list \in Seq(S), NEW T, ToSet(list) \subseteq T
  PROVE  list \in Seq(T)
<1>1. \A i \in 1..Len(list) : list[i] \in T
  BY DEF ToSet
<1> QED
  BY <1>1

LEMMA MempoolSound == MempoolInv => BatchesSound
<1> SUFFICES ASSUME MempoolInv PROVE BatchesSound
  OBVIOUS
<1>1. TypeOK
  <2>0. /\ queue \in Seq(Submissions) /\ putBack \in Seq(Submissions)
        /\ ToSet(queue) \subseteq called /\ ToSet(putBack) \subseteq called
        /\ checked \subseteq called /\ called \subseteq Submissions
    BY DEF MempoolInv, TxInv, ChannelsHeld, Held, Sent
  <2>t. queue \in Seq(called) /\ putBack \in Seq(called)
    BY <2>0, ListOver
  <2>1. /\ \A w \in Workers : worker[w].pc \in {"idle", "collected", "build", "stopped"}
    BY DEF MempoolInv, TxInv, WorkersHeld, WorkerKept
  <2>2. DOMAIN content \subseteq Graph!Authored /\ outbox \in Seq(DOMAIN content)
    BY DEF MempoolInv, LinkInv, OwnBatchesTyped
  <2> QED
    BY <2>0, <2>t, <2>1, <2>2, GraphTyped DEF MempoolInv, TypeOK
<1>2. BatchesWithinLimits
  BY DEF MempoolInv, TxInv, BatchesHeld, BatchesWithinLimits, WithinLimits
<1> QED
  BY <1>1, <1>2, PlacesApart DEF MempoolInv, BatchesSound

(* Any number of workers that drain one channel, and put back beside it,    *)
(* batch no submission twice and keep both limits.                          *)
THEOREM MempoolBatchesSoundly == Spec => []BatchesSound
<1>1. MempoolInv /\ [Next]_vars => MempoolInv'
  BY MempoolNextInv
<1> QED
  BY <1>1, MempoolInitInv, MempoolSound, PTL DEF Spec

(* A submission that was sent stays in the mempool or in a batch that was   *)
(* built, unless the build of the worker that holds it fails.               *)
THEOREM MempoolLosesNothing == Spec => NoTxLost
<1>1. MempoolInv /\ [Next]_vars => MempoolInv'
  BY MempoolNextInv
<1>2. MempoolInv /\ [Next]_vars => [OnlyFailedBuildsLose]_vars
  BY MempoolNextInv
<1> QED
  BY <1>1, <1>2, MempoolInitInv, PTL DEF Spec, NoTxLost, OnlyFailedBuildsLose
=============================================================================
