-------------------------- MODULE FlowGraphProofs --------------------------
(***************************************************************************)
(* Proofs about the flow graph for every set of batches and every bound:   *)
(* the types, the exactness of the roots and tips indexes, the soundness   *)
(* of the recorded edges, that a batch inserted before one of its parents  *)
(* is never linked to it, and what topological_sort answers.               *)
(***************************************************************************)
EXTENDS FlowGraphOrder, Sums, SequenceTheorems, TLAPS

(* The inductive invariant: the indexes are exact only because the edges    *)
(* and the domains are, so the three are proved together.                   *)
GraphInv == TypeOK /\ IndexesExact /\ EdgesSound

(* The empty graph satisfies it. *)
LEMMA InitGraphInv == Init => GraphInv
  BY BoundsAssumption
  DEF Init, GraphInv, TypeOK, IndexesExact, EdgesSound, Authored, Present, Vertex

(* What WithChild gives for one vertex. *)
LEMMA WithChildFacts ==
  ASSUME TypeOK, NEW b \in Authored, NEW p \in Present
  PROVE  /\ WithChild(vertices, b)[p] \in Vertex
         /\ WithChild(vertices, b)[p].parents = vertices[p].parents
         /\ WithChild(vertices, b)[p].children =
              IF p \in prev[b] THEN vertices[p].children \cup {b} ELSE vertices[p].children
  <1>1. vertices[p] \in Vertex
    BY DEF TypeOK
  <1>2. b \in Batches
    BY DEF TypeOK
  <1>3. CASE p \in prev[b]
    <2>1. WithChild(vertices, b)[p] = [vertices[p] EXCEPT !.children = @ \cup {b}]
      BY <1>3 DEF WithChild, Present
    <2> QED
      BY <1>1, <1>2, <1>3, <2>1 DEF Vertex
  <1>4. CASE p \notin prev[b]
    BY <1>1, <1>4 DEF WithChild, Present
  <1> QED
    BY <1>3, <1>4

(* The step lemmas: one per operation of the graph.  The mempool authors    *)
(* batches in a step of its own, so the contents are a lemma by themselves. *)
LEMMA AuthoredStep ==
  ASSUME GraphInv, NEW b \in Batches, b \notin Authored, NEW ps \in SUBSET Authored,
         prev' = [x \in Authored \cup {b} |-> IF x = b THEN ps ELSE prev[x]],
         UNCHANGED graphVars
  PROVE  GraphInv'
  <1> USE DEF GraphInv
  <1>1. Authored' = Authored \cup {b} /\ Present' = Present
    BY DEF Authored, Present, graphVars
  <1>2. \A x \in Authored : prev'[x] = prev[x]
    OBVIOUS
  <1>3. TypeOK'
    <2>1. prev' \in [Authored' -> SUBSET Authored']
      <3>1. \A x \in Authored' : prev'[x] \in SUBSET Authored'
        BY <1>1, <1>2 DEF TypeOK
      <3> QED
        BY <1>1, <3>1
    <2> QED
      BY <1>1, <2>1 DEF TypeOK, graphVars
  <1>4. IndexesExact'
    BY <1>1 DEF IndexesExact, graphVars
  <1>5. EdgesSound'
    BY <1>1, <1>2 DEF EdgesSound, graphVars, TypeOK
  <1> QED
    BY <1>3, <1>4, <1>5

LEMMA AuthorStep ==
  ASSUME GraphInv, NEW b \in Batches, Author(b)
  PROVE  GraphInv'
  <1>1. PICK ps \in SUBSET Authored :
          prev' = [x \in Authored \cup {b} |-> IF x = b THEN ps ELSE prev[x]]
    BY DEF Author
  <1> QED
    BY <1>1, AuthoredStep DEF Author

(* add_batch updates the children of the parents and both indexes together. *)
LEMMA AddBatchStep ==
  ASSUME GraphInv, NEW b \in Batches, AddBatch(b)
  PROVE  GraphInv'
  <1> USE DEF GraphInv
  <1>1. /\ b \in Authored /\ b \notin Present /\ clock < MaxAdds
        /\ vertices' = Inserted(b)
        /\ roots' = IF prev[b] = {} THEN roots \cup {b} ELSE roots
        /\ tips' = (tips \ (prev[b] \cap Present)) \cup {b}
        /\ clock' = clock + 1
        /\ prev' = prev
    BY DEF AddBatch, ContainsBatch
  <1>2. Present' = Present \cup {b} /\ Authored' = Authored
    BY <1>1 DEF Present, Inserted, Authored
  <1>3. vertices'[b] = NewVertex(b)
    BY <1>1 DEF Inserted
  <1>4. \A p \in Present : vertices'[p] = WithChild(vertices, b)[p]
    BY <1>1 DEF Inserted
  <1>5. NewVertex(b) \in Vertex
    BY <1>1, BoundsAssumption DEF NewVertex, Vertex, TypeOK
  <1>6. NewVertex(b).parents = prev[b] /\ NewVertex(b).children = {}
    BY DEF NewVertex
  <1>7. TypeOK'
    <2>1. \A x \in Present' : vertices'[x] \in Vertex
      BY <1>1, <1>2, <1>3, <1>4, <1>5, WithChildFacts
    <2>2. vertices' \in [Present' -> Vertex]
      BY <1>1, <1>2, <2>1 DEF Inserted
    <2>3. clock' \in 0..MaxAdds
      BY <1>1, BoundsAssumption DEF TypeOK
    <2> QED
      BY <1>1, <1>2, <2>2, <2>3 DEF TypeOK
  <1>8. \A p \in Present : /\ vertices'[p].parents = vertices[p].parents
                           /\ vertices'[p].children =
                                IF p \in prev[b] THEN vertices[p].children \cup {b}
                                ELSE vertices[p].children
    BY <1>1, <1>4, WithChildFacts
  <1>9. IndexesExact'
    BY <1>1, <1>2, <1>3, <1>6, <1>8 DEF IndexesExact
  <1>10. EdgesSound'
    <2>1. /\ vertices'[b].parents = prev'[b]
          /\ \A c \in vertices'[b].children : c \in Authored' /\ b \in prev'[c]
      BY <1>1, <1>3, <1>6
    <2>2. ASSUME NEW p \in Present
          PROVE  /\ vertices'[p].parents = prev'[p]
                 /\ \A c \in vertices'[p].children : c \in Authored' /\ p \in prev'[c]
      <3>1. /\ vertices[p].parents = prev[p]
            /\ \A c \in vertices[p].children : c \in Authored /\ p \in prev[c]
        BY DEF EdgesSound
      <3>2. CASE p \in prev[b]
        BY <1>1, <1>2, <1>8, <3>1, <3>2
      <3>3. CASE p \notin prev[b]
        BY <1>1, <1>2, <1>8, <3>1, <3>3
      <3> QED
        BY <3>2, <3>3
    <2> QED
      BY <1>2, <2>1, <2>2 DEF EdgesSound
  <1> QED
    BY <1>7, <1>9, <1>10

(* set_certificate and mark_finalized leave edges and indexes alone. *)
LEMMA MarkStep ==
  ASSUME GraphInv, NEW b \in Batches, Mark(b)
  PROVE  GraphInv'
  <1> USE DEF GraphInv
  <1>1. /\ b \in Present /\ UNCHANGED <<prev, roots, tips, clock>>
        /\ \/ vertices' = [vertices EXCEPT ![b].certified = TRUE]
           \/ vertices' = [vertices EXCEPT ![b].finalized = TRUE]
    BY DEF Mark, SetCertificate, MarkFinalized, ContainsBatch
  <1>2. Present' = Present /\ Authored' = Authored
    BY <1>1 DEF Present, Authored
  <1>3. ASSUME NEW x \in Present
        PROVE  /\ vertices'[x] \in Vertex
               /\ vertices'[x].parents = vertices[x].parents
               /\ vertices'[x].children = vertices[x].children
    <2>1. vertices[x] \in Vertex /\ vertices \in [Present -> Vertex]
      BY DEF TypeOK
    <2>2. \/ vertices'[x] = [vertices[x] EXCEPT !.certified = TRUE]
          \/ vertices'[x] = [vertices[x] EXCEPT !.finalized = TRUE]
          \/ vertices'[x] = vertices[x]
      BY <1>1, <2>1
    <2> QED
      BY <2>1, <2>2 DEF Vertex
  <1>4. vertices' \in [Present' -> Vertex]
    BY <1>1, <1>2, <1>3 DEF TypeOK
  <1> QED
    BY <1>1, <1>2, <1>3, <1>4 DEF TypeOK, IndexesExact, EdgesSound

(* prune_old_batches drops the same batches from the map and the indexes. *)
LEMMA PruneStep ==
  ASSUME GraphInv, NEW cut \in 1..clock, PruneOldBatches(cut)
  PROVE  GraphInv'
  <1> USE DEF GraphInv
  <1>1. /\ vertices' = [x \in Present \ Prunable(cut) |-> vertices[x]]
        /\ roots' = roots \ Prunable(cut)
        /\ tips' = tips \ Prunable(cut)
        /\ UNCHANGED <<prev, clock>>
    BY DEF PruneOldBatches, Restrict
  <1>2. Present' = Present \ Prunable(cut) /\ Authored' = Authored
    BY <1>1 DEF Present, Authored
  <1>3. \A x \in Present' : vertices'[x] = vertices[x]
    BY <1>1, <1>2
  <1>4. TypeOK'
    BY <1>1, <1>2, <1>3 DEF TypeOK
  <1>5. IndexesExact'
    BY <1>1, <1>2, <1>3 DEF IndexesExact
  <1>6. EdgesSound'
    BY <1>1, <1>2, <1>3 DEF EdgesSound
  <1> QED
    BY <1>4, <1>5, <1>6

(* clear empties all three. *)
LEMMA ClearStep ==
  ASSUME GraphInv, Clear
  PROVE  GraphInv'
  BY DEF GraphInv, Clear, TypeOK, IndexesExact, EdgesSound, Authored, Present

(* Every step of the graph, with or without causal arrival, keeps it.       *)
LEMMA GraphStep == GraphInv /\ [Next]_vars => GraphInv'
  <1> SUFFICES ASSUME GraphInv, [Next]_vars
               PROVE  GraphInv'
    OBVIOUS
  <1>1. CASE \E b \in Batches : Author(b) \/ AddBatch(b) \/ Mark(b)
    BY <1>1, AuthorStep, AddBatchStep, MarkStep
  <1>2. CASE Prune
    BY <1>2, PruneStep DEF Prune
  <1>3. CASE Clear
    BY <1>3, ClearStep
  <1>4. CASE UNCHANGED vars
    BY <1>4 DEF vars, GraphInv, TypeOK, IndexesExact, EdgesSound, Authored, Present
  <1> QED
    BY <1>1, <1>2, <1>3, <1>4 DEF Next

(* Safety: in every behaviour of flow_graph.rs the graph is well typed, its *)
(* roots and tips indexes are exact and its recorded edges are causal       *)
(* links, whatever the arrival order of the batches, pruning and clearing.  *)
THEOREM GraphCorrect == Spec => []GraphConsistent
  <1>1. GraphInv => GraphConsistent
    BY DEF GraphInv, GraphConsistent
  <1> QED
    BY InitGraphInv, GraphStep, <1>1, PTL DEF Spec

(* No step of the graph links a batch that stays in it to a parent it       *)
(* lacked before the step.                                                  *)
LEMMA UnlinkedStep ==
  ASSUME GraphInv, [Next]_vars, NEW c \in Present \cap Present', ~Linked(c)
  PROVE  ~Linked(c)'
  <1> USE DEF GraphInv
  <1>1. PICK p \in prev[c] : ~LinkedTo(c, p)
    BY DEF Linked
  <1>2. c \in Authored
    BY DEF TypeOK
  <1>3. SUFFICES prev'[c] = prev[c] /\ ~LinkedTo(c, p)'
    BY <1>1 DEF Linked
  <1>4. ASSUME NEW b \in Batches, Author(b)
        PROVE  prev'[c] = prev[c] /\ ~LinkedTo(c, p)'
    BY <1>1, <1>2, <1>4 DEF Author, graphVars, LinkedTo, Present
  <1>5. ASSUME NEW b \in Batches, AddBatch(b)
        PROVE  prev'[c] = prev[c] /\ ~LinkedTo(c, p)'
    <2>1. /\ b \in Authored /\ b \notin Present /\ prev' = prev
          /\ vertices' = Inserted(b)
      BY <1>5 DEF AddBatch, ContainsBatch
    <2>2. b # c /\ Present' = Present \cup {b}
      BY <2>1 DEF Present, Inserted
    <2>3. CASE p = b
      BY <2>1, <2>3 DEF LinkedTo, Inserted, NewVertex
    <2>4. CASE p \in Present /\ p # b
      <3>1. vertices'[p] = WithChild(vertices, b)[p]
        BY <2>1, <2>4 DEF Inserted
      <3>2. WithChild(vertices, b)[p].children \subseteq vertices[p].children \cup {b}
        BY <2>1, <2>4, WithChildFacts
      <3> QED
        BY <1>1, <2>1, <2>2, <2>4, <3>1, <3>2 DEF LinkedTo
    <2>5. CASE p \notin Present /\ p # b
      BY <2>1, <2>2, <2>5 DEF LinkedTo
    <2> QED
      BY <2>3, <2>4, <2>5
  <1>6. ASSUME NEW b \in Batches, Mark(b)
        PROVE  prev'[c] = prev[c] /\ ~LinkedTo(c, p)'
    <2>1. /\ prev' = prev
          /\ \/ vertices' = [vertices EXCEPT ![b].certified = TRUE]
             \/ vertices' = [vertices EXCEPT ![b].finalized = TRUE]
      BY <1>6 DEF Mark, SetCertificate, MarkFinalized
    <2>2. Present' = Present
      BY <2>1 DEF Present
    <2>3. ASSUME NEW x \in Present
          PROVE  vertices'[x].children = vertices[x].children
      <3>1. vertices[x] \in Vertex /\ vertices \in [Present -> Vertex]
        BY DEF TypeOK
      <3>2. \/ vertices'[x] = [vertices[x] EXCEPT !.certified = TRUE]
            \/ vertices'[x] = [vertices[x] EXCEPT !.finalized = TRUE]
            \/ vertices'[x] = vertices[x]
        BY <2>1, <3>1
      <3> QED
        BY <3>1, <3>2 DEF Vertex
    <2> QED
      BY <1>1, <2>1, <2>2, <2>3 DEF LinkedTo
  <1>7. CASE Prune
    <2>1. PICK cut \in 1..clock : PruneOldBatches(cut)
      BY <1>7 DEF Prune
    <2> QED
      BY <1>1, <2>1 DEF PruneOldBatches, Restrict, LinkedTo, Present
  <1>8. CASE Clear
    BY <1>8 DEF Clear, LinkedTo, Present
  <1>9. CASE UNCHANGED vars
    BY <1>1, <1>9 DEF vars, LinkedTo, Present
  <1> QED
    BY <1>4, <1>5, <1>6, <1>7, <1>8, <1>9 DEF Next

(* The hazard of add_batch, for every graph: a batch that lacks the link to *)
(* one of its parents never gets it while it stays in the graph.            *)
THEOREM NothingRelinks == Spec => UnlinkedForever
  <1>1. GraphInv /\ [Next]_vars =>
          [\A c \in Present \cap Present' : ~Linked(c) => ~Linked(c)']_vars
    BY UnlinkedStep
  <1> QED
    BY InitGraphInv, GraphStep, <1>1, PTL DEF Spec, UnlinkedForever

-----------------------------------------------------------------------------
(* topological_sort: the recursive function that stands for its loop is     *)
(* shown to exist, its loop invariant to hold at every iteration, and the   *)
(* loop to end because every iteration pops another batch for good.         *)

(* One iteration of the loop: the children of the popped batch, their       *)
(* degrees, the batches that become ready, and the state it leaves.         *)
Kids(s) == vertices[Head(s.queue)].children \cap Present
Lowered(s) == [c \in Present |-> s.degree[c] - (IF c \in Kids(s) THEN 1 ELSE 0)]
Ready(s) == {c \in Kids(s) : Lowered(s)[c] = 0}
After(s, order) ==
  [queue |-> Tail(s.queue) \o order, degree |-> Lowered(s),
   result |-> Append(s.result, Head(s.queue))]

Monotone(F, S, R) ==
  /\ F \in [[S -> SUBSET R] -> [S -> SUBSET R]]
  /\ \A g \in [S -> SUBSET R], h \in [S -> SUBSET R] :
       (\A s \in S : g[s] \subseteq h[s]) => \A s \in S : F[g][s] \subseteq F[h][s]

(* A monotone operator on set-valued functions has a fixed point: the least *)
(* function that is closed under it.                                        *)
LEMMA LeastFixpoint ==
  ASSUME NEW S, NEW R, NEW F, Monotone(F, S, R)
  PROVE  \E f \in [S -> SUBSET R] : F[f] = f
<1> USE DEF Monotone
<1> DEFINE Closed(g) == \A s \in S : F[g][s] \subseteq g[s]
           f == [s \in S |-> {r \in R : \A g \in [S -> SUBSET R] : Closed(g) => r \in g[s]}]
<1>1. f \in [S -> SUBSET R]
  OBVIOUS
<1>2. \A g \in [S -> SUBSET R] : Closed(g) => \A s \in S : f[s] \subseteq g[s]
  OBVIOUS
<1>3. \A s \in S : \A r \in R :
        (\A g \in [S -> SUBSET R] : Closed(g) => r \in g[s]) => r \in f[s]
  OBVIOUS
<1> HIDE DEF f
<1>4. F[f] \in [S -> SUBSET R]
  BY <1>1
<1>5. Closed(f)
  <2>1. ASSUME NEW g \in [S -> SUBSET R], Closed(g), NEW s \in S
        PROVE  F[f][s] \subseteq g[s]
    <3>1. F[f][s] \subseteq F[g][s]
      BY <1>1, <1>2, <2>1
    <3> QED
      BY <2>1, <3>1
  <2>2. ASSUME NEW s \in S, NEW r \in F[f][s]
        PROVE  r \in f[s]
    <3>1. r \in R
      BY <1>4
    <3> QED
      BY <1>3, <2>1, <3>1
  <2> QED
    BY <2>2
<1>6. Closed(F[f])
  BY <1>1, <1>4, <1>5
<1>7. \A s \in S : f[s] = F[f][s]
  BY <1>2, <1>4, <1>5, <1>6
<1> QED
  BY <1>1, <1>4, <1>7

(* The orders in which the map may yield a finite set of batches.           *)
LEMMA OrdersOfSet ==
  ASSUME NEW S, IsFiniteSet(S)
  PROVE  /\ SetToSeqs(S) # {}
         /\ \A o \in SetToSeqs(S) : o \in Seq(S) /\ NoRepeat(o) /\ ToSet(o) = S
<1> DEFINE n == Cardinality(S)
<1>1. n \in Nat /\ ExistsBijection(1..n, S)
  BY FS_CardinalityType
<1>2. PICK h \in Bijection(1..n, S) : TRUE
  BY <1>1 DEF ExistsBijection
<1>3. h \in SetToSeqs(S)
  BY <1>2 DEF SetToSeqs, Bijection, Injection, IsInjective
<1>4. ASSUME NEW o \in SetToSeqs(S)
      PROVE  o \in Seq(S) /\ NoRepeat(o) /\ ToSet(o) = S
  <2>1. o \in [1..n -> S] /\ \A i, j \in 1..n : i # j => o[i] # o[j]
    BY DEF SetToSeqs
  <2>2. o \in Seq(S) /\ Len(o) = n /\ DOMAIN o = 1..n
    BY <1>1, <2>1
  <2>3. o \in Injection(1..n, S)
    BY <2>1 DEF Injection, IsInjective
  <2>4. Cardinality(1..n) = n /\ IsFiniteSet(1..n)
    BY <1>1, FS_Interval
  <2>5. o \in Surjection(1..n, S)
    BY <2>3, <2>4, FS_Injection
  <2> QED
    BY <2>1, <2>2, <2>5 DEF NoRepeat, ToSet, Surjection
<1> QED
  BY <1>3, <1>4

(* Sequences without repetition: taking the head, appending, concatenating. *)
LEMMA TailOf ==
  ASSUME NEW S, NEW q \in Seq(S), NoRepeat(q), q # << >>
  PROVE  /\ Head(q) \in ToSet(q) /\ Head(q) \in S /\ Tail(q) \in Seq(S)
         /\ NoRepeat(Tail(q))
         /\ ToSet(Tail(q)) = ToSet(q) \ {Head(q)}
<1>1. Head(q) = q[1] /\ Len(q) \in Nat \ {0} /\ DOMAIN q = 1..Len(q)
  BY EmptySeq
<1>2. /\ Head(q) \in S /\ Tail(q) \in Seq(S) /\ Len(Tail(q)) = Len(q) - 1
      /\ \A i \in 1..Len(Tail(q)) : Tail(q)[i] = q[i + 1]
      /\ DOMAIN Tail(q) = 1..Len(Tail(q))
  BY HeadTailProperties, LenProperties
<1>3. Head(q) \in ToSet(q)
  BY <1>1 DEF ToSet
<1>4. NoRepeat(Tail(q))
  <2>1. SUFFICES ASSUME NEW i \in 1..Len(Tail(q)), NEW j \in 1..Len(Tail(q)),
                        Tail(q)[i] = Tail(q)[j]
                 PROVE  i = j
    BY DEF NoRepeat
  <2>2. q[i + 1] = q[j + 1] /\ i + 1 \in 1..Len(q) /\ j + 1 \in 1..Len(q)
    BY <1>1, <1>2, <2>1
  <2>3. i + 1 = j + 1
    BY <2>2 DEF NoRepeat
  <2> QED
    BY <2>3
<1>5. ToSet(Tail(q)) \subseteq ToSet(q) \ {Head(q)}
  <2>1. SUFFICES ASSUME NEW i \in 1..Len(Tail(q))
                 PROVE  Tail(q)[i] \in ToSet(q) /\ Tail(q)[i] # Head(q)
    BY <1>2 DEF ToSet
  <2>2. Tail(q)[i] = q[i + 1] /\ i + 1 \in 1..Len(q) /\ i + 1 # 1 /\ 1 \in 1..Len(q)
    BY <1>1, <1>2
  <2>3. q[i + 1] # q[1]
    BY <2>2 DEF NoRepeat
  <2> QED
    BY <1>1, <2>2, <2>3 DEF ToSet
<1>6. ToSet(q) \ {Head(q)} \subseteq ToSet(Tail(q))
  <2>1. SUFFICES ASSUME NEW i \in 1..Len(q), q[i] # q[1]
                 PROVE  q[i] \in ToSet(Tail(q))
    BY <1>1 DEF ToSet
  <2>2. i - 1 \in 1..Len(Tail(q)) /\ Tail(q)[i - 1] = q[(i - 1) + 1]
    BY <1>1, <1>2, <2>1
  <2>3. q[i] = Tail(q)[i - 1]
    BY <2>2
  <2> QED
    BY <1>2, <2>2, <2>3 DEF ToSet
<1> QED
  BY <1>2, <1>3, <1>4, <1>5, <1>6

LEMMA JoinOf ==
  ASSUME NEW S, NEW q \in Seq(S), NoRepeat(q), NEW o \in Seq(S), NoRepeat(o),
         ToSet(q) \cap ToSet(o) = {}
  PROVE  q \o o \in Seq(S) /\ NoRepeat(q \o o) /\ ToSet(q \o o) = ToSet(q) \cup ToSet(o)
<1> DEFINE m == Len(q)
           n == Len(o)
<1>1. m \in Nat /\ n \in Nat /\ DOMAIN q = 1..m /\ DOMAIN o = 1..n
  BY LenProperties
<1>2. /\ q \o o \in Seq(S) /\ Len(q \o o) = m + n
      /\ \A i \in 1..m + n : (q \o o)[i] = IF i <= m THEN q[i] ELSE o[i - m]
  BY ConcatProperties
<1>3. DOMAIN (q \o o) = 1..m + n
  BY <1>2, LenProperties
<1>4. PICK w : w = q \o o
  OBVIOUS
<1>5. \A i \in 1..m : i \in 1..m + n /\ w[i] = q[i] /\ q[i] \in ToSet(q)
  BY <1>1, <1>2, <1>4 DEF ToSet
<1>6. \A i \in 1..n : m + i \in 1..m + n /\ w[m + i] = o[i] /\ o[i] \in ToSet(o)
  <2>1. ASSUME NEW i \in 1..n
        PROVE  m + i \in 1..m + n /\ ~(m + i <= m) /\ (m + i) - m = i
    BY <1>1
  <2> QED
    BY <1>1, <1>2, <1>4, <2>1 DEF ToSet
<1>7. \A i \in 1..m + n : i \in 1..m \/ \E k \in 1..n : i = m + k
  <2>1. ASSUME NEW i \in 1..m + n, i \notin 1..m
        PROVE  i - m \in 1..n /\ i = m + (i - m)
    BY <1>1, <2>1
  <2> QED
    BY <2>1
<1> HIDE DEF m, n
<1>8. ToSet(w) = ToSet(q) \cup ToSet(o)
  <2>1. ToSet(w) = {w[i] : i \in 1..m + n} /\ ToSet(q) = {q[i] : i \in 1..m}
        /\ ToSet(o) = {o[i] : i \in 1..n}
    BY <1>1, <1>3, <1>4 DEF ToSet
  <2>2. ToSet(w) \subseteq ToSet(q) \cup ToSet(o)
    BY <1>5, <1>6, <1>7, <2>1
  <2>3. ToSet(q) \subseteq ToSet(w)
    BY <1>5, <2>1
  <2>4. ToSet(o) \subseteq ToSet(w)
    BY <1>6, <2>1
  <2> QED
    BY <2>2, <2>3, <2>4
<1>9. \A i \in 1..m + n, j \in 1..m + n : w[i] = w[j] => i = j
  <2>1. SUFFICES ASSUME NEW i \in 1..m + n, NEW j \in 1..m + n, w[i] = w[j]
                 PROVE  i = j
    OBVIOUS
  <2>2. CASE i \in 1..m /\ j \in 1..m
    BY <1>5, <2>1, <2>2 DEF NoRepeat, m
  <2>3. CASE i \notin 1..m /\ j \notin 1..m
    BY <1>6, <1>7, <2>1, <2>3 DEF NoRepeat, n
  <2>4. CASE i \in 1..m /\ j \notin 1..m
    BY <1>5, <1>6, <1>7, <2>1, <2>4
  <2>5. CASE i \notin 1..m /\ j \in 1..m
    BY <1>5, <1>6, <1>7, <2>1, <2>5
  <2> QED
    BY <2>2, <2>3, <2>4, <2>5
<1>10. Len(w) = m + n
  BY <1>2, <1>4 DEF m, n
<1> QED
  BY <1>2, <1>4, <1>8, <1>9, <1>10 DEF NoRepeat

LEMMA AppendOf ==
  ASSUME NEW S, NEW q \in Seq(S), NoRepeat(q), NEW b \in S, b \notin ToSet(q)
  PROVE  /\ Append(q, b) \in Seq(S) /\ NoRepeat(Append(q, b))
         /\ ToSet(Append(q, b)) = ToSet(q) \cup {b}
         /\ Len(Append(q, b)) = Len(q) + 1 /\ Append(q, b)[Len(q) + 1] = b
         /\ \A i \in 1..Len(q) : Append(q, b)[i] = q[i]
<1> DEFINE n == Len(q)
           w == Append(q, b)
<1>1. /\ w \in Seq(S) /\ Len(w) = n + 1 /\ w[n + 1] = b
      /\ \A i \in 1..n : w[i] = q[i]
  BY AppendProperties
<1>2. n \in Nat /\ DOMAIN q = 1..n /\ DOMAIN w = 1..n + 1
  BY <1>1, LenProperties
<1>3. \A i \in 1..n : q[i] \in ToSet(q) /\ i \in 1..n + 1
  BY <1>2 DEF ToSet
<1>4. \A i \in 1..n + 1 : i \in 1..n \/ i = n + 1
  BY <1>2
<1>5. n + 1 \in 1..n + 1
  BY <1>2
<1> HIDE DEF n, w
<1>6. ToSet(w) = ToSet(q) \cup {b}
  BY <1>1, <1>2, <1>3, <1>4, <1>5 DEF ToSet
<1>7. \A i \in 1..n + 1, j \in 1..n + 1 : w[i] = w[j] => i = j
  <2>1. \A i \in 1..n, j \in 1..n : q[i] = q[j] => i = j
    BY DEF NoRepeat, n
  <2> QED
    BY <1>1, <1>3, <1>4, <2>1
<1> QED
  BY <1>1, <1>6, <1>7 DEF NoRepeat, n, w

(* Without repetition the length of a sequence is the size of its range.    *)
LEMMA LengthIsSize ==
  ASSUME NEW S, NEW q \in Seq(S), NoRepeat(q)
  PROVE  IsFiniteSet(ToSet(q)) /\ Len(q) = Cardinality(ToSet(q))
<1> DEFINE n == Len(q)
           T == ToSet(q)
<1>1. n \in Nat /\ DOMAIN q = 1..n /\ q \in [1..n -> S]
  BY LenProperties
<1>2. q \in [1..n -> T]
  BY <1>1 DEF ToSet
<1>3. q \in Surjection(1..n, T)
  BY <1>1, <1>2 DEF Surjection, ToSet
<1>4. q \in Injection(1..n, T)
  BY <1>2 DEF Injection, IsInjective, NoRepeat
<1>5. IsFiniteSet(1..n) /\ Cardinality(1..n) = n
  BY <1>1, FS_Interval
<1> HIDE DEF n, T
<1> QED
  BY <1>3, <1>4, <1>5, FS_Surjection DEF n, T

-----------------------------------------------------------------------------
(* What the loop of topological_sort rests on besides GraphInv: there are   *)
(* finitely many batches, and a recorded edge goes from an earlier to a     *)
(* later insertion.                                                         *)
EdgesInTime ==
  /\ \A p \in Present : vertices[p].added <= clock
  /\ \A p \in Present : \A c \in vertices[p].children \cap Present :
       vertices[p].added < vertices[c].added
OrderInv == GraphInv /\ IsFiniteSet(Authored) /\ EdgesInTime

(* The parents a batch still waits for when the batches in R are popped.    *)
Missing(c, R) == {p \in prev[c] : ~(p \in R /\ LinkedTo(c, p))}

(* The loop's invariant. *)
LoopInv(s) ==
  /\ s \in KahnState
  /\ NoRepeat(s.queue) /\ NoRepeat(s.result)
  /\ ToSet(s.queue) \subseteq Present /\ ToSet(s.result) \subseteq Present
  /\ ToSet(s.queue) \cap ToSet(s.result) = {}
  /\ \A c \in Present : s.degree[c] = Cardinality(Missing(c, ToSet(s.result)))
  /\ \A c \in Present : c \in ToSet(s.queue) \cup ToSet(s.result)
                          <=> Missing(c, ToSet(s.result)) = {}
  /\ \A j \in 1..Len(s.result) : \A p \in prev[s.result[j]] :
       \E i \in 1..Len(s.result) : i < j /\ s.result[i] = p

(* What it leaves: the batches it reached, once each and parents first; a   *)
(* batch is reached exactly if it is linked to parents that all are.        *)
Reached(r) ==
  /\ r \in Seq(Batches) /\ NoRepeat(r) /\ ToSet(r) \subseteq Present
  /\ \A c \in Present : c \in ToSet(r) <=> Missing(c, ToSet(r)) = {}
  /\ \A j \in 1..Len(r) : \A p \in prev[r[j]] : \E i \in 1..Len(r) : i < j /\ r[i] = p

LEMMA PresentFinite ==
  ASSUME OrderInv
  PROVE  /\ IsFiniteSet(Present) /\ Present \subseteq Batches
         /\ \A c \in Present : /\ IsFiniteSet(prev[c]) /\ vertices[c].parents = prev[c]
                               /\ \A b \in vertices[c].children : c \in prev[b]
<1>1. Present \subseteq Authored /\ Authored \subseteq Batches
      /\ \A c \in Present : prev[c] \subseteq Authored
  BY DEF OrderInv, GraphInv, TypeOK
<1>2. IsFiniteSet(Authored)
  BY DEF OrderInv
<1> QED
  BY <1>1, <1>2, FS_Subset DEF OrderInv, GraphInv, EdgesSound

LEMMA MissingFinite ==
  ASSUME OrderInv, NEW c \in Present, NEW R
  PROVE  IsFiniteSet(Missing(c, R)) /\ Cardinality(Missing(c, R)) \in Nat
<1>1. Missing(c, R) \in SUBSET prev[c]
  BY DEF Missing
<1> QED
  BY <1>1, PresentFinite, FS_Subset, FS_CardinalityType

(* An iteration stays within the states of the loop. *)
LEMMA AfterIsState ==
  ASSUME OrderInv, NEW s \in KahnState, s.queue # << >>
  PROVE  /\ IsFiniteSet(Ready(s)) /\ Ready(s) \subseteq Present
         /\ \A o \in SetToSeqs(Ready(s)) : After(s, o) \in KahnState
<1>1. Ready(s) \in SUBSET Present
  BY DEF Ready, Kids
<1>2. IsFiniteSet(Ready(s)) /\ Ready(s) \subseteq Batches
  BY <1>1, PresentFinite, FS_Subset
<1>3. /\ s.queue \in Seq(Batches) /\ s.result \in Seq(Batches)
      /\ s.degree \in [Present -> Int]
  BY DEF KahnState
<1>4. Head(s.queue) \in Batches /\ Tail(s.queue) \in Seq(Batches)
  BY <1>3, HeadTailProperties
<1>5. Lowered(s) \in [Present -> Int]
  BY <1>3 DEF Lowered
<1>6. Append(s.result, Head(s.queue)) \in Seq(Batches)
  BY <1>3, <1>4, AppendProperties
<1>7. ASSUME NEW o \in SetToSeqs(Ready(s))
      PROVE  After(s, o) \in KahnState
  <2>1. o \in Seq(Ready(s))
    BY <1>2, OrdersOfSet
  <2>2. o \in Seq(Batches)
    BY <1>2, <2>1
  <2>3. Tail(s.queue) \o o \in Seq(Batches)
    BY <1>4, <2>2, ConcatProperties
  <2> QED
    BY <1>5, <1>6, <2>3 DEF After, KahnState
<1> QED
  BY <1>1, <1>2, <1>7

(* The loop is well defined, and its outcomes are those of the states one   *)
(* iteration leads to.                                                      *)
LEMMA KahnStep ==
  ASSUME OrderInv
  PROVE  \A s \in KahnState :
           Kahn[s] = IF s.queue = << >> THEN {s.result}
                     ELSE UNION {Kahn[After(s, o)] : o \in SetToSeqs(Ready(s))}
<1> DEFINE R == Seq(Batches)
           G == [KahnState -> SUBSET R]
           Body(f, s) == IF s.queue = << >> THEN {s.result}
                         ELSE UNION {f[After(s, o)] : o \in SetToSeqs(Ready(s))}
           F == [g \in G |-> [s \in KahnState |-> Body(g, s)]]
<1>1. F \in [G -> G]
  <2>1. ASSUME NEW g \in G, NEW s \in KahnState
        PROVE  Body(g, s) \in SUBSET R
    <3>1. s.result \in R
      BY DEF KahnState
    <3>2. ASSUME s.queue # << >>, NEW o \in SetToSeqs(Ready(s))
          PROVE  g[After(s, o)] \in SUBSET R
      BY <3>2, AfterIsState
    <3> QED
      BY <3>1, <3>2
  <2> HIDE DEF Body
  <2> QED
    BY <2>1
<1>2. \A g \in G, h \in G : (\A s \in KahnState : g[s] \subseteq h[s])
        => \A s \in KahnState : F[g][s] \subseteq F[h][s]
  <2>1. SUFFICES ASSUME NEW g \in G, NEW h \in G, \A s \in KahnState : g[s] \subseteq h[s],
                        NEW s \in KahnState
                 PROVE  Body(g, s) \subseteq Body(h, s)
    OBVIOUS
  <2>2. CASE s.queue # << >>
    <3>1. \A o \in SetToSeqs(Ready(s)) : g[After(s, o)] \subseteq h[After(s, o)]
      BY <2>1, <2>2, AfterIsState
    <3> QED
      BY <2>2, <3>1
  <2> QED
    BY <2>2
<1>3. PICK f \in G : F[f] = f
  <2>1. F \in [[KahnState -> SUBSET R] -> [KahnState -> SUBSET R]]
    BY <1>1
  <2>2. \A g \in [KahnState -> SUBSET R], h \in [KahnState -> SUBSET R] :
          (\A s \in KahnState : g[s] \subseteq h[s])
            => \A s \in KahnState : F[g][s] \subseteq F[h][s]
    BY <1>2
  <2> HIDE DEF F, R
  <2>3. Monotone(F, KahnState, R)
    BY <2>1, <2>2 DEF Monotone
  <2>4. \E f \in [KahnState -> SUBSET R] : F[f] = f
    BY <2>3, LeastFixpoint
  <2> QED
    BY <2>4
<1>4. f = [s \in KahnState |-> Body(f, s)]
  BY <1>3
<1> HIDE DEF G
<1> DEFINE Loop(g, s) ==
             IF s.queue = << >> THEN {s.result}
             ELSE LET b == Head(s.queue)
                      kids == vertices[b].children \cap Present
                      degree == [c \in Present |-> s.degree[c] - (IF c \in kids THEN 1 ELSE 0)]
                      ready == {c \in kids : degree[c] = 0}
                  IN  UNION {g[[queue |-> Tail(s.queue) \o order, degree |-> degree,
                                result |-> Append(s.result, b)]] : order \in SetToSeqs(ready)}
<1>5. ASSUME NEW g
      PROVE  [s \in KahnState |-> Body(g, s)] = [s \in KahnState |-> Loop(g, s)]
  BY DEF After, Ready, Lowered, Kids
<1>6. Kahn = CHOOSE g : g = [s \in KahnState |-> Loop(g, s)]
  BY DEF Kahn
<1> HIDE DEF Body, Loop
<1>7. f = [s \in KahnState |-> Loop(f, s)]
  BY <1>4, <1>5
<1>8. Kahn = [s \in KahnState |-> Loop(Kahn, s)]
  BY <1>6, <1>7
<1>9. Kahn = [s \in KahnState |-> Body(Kahn, s)]
  BY <1>5, <1>8
<1>10. \A s \in KahnState : Kahn[s] = Body(Kahn, s)
  BY <1>9
<1> QED
  BY <1>10 DEF Body

(* The loop starts in its invariant, whatever the order of the map.         *)
StartStates ==
  {[queue |-> order, degree |-> InDegree, result |-> << >>] : order \in ParentlessOrders}

LEMMA LoopStarts ==
  ASSUME OrderInv
  PROVE  StartStates # {} /\ \A s \in StartStates : LoopInv(s)
<1> DEFINE S == {b \in Present : vertices[b].parents = {}}
<1>1. IsFiniteSet(S) /\ S \subseteq Batches
  <2>1. S \in SUBSET Present
    OBVIOUS
  <2> HIDE DEF S
  <2> QED
    BY <2>1, PresentFinite, FS_Subset
<1>2. ParentlessOrders = SetToSeqs(S)
  BY DEF ParentlessOrders
<1>3. \A c \in Present : c \in S <=> prev[c] = {}
  BY PresentFinite
<1>4. S \subseteq Present
  OBVIOUS
<1> HIDE DEF S
<1>5. StartStates # {}
  <2>1. PICK o \in ParentlessOrders : TRUE
    BY <1>1, <1>2, OrdersOfSet
  <2> QED
    BY <2>1 DEF StartStates
<1>6. ASSUME NEW o \in SetToSeqs(S), NEW s,
             s = [queue |-> o, degree |-> InDegree, result |-> << >>]
      PROVE  LoopInv(s)
  <2>1. s.queue = o /\ s.degree = InDegree /\ s.result = << >>
    BY <1>6
  <2>2. o \in Seq(S) /\ NoRepeat(o) /\ ToSet(o) = S
    BY <1>1, OrdersOfSet
  <2>3. o \in Seq(Batches)
    BY <1>1, <2>2
  <2>4. ToSet(<< >>) = {} /\ NoRepeat(<< >>) /\ Len(<< >>) = 0
    BY DEF ToSet, NoRepeat
  <2>5. \A c \in Present : Missing(c, {}) = prev[c]
    BY DEF Missing
  <2>6. ASSUME NEW c \in Present
        PROVE  InDegree[c] = Cardinality(Missing(c, {})) /\ InDegree[c] \in Int
    <3>1. InDegree[c] = Cardinality(prev[c])
      BY PresentFinite DEF InDegree
    <3> QED
      BY <2>5, <3>1, MissingFinite
  <2>7. InDegree \in [Present -> Int]
    BY <2>6 DEF InDegree
  <2>8. s \in KahnState
    BY <1>6, <2>3, <2>7 DEF KahnState
  <2>9. \A c \in Present : c \in ToSet(s.queue) \cup ToSet(s.result)
                             <=> Missing(c, ToSet(s.result)) = {}
    BY <1>3, <2>1, <2>2, <2>4, <2>5
  <2>10. \A c \in Present : s.degree[c] = Cardinality(Missing(c, ToSet(s.result)))
    BY <2>1, <2>4, <2>6
  <2>11. 1..Len(s.result) = {}
    BY <2>1, <2>4
  <2> QED
    BY <1>4, <2>1, <2>2, <2>4, <2>8, <2>9, <2>10, <2>11 DEF LoopInv
<1> QED
  BY <1>2, <1>5, <1>6 DEF StartStates

(* How popping b changes what a batch waits for.                            *)
LEMMA PoppedParent ==
  ASSUME OrderInv, NEW b \in Present, NEW R, b \notin R, NEW c \in Present
  PROVE  /\ c \in vertices[b].children =>
              /\ Missing(c, R) # {}
              /\ Missing(c, R \cup {b}) = Missing(c, R) \ {b}
              /\ Cardinality(Missing(c, R \cup {b})) = Cardinality(Missing(c, R)) - 1
         /\ c \notin vertices[b].children => Missing(c, R \cup {b}) = Missing(c, R)
<1>1. CASE c \in vertices[b].children
  <2>1. b \in prev[c] /\ LinkedTo(c, b)
    BY <1>1, PresentFinite DEF LinkedTo
  <2>2. b \in Missing(c, R) /\ Missing(c, R \cup {b}) = Missing(c, R) \ {b}
    BY <2>1 DEF Missing
  <2>3. Cardinality(Missing(c, R) \ {b}) = Cardinality(Missing(c, R)) - 1
    BY <2>2, MissingFinite, FS_RemoveElement
  <2> QED
    BY <1>1, <2>2, <2>3
<1>2. CASE c \notin vertices[b].children
  BY <1>2 DEF Missing, LinkedTo
<1> QED
  BY <1>1, <1>2

(* Every iteration keeps the invariant and pops a batch for good.           *)
LEMMA LoopStep ==
  ASSUME OrderInv, NEW s, LoopInv(s), s.queue # << >>, NEW o \in SetToSeqs(Ready(s))
  PROVE  /\ LoopInv(After(s, o))
         /\ Head(s.queue) \in Present \ ToSet(s.result)
         /\ ToSet(After(s, o).result) = ToSet(s.result) \cup {Head(s.queue)}
<1> DEFINE b == Head(s.queue)
           Q == ToSet(s.queue)
           R == ToSet(s.result)
           t == After(s, o)
           n == Len(s.result)
<1>1. /\ s \in KahnState /\ NoRepeat(s.queue) /\ NoRepeat(s.result)
      /\ Q \subseteq Present /\ R \subseteq Present /\ Q \cap R = {}
      /\ \A c \in Present : s.degree[c] = Cardinality(Missing(c, R))
      /\ \A c \in Present : c \in Q \cup R <=> Missing(c, R) = {}
      /\ \A j \in 1..n : \A p \in prev[s.result[j]] :
           \E i \in 1..n : i < j /\ s.result[i] = p
  BY DEF LoopInv
<1>2. /\ s.queue \in Seq(Batches) /\ s.result \in Seq(Batches)
      /\ s.degree \in [Present -> Int]
  BY <1>1 DEF KahnState
<1>3. t \in KahnState
  BY <1>1, AfterIsState
<1>4. /\ b \in Q /\ b \in Batches /\ Tail(s.queue) \in Seq(Batches) /\ NoRepeat(Tail(s.queue))
      /\ ToSet(Tail(s.queue)) = Q \ {b}
  BY <1>1, <1>2, TailOf
<1>5. b \in Present /\ b \notin R
  BY <1>1, <1>4
<1>6. /\ NoRepeat(Append(s.result, b)) /\ ToSet(Append(s.result, b)) = R \cup {b}
      /\ Len(Append(s.result, b)) = n + 1 /\ Append(s.result, b)[n + 1] = b
      /\ \A i \in 1..n : Append(s.result, b)[i] = s.result[i]
  BY <1>1, <1>2, <1>4, <1>5, AppendOf
<1>7. /\ t.queue = Tail(s.queue) \o o /\ t.degree = Lowered(s)
      /\ t.result = Append(s.result, b)
  BY DEF After
<1>8. IsFiniteSet(Ready(s)) /\ Ready(s) \subseteq Present /\ Ready(s) \subseteq Batches
  BY <1>1, AfterIsState, PresentFinite
<1>9. o \in Seq(Batches) /\ NoRepeat(o) /\ ToSet(o) = Ready(s)
  <2>1. o \in Seq(Ready(s)) /\ NoRepeat(o) /\ ToSet(o) = Ready(s)
    BY <1>8, OrdersOfSet
  <2> QED
    BY <1>8, <2>1
<1>10. \A c \in Present : c \in Kids(s) <=> c \in vertices[b].children
  BY DEF Kids
<1>11. Kids(s) \subseteq Present
  BY DEF Kids
<1>12. \A c \in Present : Lowered(s)[c] = s.degree[c] - (IF c \in Kids(s) THEN 1 ELSE 0)
  BY DEF Lowered
<1>13. n \in Nat
  BY <1>2, LenProperties
<1> HIDE DEF b, Q, R, t, n
<1>14. ASSUME NEW c \in Present
       PROVE  /\ Lowered(s)[c] = Cardinality(Missing(c, R \cup {b}))
              /\ c \in Kids(s) => Missing(c, R) # {}
              /\ c \notin Kids(s) => Missing(c, R \cup {b}) = Missing(c, R)
  <2>1. /\ c \in Kids(s) =>
             /\ Missing(c, R) # {}
             /\ Cardinality(Missing(c, R \cup {b})) = Cardinality(Missing(c, R)) - 1
        /\ c \notin Kids(s) => Missing(c, R \cup {b}) = Missing(c, R)
    BY <1>5, <1>10, PoppedParent
  <2>2. Cardinality(Missing(c, R)) \in Nat
    BY MissingFinite
  <2>3. CASE c \in Kids(s)
    BY <1>1, <1>12, <2>1, <2>2, <2>3
  <2>4. CASE c \notin Kids(s)
    BY <1>1, <1>12, <2>1, <2>2, <2>4
  <2> QED
    BY <2>1, <2>3, <2>4
<1>15. \A c \in Present : c \in Ready(s) <=> c \in Kids(s) /\ Missing(c, R \cup {b}) = {}
  <2>1. SUFFICES ASSUME NEW c \in Present
                 PROVE  Lowered(s)[c] = 0 <=> Missing(c, R \cup {b}) = {}
    BY DEF Ready
  <2> QED
    BY <1>14, MissingFinite, FS_EmptySet
<1>16. Ready(s) \cap (Q \cup R) = {}
  BY <1>1, <1>8, <1>14, <1>15
<1>17. /\ NoRepeat(t.queue) /\ ToSet(t.queue) = (Q \ {b}) \cup Ready(s)
  <2>1. ToSet(Tail(s.queue)) \cap ToSet(o) = {}
    BY <1>4, <1>9, <1>16
  <2>2. PICK q : q = Tail(s.queue)
    OBVIOUS
  <2>3. q \in Seq(Batches) /\ NoRepeat(q) /\ ToSet(q) = Q \ {b} /\ ToSet(q) \cap ToSet(o) = {}
    BY <1>4, <2>1, <2>2
  <2>4. NoRepeat(q \o o) /\ ToSet(q \o o) = ToSet(q) \cup ToSet(o)
    BY <1>9, <2>3, JoinOf
  <2>5. t.queue = q \o o
    BY <1>7, <2>2
  <2> QED
    BY <1>9, <2>3, <2>4, <2>5
<1>18. ToSet(t.result) = R \cup {b} /\ NoRepeat(t.result)
  BY <1>6, <1>7
<1>19. \A c \in Present : c \in ToSet(t.queue) \cup ToSet(t.result)
                            <=> Missing(c, ToSet(t.result)) = {}
  BY <1>1, <1>4, <1>14, <1>15, <1>17, <1>18
<1>20. \A c \in Present : t.degree[c] = Cardinality(Missing(c, ToSet(t.result)))
  BY <1>7, <1>14, <1>18
<1>21. ASSUME NEW j \in 1..Len(t.result), NEW p \in prev[t.result[j]]
       PROVE  \E i \in 1..Len(t.result) : i < j /\ t.result[i] = p
  <2>1. Len(t.result) = n + 1 /\ 1..n \subseteq 1..n + 1
    BY <1>6, <1>7, <1>13
  <2>2. CASE j \in 1..n
    <3>1. t.result[j] = s.result[j]
      BY <1>6, <1>7, <2>2
    <3>2. PICK i \in 1..n : i < j /\ s.result[i] = p
      BY <1>1, <1>21, <2>2, <3>1
    <3>3. i \in 1..Len(t.result) /\ i < j /\ t.result[i] = p
      BY <1>6, <1>7, <2>1, <3>2
    <3> QED
      BY <3>3
  <2>3. CASE j = n + 1
    <3>1. t.result[j] = b
      BY <1>6, <1>7, <2>3
    <3>2. p \in R
      BY <1>1, <1>4, <1>5, <3>1 DEF Missing
    <3>3. PICK i \in 1..n : s.result[i] = p
      <4>1. DOMAIN s.result = 1..n
        BY <1>2, LenProperties DEF n
      <4> QED
        BY <3>2, <4>1 DEF ToSet, R
    <3>4. i \in 1..Len(t.result) /\ i < j /\ t.result[i] = p
      BY <1>6, <1>7, <1>13, <2>1, <2>3, <3>3
    <3> QED
      BY <3>4
  <2>4. j \in 1..n \/ j = n + 1
    BY <1>13, <1>21, <2>1
  <2> QED
    BY <2>2, <2>3, <2>4
<1>22. /\ ToSet(t.queue) \subseteq Present /\ ToSet(t.result) \subseteq Present
       /\ ToSet(t.queue) \cap ToSet(t.result) = {}
  BY <1>1, <1>4, <1>5, <1>8, <1>16, <1>17, <1>18
<1>23. LoopInv(t)
  BY <1>3, <1>17, <1>18, <1>19, <1>20, <1>21, <1>22 DEF LoopInv
<1> QED
  BY <1>5, <1>18, <1>23 DEF b, R, t

(* From every state of the loop it ends, in some outcome, and every outcome *)
(* is the causal order of the batches that can be reached: a set of batches *)
(* still to be popped, minimal among those for which that fails, cannot be. *)
LEMMA LoopEnds ==
  ASSUME OrderInv, NEW s, LoopInv(s)
  PROVE  Kahn[s] # {} /\ \A r \in Kahn[s] : Reached(r)
<1> DEFINE Left(x) == Present \ ToSet(x.result)
           Good(x) == Kahn[x] # {} /\ \A r \in Kahn[x] : Reached(r)
           F == {T \in SUBSET Present : \E x \in KahnState : LoopInv(x) /\ Left(x) = T /\ ~Good(x)}
<1>1. SUFFICES ASSUME ~Good(s) PROVE FALSE
  OBVIOUS
<1>2. s \in KahnState /\ Left(s) \in SUBSET Present
  BY DEF LoopInv
<1>3. F # {} /\ F \in SUBSET (SUBSET Present)
  BY <1>1, <1>2
<1>4. PICK T \in F : \A U \in F : U \subseteq T => U = T
  <2> HIDE DEF F
  <2> QED
    BY <1>3, PresentFinite, MinimalSubset
<1>5. PICK x \in KahnState : LoopInv(x) /\ Left(x) = T /\ ~Good(x)
  BY <1>4
<1>6. Kahn[x] = IF x.queue = << >> THEN {x.result}
                ELSE UNION {Kahn[After(x, o)] : o \in SetToSeqs(Ready(x))}
  BY KahnStep
<1>7. CASE x.queue = << >>
  <2>1. ToSet(x.queue) = {}
    BY <1>7 DEF ToSet
  <2>2. Reached(x.result)
    BY <1>5, <2>1 DEF LoopInv, Reached, KahnState
  <2> QED
    BY <1>5, <1>6, <1>7, <2>2
<1>8. CASE x.queue # << >>
  <2>1. SetToSeqs(Ready(x)) # {}
    BY <1>8, AfterIsState, OrdersOfSet
  <2>2. ASSUME NEW o \in SetToSeqs(Ready(x))
        PROVE  Good(After(x, o))
    <3>1. /\ LoopInv(After(x, o)) /\ After(x, o) \in KahnState
          /\ Head(x.queue) \in Left(x) /\ Left(After(x, o)) = Left(x) \ {Head(x.queue)}
      BY <1>5, <1>8, LoopStep, AfterIsState
    <3>2. Left(After(x, o)) \subseteq T /\ Left(After(x, o)) # T
      BY <1>5, <3>1
    <3>3. Left(After(x, o)) \notin F
      BY <1>4, <3>2
    <3>4. Left(After(x, o)) \in SUBSET Present
      OBVIOUS
    <3> HIDE DEF Good, Left
    <3> QED
      BY <3>1, <3>3, <3>4
  <2> QED
    BY <1>5, <1>6, <1>8, <2>1, <2>2
<1> QED
  BY <1>7, <1>8

-----------------------------------------------------------------------------
(* The empty graph, and every step, keep what the sorts rest on: a batch is *)
(* dated when it is inserted, and only its insertion links it to parents.   *)
LEMMA InitOrderInv == Init => OrderInv
  BY InitGraphInv, FS_EmptySet DEF Init, OrderInv, EdgesInTime, Authored, Present

LEMMA AuthoredStaysFinite ==
  ASSUME IsFiniteSet(Authored), [Next]_vars
  PROVE  IsFiniteSet(Authored')
<1>1. CASE prev' = prev
  BY <1>1 DEF Authored
<1>2. ASSUME NEW b \in Batches, Author(b)
      PROVE  IsFiniteSet(Authored')
  <2>1. Authored' = Authored \cup {b}
    BY <1>2 DEF Author, Authored
  <2> QED
    BY <2>1, FS_AddElement
<1>3. prev' = prev \/ \E b \in Batches : Author(b)
  BY DEF Next, AddBatch, Mark, SetCertificate, MarkFinalized, Prune, PruneOldBatches, Clear, vars
<1> QED
  BY <1>1, <1>2, <1>3

LEMMA InTimeStep ==
  ASSUME GraphInv, EdgesInTime, [Next]_vars
  PROVE  EdgesInTime'
<1> USE DEF GraphInv
<1>1. /\ \A p \in Present : vertices[p] \in Vertex
      /\ \A p \in Present : vertices[p].added \in Int
      /\ clock \in Int
  BY DEF TypeOK, Vertex
<1>2. ASSUME NEW b \in Batches, AddBatch(b)
      PROVE  EdgesInTime'
  <2>1. /\ b \in Authored /\ b \notin Present /\ vertices' = Inserted(b)
        /\ clock' = clock + 1
    BY <1>2 DEF AddBatch, ContainsBatch
  <2>2. Present' = Present \cup {b}
    BY <2>1 DEF Present, Inserted
  <2>3. vertices'[b].added = clock + 1 /\ vertices'[b].children = {}
    BY <2>1 DEF Inserted, NewVertex
  <2>4. ASSUME NEW p \in Present
        PROVE  /\ vertices'[p].added = vertices[p].added
               /\ vertices'[p].children \subseteq vertices[p].children \cup {b}
    <3>1. vertices'[p] = WithChild(vertices, b)[p]
      BY <2>1 DEF Inserted
    <3>2. CASE p \in prev[b]
      <4>1. vertices'[p] = [vertices[p] EXCEPT !.children = @ \cup {b}]
        BY <3>1, <3>2 DEF WithChild, Present
      <4> QED
        BY <1>1, <4>1 DEF Vertex
    <3>3. CASE p \notin prev[b]
      BY <3>1, <3>3 DEF WithChild, Present
    <3> QED
      BY <3>2, <3>3
  <2>5. \A p \in Present' : vertices'[p].added <= clock'
    BY <1>1, <2>1, <2>2, <2>3, <2>4 DEF EdgesInTime
  <2>6. ASSUME NEW p \in Present', NEW c \in vertices'[p].children \cap Present'
        PROVE  vertices'[p].added < vertices'[c].added
    <3>1. p \in Present
      BY <2>2, <2>3
    <3>2. CASE c = b
      BY <1>1, <2>3, <2>4, <3>1, <3>2 DEF EdgesInTime
    <3>3. CASE c # b
      <4>1. c \in Present /\ c \in vertices[p].children
        BY <2>2, <2>4, <2>6, <3>1, <3>3
      <4> QED
        BY <2>4, <3>1, <4>1 DEF EdgesInTime
    <3> QED
      BY <3>2, <3>3
  <2> QED
    BY <2>5, <2>6 DEF EdgesInTime
<1>3. ASSUME NEW b \in Batches, Mark(b)
      PROVE  EdgesInTime'
  <2>1. /\ clock' = clock
        /\ \/ vertices' = [vertices EXCEPT ![b].certified = TRUE]
           \/ vertices' = [vertices EXCEPT ![b].finalized = TRUE]
    BY <1>3 DEF Mark, SetCertificate, MarkFinalized
  <2>2. Present' = Present
    BY <2>1 DEF Present
  <2>3. ASSUME NEW x \in Present
        PROVE  /\ vertices'[x].added = vertices[x].added
               /\ vertices'[x].children = vertices[x].children
    <3>1. vertices[x] \in Vertex /\ vertices \in [Present -> Vertex]
      BY DEF TypeOK
    <3>2. \/ vertices'[x] = [vertices[x] EXCEPT !.certified = TRUE]
          \/ vertices'[x] = [vertices[x] EXCEPT !.finalized = TRUE]
          \/ vertices'[x] = vertices[x]
      BY <2>1, <3>1
    <3> QED
      BY <3>1, <3>2 DEF Vertex
  <2> QED
    BY <2>1, <2>2, <2>3 DEF EdgesInTime
<1>4. CASE Prune
  <2>1. PICK cut \in 1..clock : PruneOldBatches(cut)
    BY <1>4 DEF Prune
  <2>2. /\ vertices' = [x \in Present \ Prunable(cut) |-> vertices[x]]
        /\ clock' = clock
    BY <2>1 DEF PruneOldBatches, Restrict
  <2>3. Present' \subseteq Present /\ \A x \in Present' : vertices'[x] = vertices[x]
    BY <2>2 DEF Present
  <2> QED
    BY <2>2, <2>3 DEF EdgesInTime
<1>5. CASE Clear
  BY <1>5 DEF Clear, EdgesInTime, Present
<1>6. CASE vertices' = vertices /\ clock' = clock
  BY <1>6 DEF EdgesInTime, Present
<1>7. \/ \E b \in Batches : AddBatch(b) \/ Mark(b)
      \/ Prune \/ Clear \/ (vertices' = vertices /\ clock' = clock)
  BY DEF Next, Author, graphVars, vars
<1> QED
  BY <1>2, <1>3, <1>4, <1>5, <1>6, <1>7

LEMMA OrderStep == OrderInv /\ [Next]_vars => OrderInv'
  BY GraphStep, AuthoredStaysFinite, InTimeStep DEF OrderInv

(* The loop has an outcome, and every outcome is the causal order of the    *)
(* batches that can be reached.                                             *)
LEMMA ResultsReached ==
  ASSUME OrderInv
  PROVE  KahnResults # {} /\ \A r \in KahnResults : Reached(r)
<1>1. KahnResults = UNION {Kahn[s] : s \in StartStates}
  BY DEF KahnResults, StartStates
<1>2. PICK s \in StartStates : TRUE
  BY LoopStarts
<1>3. \A x \in StartStates : Kahn[x] # {} /\ \A r \in Kahn[x] : Reached(r)
  BY LoopStarts, LoopEnds
<1> QED
  BY <1>1, <1>2, <1>3

(* A sort is Ok exactly if it reached every batch. *)
LEMMA FullLength ==
  ASSUME OrderInv, NEW r, Reached(r)
  PROVE  Len(r) = Cardinality(Present) <=> ToSet(r) = Present
<1>1. IsFiniteSet(ToSet(r)) /\ Len(r) = Cardinality(ToSet(r)) /\ ToSet(r) \in SUBSET Present
  BY LengthIsSize DEF Reached
<1> QED
  BY <1>1, PresentFinite, FS_Subset

LEMMA OrderInvSound == OrderInv => SortSound
<1> SUFFICES ASSUME OrderInv, NEW r \in TopologicalSorts
             PROVE  Causal(r) /\ IsInjective(r) /\ ToSet(r) = Present
  BY DEF SortSound
<1>1. Reached(r) /\ ToSet(r) = Present
  BY ResultsReached, FullLength DEF TopologicalSorts
<1>2. DOMAIN r = 1..Len(r) /\ Len(r) \in Nat
  BY <1>1, LenProperties DEF Reached
<1>3. IsInjective(r)
  BY <1>1, <1>2 DEF Reached, NoRepeat, IsInjective
<1>4. ASSUME NEW i \in 1..Len(r), NEW j \in 1..Len(r), r[i] \in prev[r[j]]
      PROVE  i < j
  <2>1. PICK k \in 1..Len(r) : k < j /\ r[k] = r[i]
    BY <1>1, <1>4 DEF Reached
  <2>2. k = i
    BY <1>1, <2>1 DEF Reached, NoRepeat
  <2> QED
    BY <2>1, <2>2
<1> QED
  BY <1>1, <1>2, <1>3, <1>4 DEF Causal

(* If all batches are linked, the earliest one not reached would be.        *)
LEMMA LinkedReached ==
  ASSUME OrderInv, \A b \in Present : Linked(b), NEW r, Reached(r)
  PROVE  ToSet(r) = Present
<1> DEFINE L == Present \ ToSet(r)
           D == {vertices[c].added : c \in L}
<1>1. SUFFICES ASSUME L # {} PROVE FALSE
  BY DEF Reached
<1>2. D \subseteq Nat /\ D # {}
  BY <1>1 DEF OrderInv, GraphInv, TypeOK, Vertex
<1>3. PICK d \in D : \A e \in D : ~(<<e, d>> \in OpToRel(<, Nat))
  <2> HIDE DEF D
  <2> QED
    BY <1>2, WFMin, NatLessThanWellFounded
<1>4. \A e \in D : ~(e < d)
  BY <1>2, <1>3 DEF OpToRel
<1>5. PICK c \in L : d = vertices[c].added
  OBVIOUS
<1>6. PICK p \in prev[c] : ~(p \in ToSet(r) /\ LinkedTo(c, p))
  BY <1>5 DEF Reached, Missing
<1>7. p \in Present /\ c \in vertices[p].children /\ p \in L
  BY <1>5, <1>6 DEF Linked, LinkedTo
<1>8. vertices[p].added < vertices[c].added
  BY <1>5, <1>7 DEF OrderInv, EdgesInTime
<1> QED
  BY <1>4, <1>5, <1>7, <1>8

LEMMA OrderInvSorts == OrderInv => SortsIffLinked
<1> SUFFICES ASSUME OrderInv
             PROVE  SortFails <=> \E b \in Present : ~Linked(b)
  BY DEF SortsIffLinked
<1>1. PICK r \in KahnResults : TRUE
  BY ResultsReached
<1>2. ASSUME NEW b \in Present, ~Linked(b)
      PROVE  ToSet(r) # Present
  <2>1. PICK p \in prev[b] : ~LinkedTo(b, p)
    BY <1>2 DEF Linked
  <2>2. p \in Missing(b, ToSet(r))
    BY <2>1 DEF Missing
  <2> QED
    BY <2>2, ResultsReached DEF Reached
<1>3. ASSUME \A b \in Present : Linked(b), NEW x \in KahnResults
      PROVE  Len(x) = Cardinality(Present)
  BY <1>3, ResultsReached, LinkedReached, FullLength
<1> QED
  BY <1>2, <1>3, ResultsReached, FullLength DEF SortFails

(* Safety: in every behaviour of flow_graph.rs and for any number of        *)
(* batches, whenever topological_sort answers Ok its result holds every     *)
(* batch once and parents before children, whatever order the map is        *)
(* iterated in.                                                             *)
THEOREM SortsAreSound == Spec => []SortSound
  BY InitOrderInv, OrderStep, OrderInvSound, PTL DEF Spec

(* Safety: and it answers Ok exactly when every batch in the graph is       *)
(* linked to all of its parents, so one late arrival is an error for all.   *)
THEOREM SortsWhenLinked == Spec => []SortsIffLinked
  BY InitOrderInv, OrderStep, OrderInvSorts, PTL DEF Spec
=============================================================================
