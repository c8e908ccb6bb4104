----------------------------- MODULE FlowGraph -----------------------------
(***************************************************************************)
(* The flow graph of flow_graph.rs: the DAG of transaction batches that    *)
(* the mempool fills and the consensus engine traverses.                   *)
(*                                                                         *)
(* Every caller holds the graph in an async RwLock and its mutators take   *)
(* &mut self, so one operation is one step.  A batch is identified by its  *)
(* BatchID, which is an integer here because get_consensus_order compares  *)
(* the bytes of identifiers.  A BatchID is a hash of the contents, so a    *)
(* batch keeps its previous_batches for ever and names only batches that   *)
(* were authored before it; "prev" is that content, fixed when a validator *)
(* authors the batch.  The propagation times are metrics and left out.     *)
(* Rejected calls (duplicate batch, unknown batch) change nothing.         *)
(***************************************************************************)
EXTENDS Integers, FiniteSets, Functions

CONSTANTS
  Batches,      \* identifiers batches may get
  MaxParents,   \* limit an author gives get_latest_batch_ids
  MaxAdds       \* bound on insertions, so on the clock that dates them

ASSUME BatchesAssumption == Batches \subseteq Int
ASSUME BoundsAssumption == MaxParents \in Nat /\ MaxAdds \in Nat

VARIABLES
  prev,         \* authored batch -> its previous_batches
  vertices,     \* batch in the graph -> FlowGraphVertex
  roots,        \* the roots index
  tips,         \* the tips index
  clock         \* insertions so far; the value at insertion is added_at

graphVars == <<vertices, roots, tips, clock>>
vars == <<prev, vertices, roots, tips, clock>>

Authored == DOMAIN prev
Present == DOMAIN vertices
Vertex == [parents : SUBSET Batches, children : SUBSET Batches,
           certified : BOOLEAN, finalized : BOOLEAN, added : 1..MaxAdds]

(* FlowGraphVertex::new *)
NewVertex(b) ==
  [parents |-> prev[b], children |-> {}, certified |-> FALSE,
   finalized |-> FALSE, added |-> clock + 1]

(* contains_batch *)
ContainsBatch(b) == b \in Present

(* add_child on every parent that is in the graph at this moment *)
WithChild(V, b) ==
  [p \in DOMAIN V |->
     IF p \in prev[b] THEN [V[p] EXCEPT !.children = @ \cup {b}] ELSE V[p]]

-----------------------------------------------------------------------------
Init ==
  /\ prev = << >>
  /\ vertices = << >>
  /\ roots = {}
  /\ tips = {}
  /\ clock = 0

(* A validator builds a batch on batches it knows (TransactionBatch::new).  *)
Author(b) ==
  /\ b \in Batches \ Authored
  /\ \E ps \in SUBSET Authored :
       /\ Cardinality(ps) =< MaxParents
       /\ prev' = [x \in Authored \cup {b} |-> IF x = b THEN ps ELSE prev[x]]
  /\ UNCHANGED graphVars

(* The vertices after the insertion of b: a parent that is missing is only  *)
(* warned about.                                                            *)
Inserted(b) ==
  [x \in Present \cup {b} |->
     IF x = b THEN NewVertex(b) ELSE WithChild(vertices, b)[x]]

(* Mutant: the parents stay tips. *)
AddBatchKeepsTips(b) ==
  /\ b \in Authored
  /\ ~ContainsBatch(b)
  /\ clock < MaxAdds
  /\ vertices' = Inserted(b)
  /\ roots' = IF prev[b] = {} THEN roots \cup {b} ELSE roots
  /\ tips' = tips \cup {b}
  /\ clock' = clock + 1
  /\ UNCHANGED prev

(* Mutant: a batch that is in the graph is added again. *)
AddBatchAgain(b) ==
  /\ b \in Authored
  /\ clock < MaxAdds
  /\ vertices' = Inserted(b)
  /\ roots' = IF prev[b] = {} THEN roots \cup {b} ELSE roots
  /\ tips' = (tips \ (prev[b] \cap Present)) \cup {b}
  /\ clock' = clock + 1
  /\ UNCHANGED prev

(* add_batch of a batch that is not in the graph. *)
AddBatch(b) ==
  /\ b \in Authored
  /\ ~ContainsBatch(b)
  /\ clock < MaxAdds
  /\ vertices' = Inserted(b)
  /\ roots' = IF prev[b] = {} THEN roots \cup {b} ELSE roots
  /\ tips' = (tips \ (prev[b] \cap Present)) \cup {b}
  /\ clock' = clock + 1
  /\ UNCHANGED prev

SetCertificate(b) ==
  /\ ContainsBatch(b)
  /\ vertices' = [vertices EXCEPT ![b].certified = TRUE]
  /\ UNCHANGED <<prev, roots, tips, clock>>

MarkFinalized(b) ==
  /\ ContainsBatch(b)
  /\ vertices' = [vertices EXCEPT ![b].finalized = TRUE]
  /\ UNCHANGED <<prev, roots, tips, clock>>

(* prune_old_batches: a retention duration is a cut in insertion order.     *)
Prunable(cut) == {b \in Present : vertices[b].finalized /\ vertices[b].added =< cut}

PruneOldBatches(cut) ==
  /\ vertices' = Restrict(vertices, Present \ Prunable(cut))
  /\ roots' = roots \ Prunable(cut)
  /\ tips' = tips \ Prunable(cut)
  /\ UNCHANGED <<prev, clock>>

Clear ==
  /\ vertices' = << >>
  /\ roots' = {}
  /\ tips' = {}
  /\ UNCHANGED <<prev, clock>>

-----------------------------------------------------------------------------
Mark(b) == SetCertificate(b) \/ MarkFinalized(b)
Prune == \E cut \in 1..clock : PruneOldBatches(cut)

(* Batches arrive from the local broadcaster and from other validators, so  *)
(* in any order.                                                            *)
Next ==
  \/ \E b \in Batches : Author(b) \/ AddBatch(b) \/ Mark(b)
  \/ Prune
  \/ Clear

Spec == Init /\ [][Next]_vars

-----------------------------------------------------------------------------
TypeOK ==
  /\ Authored \subseteq Batches
  /\ prev \in [Authored -> SUBSET Authored]
  /\ Present \subseteq Authored
  /\ vertices \in [Present -> Vertex]
  /\ roots \subseteq Batches
  /\ tips \subseteq Batches
  /\ clock \in 0..MaxAdds

(* A batch p knows c as a child whenever both are in the graph and c names  *)
(* p as a parent.                                                           *)
LinkedTo(c, p) == p \in Present /\ c \in vertices[p].children
Linked(c) == \A p \in prev[c] : LinkedTo(c, p)

(* Safety: the roots and tips indexes, maintained by hand in add_batch and  *)
(* prune_old_batches, always agree with the vertices: a root is a batch     *)
(* without parents, and a tip, on which the next batch is built, is a batch *)
(* with no recorded child.                                                  *)
IndexesExact ==
  /\ roots = {b \in Present : vertices[b].parents = {}}
  /\ tips = {b \in Present : vertices[b].children = {}}

(* Safety: an edge recorded in a children list is a causal link of the      *)
(* child's own contents, also after the child was pruned and came back.     *)
EdgesSound ==
  \A p \in Present :
    /\ vertices[p].parents = prev[p]
    /\ \A c \in vertices[p].children : c \in Authored /\ p \in prev[c]

(* Action property: add_batch is the only place that links a child to a     *)
(* parent, so a batch that was inserted before one of its parents stays     *)
(* unlinked for as long as it is in the graph: nothing repairs it.          *)
UnlinkedForever ==
  [][\A c \in Present \cap Present' : ~Linked(c) => ~Linked(c)']_vars

(* Safety: insertion in any order, marks, pruning and clearing keep the     *)
(* vertices, the two indexes and the edges consistent with one another.     *)
GraphConsistent == TypeOK /\ IndexesExact /\ EdgesSound
=============================================================================
