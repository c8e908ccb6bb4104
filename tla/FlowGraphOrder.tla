-------------------------- MODULE FlowGraphOrder ---------------------------
(***************************************************************************)
(* The traversals of the flow graph: topological_sort (Kahn's algorithm),  *)
(* get_consensus_order and get_certified_batches.  The DashMap iterates in *)
(* no particular order, so a sort has a set of possible outcomes.          *)
(***************************************************************************)
EXTENDS FlowGraph, SequencesExt

(* Mutant: parents that are not in the graph are not waited for. *)
InDegreePresent == [b \in Present |-> Cardinality(vertices[b].parents \cap Present)]

(* Mutant: a batch waits for one of its parents only. *)
InDegreeOne == [b \in Present |-> IF vertices[b].parents = {} THEN 0 ELSE 1]

(* The code counts the entries of the parents vector, which is as long as   *)
(* the set here as long as no batch names a parent twice.  One that does    *)
(* is counted down once for its two entries and never gets to zero; such    *)
(* batches are left out.                                                    *)
InDegree == [b \in Present |-> Cardinality(vertices[b].parents)]
ParentlessOrders == SetToSeqs({b \in Present : vertices[b].parents = {}})

KahnState == [queue : Seq(Batches), degree : [Present -> Int], result : Seq(Batches)]

(* The loop of topological_sort: pop a batch, decrement the in-degree of    *)
(* its children that are still in the graph, queue those that reach zero.   *)
Kahn[s \in KahnState] ==
  IF s.queue = << >> THEN {s.result}
  ELSE LET b == Head(s.queue)
           kids == vertices[b].children \cap Present
           degree == [c \in Present |-> s.degree[c] - (IF c \in kids THEN 1 ELSE 0)]
           ready == {c \in kids : degree[c] = 0}
       IN  UNION {Kahn[[queue |-> Tail(s.queue) \o order, degree |-> degree,
                        result |-> Append(s.result, b)]] : order \in SetToSeqs(ready)}

(* Every order in which the loop can leave the batches it reaches. *)
KahnResults ==
  UNION {Kahn[[queue |-> order, degree |-> InDegree, result |-> << >>]] :
           order \in ParentlessOrders}

(* topological_sort is Ok only if the loop reached every batch; the others  *)
(* are reported as a cycle.                                                 *)
TopologicalSorts == {r \in KahnResults : Len(r) = Cardinality(Present)}
SortFails == \E r \in KahnResults : Len(r) # Cardinality(Present)

(* get_consensus_order: the sort's result, sorted again by identifier. *)
ConsensusOrder == SetToSortSeq(Present, <)

(* get_certified_batches *)
CertifiedBatches == SelectSeq(ConsensusOrder, LAMBDA b : vertices[b].certified)

-----------------------------------------------------------------------------
(* Parents before children, in a sequence of batches. *)
Causal(order) ==
  \A i, j \in DOMAIN order : order[i] \in prev[order[j]] => i < j

(* Safety: whenever topological_sort answers Ok, its result holds every     *)
(* batch exactly once and is causal ("parents before children"), whatever   *)
(* the order the map was iterated in and the batches arrived in.            *)
SortSound ==
  \A r \in TopologicalSorts : Causal(r) /\ IsInjective(r) /\ ToSet(r) = Present

(* Safety: the sort answers Ok exactly when every batch in the graph is     *)
(* linked to all of its parents.  One batch with a parent that is missing,  *)
(* pruned or arrived late makes the whole traversal an error, although the  *)
(* graph has no cycle; with causal arrival and no pruning it never fails.   *)
SortsIffLinked == SortFails <=> \E b \in Present : ~Linked(b)

(* What the module promises of get_certified_batches: certified batches in  *)
(* consensus order, a topological order with ties broken by identifier.     *)
ConsensusOrderCausal == ~SortFails => Causal(CertifiedBatches)
=============================================================================
