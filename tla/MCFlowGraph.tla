---------------------------- MODULE MCFlowGraph ----------------------------
(* Small instance of the flow graph and its traversals for TLC. *)
EXTENDS FlowGraphOrder

MCBatches == 1..3
=============================================================================
