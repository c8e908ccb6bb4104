----------------------------- MODULE MCCascade ------------------------------
(* Small instances of the mempool for TLC: the transaction of the second   *)
(* call is larger than what is left of a batch after the first, and the    *)
(* third may submit the transaction of the first again.                    *)
EXTENDS Cascade

CONSTANTS call1, call2, call3, w1, w2

MCSubmissions == {call1, call2, call3}
MCSize == (call1 :> 1 @@ call2 :> 2 @@ call3 :> 1)
MCWorkers == {w1, w2}
MCBatches == 1..2
=============================================================================
