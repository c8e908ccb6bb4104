-------------------------- MODULE MCBatchCertifier --------------------------
(* Small instances of the batch certifier for TLC: of three validators, v1 *)
(* and one of the others are needed for a quorum.                          *)
EXTENDS BatchCertifier

CONSTANTS v1, v2, v3, t1, t2, t3

MCBatches == {1}
MCTwoBatches == {1, 2}
MCValidators == {v1, v2, v3}
MCStake == (v1 :> 2 @@ v2 :> 1 @@ v3 :> 1)
MCTwoThreads == {t1, t2}
MCThreads == {t1, t2, t3}
MCShard == [b \in Batches |-> 0]
MCSymmetry == Permutations({v2, v3}) \cup Permutations(Threads)
=============================================================================
