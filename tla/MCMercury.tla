----------------------------- MODULE MCMercury ------------------------------
(* Small instances of the snapshot engine for TLC.  With MCStake this node *)
(* and one other are a quorum, and this node alone once both others have   *)
(* left; with MCEqualStake all three are needed.                          *)
EXTENDS Mercury

CONSTANTS self, v2, v3, t1, t2

MCOneBatch == {1}
MCTwoBatches == {1, 2}
MCValidators == {self, v2, v3}
MCStake == (self :> 2 @@ v2 :> 1 @@ v3 :> 1)
MCEqualStake == (self :> 1 @@ v2 :> 1 @@ v3 :> 1)
MCOneThread == {t1}
MCTwoThreads == {t1, t2}
MCSymmetry == Permutations({v2, v3}) \cup Permutations(Threads)
=============================================================================
