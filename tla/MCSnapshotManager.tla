------------------------- MODULE MCSnapshotManager -------------------------
(* Small instance of the snapshot manager for TLC: three validators with  *)
(* stake of which v1 and v2, or v1 and v3, are needed for a quorum, and an *)
(* observer without stake.                                                 *)
EXTENDS SnapshotManager, TLC

CONSTANTS v1, v2, v3, observer

MCValidators == {v1, v2, v3, observer}
MCStake == (v1 :> 3 @@ v2 :> 2 @@ v3 :> 2 @@ observer :> 0)
MCTotal == 7
=============================================================================
