------------------------------ MODULE Unbonding -------------------------------
(* The lists of requests that staking.rs and delegation.rs keep: a request *)
(* says whether its unbonding period is over.  Processing one walks the    *)
(* list, takes out those that are and keeps the others in their order.     *)
EXTENDS Sequences, SequencesExt

Chosen(requests, flag) ==
  FoldLeft(LAMBDA list, r : IF r.unbonded = flag THEN Append(list, r) ELSE list, << >>, requests)

Due(requests) == Chosen(requests, TRUE)
Running(requests) == Chosen(requests, FALSE)
=============================================================================
