---------------------------- MODULE FinalizedLog ----------------------------
(***************************************************************************)
(* What a keeper of finalized snapshots promises, whatever it does to get  *)
(* them certified: an append-only log.  Sequence numbers are finalized one *)
(* at a time, an entry names the digest of the one before it as long as    *)
(* that one is retained, it never changes, and entries can be forgotten    *)
(* only from the front.                                                    *)
(***************************************************************************)
EXTENDS Integers, Functions

CONSTANTS
  Digests,      \* digests of snapshots
  NoDigest      \* the all-zero digest

VARIABLES
  height,       \* last finalized sequence number
  log           \* retained sequence number -> [digest, prev]

logVars == <<height, log>>

Init == height = 0 /\ log = << >>

(* The digests the next entry may name. *)
Previous ==
  IF height \in DOMAIN log THEN {log[height].digest} ELSE Digests \cup {NoDigest}

Append(d, p) ==
  /\ p \in Previous
  /\ height' = height + 1
  /\ log' = [s \in DOMAIN log \cup {height + 1} |->
               IF s = height + 1 THEN [digest |-> d, prev |-> p] ELSE log[s]]

Forget(S) ==
  /\ \A s \in S, t \in DOMAIN log \ S : s < t
  /\ log' = Restrict(log, DOMAIN log \ S)
  /\ UNCHANGED height

Next ==
  \/ \E d \in Digests, p \in Digests \cup {NoDigest} : Append(d, p)
  \/ \E S \in SUBSET DOMAIN log : Forget(S)

Spec == Init /\ [][Next]_logVars
=============================================================================
