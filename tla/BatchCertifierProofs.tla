------------------------- MODULE BatchCertifierProofs ------------------------
(***************************************************************************)
(* For any batches, validators, stakes, shards and number of concurrent    *)
(* calls:                                                                  *)
(* - certificates only grow.  The invariant says why the guard on the      *)
(*   shard is enough: from the tally to the store no signature can be      *)
(*   added, so that a call stores the very list that is pending, and every *)
(*   certificate stored before is a prefix of that list;                   *)
(* - while no signature is delivered twice, a quorum of distinct signers   *)
(*   stands behind every certificate, and the graph shows no other batch   *)
(*   as certified;                                                         *)
(* - while the graph only grows, every certificate gets into it.           *)
(***************************************************************************)
EXTENDS BatchCertifier, SequenceTheorems, Sums, TLAPS

(* A call under way, with the list that it is about to store. *)
CallKept(c) ==
  \/ DOMAIN c = {"pc"} /\ c.pc = "idle"
  \/ /\ DOMAIN c = {"pc", "batch", "validator", "certificate"}
     /\ c.batch \in Batches /\ c.validator \in Validators
     /\ c.pc \in {"certified?", "validator?", "push", "tally", "store", "link", "unpend"}
     /\ c.pc = "store" => c.certificate.signers = signatures[c.batch]

SignaturesTyped == signatures \in [Batches -> Seq(Validators)]

CertificatesKept ==
  \A b \in DOMAIN certified :
    /\ b \in Batches
    /\ certified[b].signers \in Seq(Validators)
    /\ IsPrefix(certified[b].signers, signatures[b])

CallsKept == DOMAIN call = Threads /\ \A t \in Threads : CallKept(call[t])

CertifierInv == SignaturesTyped /\ CertificatesKept /\ CallsKept

(* No certificate is lost or replaced by one with other or fewer signers.   *)
Grow ==
  \A b \in DOMAIN certified :
    b \in DOMAIN certified' /\ IsPrefix(certified[b].signers, certified'[b].signers)

-----------------------------------------------------------------------------
LEMMA PrefixOfItself ==
  ASSUME NEW S, NEW s \in Seq(S)
  PROVE  IsPrefix(s, s)
BY DEF IsPrefix

LEMMA PrefixOfLonger ==
  ASSUME NEW S, NEW s \in Seq(S), NEW t \in Seq(S), NEW e \in S, IsPrefix(s, t)
  PROVE  IsPrefix(s, Append(t, e))
<1>1. /\ Append(t, e) \in Seq(S) /\ Len(Append(t, e)) = Len(t) + 1
      /\ \A i \in 1..Len(t) : Append(t, e)[i] = t[i]
      /\ Len(s) \in Nat /\ Len(t) \in Nat /\ Len(s) =< Len(t)
  BY DEF IsPrefix
<1>2. SubSeq(t, 1, Len(s)) = SubSeq(Append(t, e), 1, Len(s))
  <2>1. \A i \in 1..Len(s) : t[i] = Append(t, e)[i]
    BY <1>1
  <2>2. \A i \in 1..Len(s) : t[i] \in S /\ Append(t, e)[i] \in S
    BY <1>1
  <2>3. /\ SubSeq(t, 1, Len(s)) \in Seq(S) /\ Len(SubSeq(t, 1, Len(s))) = Len(s)
        /\ \A i \in 1..Len(s) : SubSeq(t, 1, Len(s))[i] = t[i]
    BY <1>1, <2>2
  <2>4. /\ SubSeq(Append(t, e), 1, Len(s)) \in Seq(S)
        /\ Len(SubSeq(Append(t, e), 1, Len(s))) = Len(s)
        /\ \A i \in 1..Len(s) : SubSeq(Append(t, e), 1, Len(s))[i] = Append(t, e)[i]
    BY <1>1, <2>2
  <2> QED
    BY <1>1, <2>1, <2>3, <2>4, SeqEqual
<1> QED
  BY <1>1, <1>2 DEF IsPrefix

LEMMA CertifierInitInv == Init => CertifierInv
<1>1. << >> \in Seq(Validators) /\ DOMAIN << >> = {}
  OBVIOUS
<1> QED
  BY <1>1 DEF Init, CertifierInv, SignaturesTyped, CertificatesKept, CallsKept, CallKept, Idle

(* A step of a call that leaves signatures and certificates alone.          *)
LEMMA CallStep ==
  ASSUME CertifierInv, UNCHANGED <<signatures, certified>>, NEW t \in Threads, NEW c, CallKept(c),
         call' = [call EXCEPT ![t] = c]
  PROVE  CertifierInv' /\ Grow
<1>1. SignaturesTyped' /\ CertificatesKept'
  BY DEF CertifierInv, SignaturesTyped, CertificatesKept
<1>2. CallsKept'
  BY DEF CertifierInv, CallsKept, CallKept
<1>3. Grow
  BY PrefixOfItself DEF CertifierInv, CertificatesKept, Grow
<1> QED
  BY <1>1, <1>2, <1>3 DEF CertifierInv

(* Everybody else leaves all that matters here alone.                       *)
LEMMA OtherStep ==
  ASSUME CertifierInv, UNCHANGED <<signatures, certified, call>>
  PROVE  CertifierInv' /\ Grow
<1>1. CertifierInv'
  BY DEF CertifierInv, SignaturesTyped, CertificatesKept, CallsKept, CallKept
<1>2. Grow
  BY PrefixOfItself DEF CertifierInv, CertificatesKept, Grow
<1> QED
  BY <1>1, <1>2

(* A call that goes on to a section where it stores nothing.                *)
LEMMA GotoKept ==
  ASSUME CertifierInv, UNCHANGED <<signatures, certified>>, NEW t \in Threads,
         NEW pc \in {"validator?", "push", "tally", "link", "unpend"},
         call[t].pc # "idle", Goto(t, pc) \/ Return(t)
  PROVE  CertifierInv' /\ Grow
<1>1. CallKept(call[t])
  BY DEF CertifierInv, CallsKept
<1>2. CASE Goto(t, pc)
  <2> DEFINE c == [call[t] EXCEPT !.pc = pc]
  <2>1. CallKept(c)
    BY <1>1 DEF CallKept
  <2>2. call' = [call EXCEPT ![t] = c]
    BY <1>2 DEF Goto
  <2> HIDE DEF c
  <2> QED
    BY <2>1, <2>2, CallStep
<1>3. CASE Return(t)
  <2>1. CallKept(Idle)
    BY DEF CallKept, Idle
  <2> QED
    BY <1>3, <2>1, CallStep DEF Return
<1> QED
  BY <1>2, <1>3

(* A signature is added while nobody holds the list of its batch.           *)
LEMMA PushKept ==
  ASSUME CertifierInv, NEW t \in Threads, Push(t)
  PROVE  CertifierInv' /\ Grow
<1> DEFINE b == call[t].batch
           list == Append(signatures[b], call[t].validator)
           c == [call[t] EXCEPT !.pc = "tally"]
<1>1. /\ CallKept(call[t]) /\ b \in Batches /\ call[t].validator \in Validators
      /\ signatures[b] \in Seq(Validators)
  BY DEF Push, At, CertifierInv, CallsKept, CallKept, SignaturesTyped
<1>2. /\ signatures' = [signatures EXCEPT ![b] = list] /\ UNCHANGED certified
      /\ call' = [call EXCEPT ![t] = c]
  BY DEF Push, Goto
<1>3. list \in Seq(Validators)
  BY <1>1
<1>4. \A u \in Threads : call[u].pc = "store" => call[u].batch # b
  BY DEF Push, HoldsRef
<1>5. CallKept(c) /\ c.pc = "tally"
  BY <1>1 DEF CallKept, Push, At
<1> HIDE DEF list, c
<1>6. SignaturesTyped'
  BY <1>1, <1>2, <1>3 DEF CertifierInv, SignaturesTyped
<1>7. ASSUME NEW d \in DOMAIN certified
      PROVE  /\ d \in Batches /\ certified[d].signers \in Seq(Validators)
             /\ IsPrefix(certified[d].signers, signatures'[d])
  <2>1. /\ d \in Batches /\ certified[d].signers \in Seq(Validators)
        /\ IsPrefix(certified[d].signers, signatures[d])
    BY DEF CertifierInv, CertificatesKept
  <2>2. CASE d = b
    <3>1. signatures'[d] = list
      BY <1>1, <1>2, <2>2 DEF CertifierInv, SignaturesTyped
    <3> QED
      BY <1>1, <2>1, <2>2, <3>1, PrefixOfLonger DEF list
  <2>3. CASE d # b
    BY <1>2, <2>1, <2>3 DEF CertifierInv, SignaturesTyped
  <2> QED
    BY <2>1, <2>2, <2>3
<1>8. CertificatesKept'
  BY <1>2, <1>7 DEF CertificatesKept
<1>9. CallsKept'
  <2>1. ASSUME NEW u \in Threads
        PROVE  CallKept(call[u])'
    <3>1. CASE u = t
      <4>1. call'[u] = c
        BY <1>2, <3>1 DEF CertifierInv, CallsKept
      <4> QED
        BY <1>5, <4>1 DEF CallKept
    <3>2. CASE u # t
      <4>1. call'[u] = call[u] /\ CallKept(call[u])
        BY <1>2, <3>2 DEF CertifierInv, CallsKept
      <4>2. call[u].pc = "store" /\ call[u].batch \in Batches =>
              signatures'[call[u].batch] = signatures[call[u].batch]
        BY <1>2, <1>4 DEF CertifierInv, SignaturesTyped
      <4> QED
        BY <4>1, <4>2 DEF CallKept
    <3> QED
      BY <3>1, <3>2
  <2>2. DOMAIN call' = Threads
    BY <1>2 DEF CertifierInv, CallsKept
  <2> QED
    BY <2>1, <2>2 DEF CallsKept
<1>10. Grow
  BY <1>2, PrefixOfItself DEF CertifierInv, CertificatesKept, Grow
<1> QED
  BY <1>6, <1>8, <1>9, <1>10 DEF CertifierInv

(* The list that was weighed is the one that is stored.                     *)
LEMMA TallyKept ==
  ASSUME CertifierInv, NEW t \in Threads, Tally(t)
  PROVE  CertifierInv' /\ Grow
<1>1. CallKept(call[t]) /\ call[t].pc = "tally" /\ UNCHANGED <<signatures, certified>>
  BY DEF Tally, At, CertifierInv, CallsKept, certVars
<1>2. CASE Return(t)
  BY <1>1, <1>2, GotoKept
<1>3. CASE ~Return(t)
  <2>1. PICK certificate :
          /\ call' = [call EXCEPT ![t].pc = "store", ![t].certificate = certificate]
          /\ certificate.signers = signatures[call[t].batch]
    <3> DEFINE weight == StakeWeight(signatures[call[t].batch])
               certificate == [signers |-> signatures[call[t].batch], weight |-> weight,
                               total |-> TotalStake]
    <3>1. call' = [call EXCEPT ![t].pc = "store", ![t].certificate = certificate]
      BY <1>3 DEF Tally
    <3>2. certificate.signers = signatures[call[t].batch]
      OBVIOUS
    <3> QED
      BY <3>1, <3>2
  <2> DEFINE c == [call[t] EXCEPT !.pc = "store", !.certificate = certificate]
  <2>2. CallKept(c)
    BY <1>1, <2>1 DEF CallKept
  <2>3. call' = [call EXCEPT ![t] = c]
    BY <2>1
  <2> HIDE DEF c
  <2> QED
    BY <1>1, <2>2, <2>3, CallStep
<1> QED
  BY <1>2, <1>3

(* The list that is stored is still the pending one, of which every         *)
(* certificate before is a prefix.                                          *)
LEMMA StoreKept ==
  ASSUME CertifierInv, NEW t \in Threads, StoreCertificate(t)
  PROVE  CertifierInv' /\ Grow
<1> DEFINE b == call[t].batch
           c == [call[t] EXCEPT !.pc = "link"]
<1>1. /\ CallKept(call[t]) /\ b \in Batches
      /\ call[t].certificate.signers = signatures[b] /\ signatures[b] \in Seq(Validators)
  BY DEF StoreCertificate, At, CertifierInv, CallsKept, CallKept, SignaturesTyped
<1>2. /\ UNCHANGED signatures /\ DOMAIN certified' = DOMAIN certified \cup {b}
      /\ certified'[b].signers = signatures[b]
      /\ \A d \in DOMAIN certified \ {b} : certified'[d] = certified[d]
      /\ call' = [call EXCEPT ![t] = c]
  BY <1>1 DEF StoreCertificate, Goto
<1>3. CallKept(c)
  BY <1>1 DEF CallKept, StoreCertificate, At
<1> HIDE DEF c
<1>4. SignaturesTyped' /\ CallsKept'
  BY <1>2, <1>3 DEF CertifierInv, SignaturesTyped, CallsKept, CallKept
<1>5. IsPrefix(signatures[b], signatures[b])
  BY <1>1, PrefixOfItself
<1>6. CertificatesKept'
  BY <1>1, <1>2, <1>5 DEF CertifierInv, CertificatesKept
<1>7. Grow
  BY <1>2, PrefixOfItself DEF CertifierInv, CertificatesKept, Grow
<1> QED
  BY <1>4, <1>6, <1>7 DEF CertifierInv

LEMMA CertifierNextInv == CertifierInv /\ [Next]_vars => CertifierInv' /\ Grow
<1> SUFFICES ASSUME CertifierInv, [Next]_vars PROVE CertifierInv' /\ Grow
  OBVIOUS
<1>1. CASE UNCHANGED vars
  BY <1>1, OtherStep DEF vars, certVars
<1>2. ASSUME NEW t \in Threads, NEW b \in Batches, NEW v \in Validators, Call(t, b, v)
      PROVE  CertifierInv' /\ Grow
  <2>1. UNCHANGED <<signatures, certified>>
    BY <1>2 DEF Call, certVars
  <2>2. CASE UNCHANGED call
    BY <2>1, <2>2, OtherStep
  <2>3. CASE call' # call
    <3> DEFINE c == [pc |-> "certified?", batch |-> b, validator |-> v, certificate |-> NoCertificate]
    <3>1. call' = [call EXCEPT ![t] = c]
      BY <1>2, <2>3 DEF Call
    <3>2. CallKept(c)
      BY DEF CallKept
    <3> HIDE DEF c
    <3> QED
      BY <2>1, <3>1, <3>2, CallStep
  <2> QED
    BY <2>2, <2>3
<1>3. ASSUME NEW t \in Threads, CheckCertified(t)
      PROVE  CertifierInv' /\ Grow
  BY <1>3, GotoKept DEF CheckCertified, At, certVars
<1>4. ASSUME NEW t \in Threads, CheckValidator(t)
      PROVE  CertifierInv' /\ Grow
  BY <1>4, GotoKept DEF CheckValidator, At, certVars
<1>5. ASSUME NEW t \in Threads, LinkCertificate(t)
      PROVE  CertifierInv' /\ Grow
  <2>1. UNCHANGED <<signatures, certified>> /\ call[t].pc = "link" /\ (Goto(t, "unpend") \/ Return(t))
    BY <1>5 DEF LinkCertificate, At, certVars
  <2> QED
    BY <2>1, GotoKept
<1>6. ASSUME NEW S, SetMembers(S)
      PROVE  CertifierInv' /\ Grow
  BY <1>6, OtherStep DEF SetMembers
<1>7. ASSUME NEW b \in Batches, InsertBatch(b) \/ AuthorBatch(b)
      PROVE  CertifierInv' /\ Grow
  BY <1>7, OtherStep DEF InsertBatch, AuthorBatch, certVars
<1>8. CASE ClearGraph
  BY <1>8, OtherStep DEF ClearGraph, certVars
<1>9. CASE Steady
  BY <1>2, <1>3, <1>4, <1>5, <1>7, <1>9, PushKept, TallyKept, StoreKept DEF Steady, Step
<1>10. CASE \E v \in Validators : RemoveValidator(v) \/ AddValidator(v)
  BY <1>6, <1>10 DEF RemoveValidator, AddValidator
<1> QED
  BY <1>1, <1>8, <1>9, <1>10 DEF Next

(* Calls that reach a quorum together, or again, never replace a            *)
(* certificate by one with fewer or other signatures.                       *)
THEOREM CertificatesOnlyGrow == Spec => CertificatesGrow
<1>1. CertifierInv /\ [Next]_vars => [Grow]_vars
  BY CertifierNextInv
<1>2. CertifierInv /\ [Next]_vars => CertifierInv'
  BY CertifierNextInv
<1> QED
  BY <1>1, <1>2, CertifierInitInv, PTL DEF Spec, CertificatesGrow, Grow

-----------------------------------------------------------------------------
(* The graph beneath the certifier keeps its own invariant; the theorems    *)
(* about it are used through this instance.                                 *)
GP == INSTANCE FlowGraphProofs

(* A step keeps the graph consistent, and marks no batch as certified but   *)
(* those in S.                                                              *)
GraphStepMarks(S) ==
  /\ GP!GraphInv'
  /\ \A b \in Graph!Present' :
       vertices'[b].certified => b \in S \/ (b \in Graph!Present /\ vertices[b].certified)

LEMMA GraphInsertion ==
  ASSUME GP!GraphInv, NEW b \in Batches, Graph!AddBatch(b)
  PROVE  /\ GraphStepMarks({}) /\ Graph!Present' = Graph!Present \cup {b}
         /\ \A x \in Graph!Present : vertices'[x].certified = vertices[x].certified
<1>1. GP!AddBatch(b)
  BY DEF Graph!AddBatch, GP!AddBatch, Graph!Authored, GP!Authored, Graph!ContainsBatch,
         GP!ContainsBatch, Graph!Present, GP!Present, Graph!Inserted, GP!Inserted,
         Graph!NewVertex, GP!NewVertex, Graph!WithChild, GP!WithChild
<1>2. GP!GraphInv'
  BY <1>1, GraphAssumption, GP!AddBatchStep
<1>3. /\ b \notin Graph!Present /\ vertices' = Graph!Inserted(b)
      /\ Graph!Present' = Graph!Present \cup {b}
  BY DEF Graph!AddBatch, Graph!ContainsBatch, Graph!Inserted, Graph!Present
<1>4. ~vertices'[b].certified
  BY <1>3 DEF Graph!Inserted, Graph!NewVertex
<1>5. ASSUME NEW x \in Graph!Present
      PROVE  vertices'[x].certified = vertices[x].certified
  <2>1. "certified" \in DOMAIN vertices[x]
    BY DEF GP!GraphInv, GP!TypeOK, GP!Vertex, GP!Present, Graph!Present
  <2>2. vertices'[x] = IF x \in prev[b] THEN [vertices[x] EXCEPT !.children = @ \cup {b}]
                       ELSE vertices[x]
    BY <1>3 DEF Graph!Inserted, Graph!WithChild, Graph!Present
  <2> QED
    BY <2>1, <2>2
<1> QED
  BY <1>2, <1>3, <1>4, <1>5 DEF GraphStepMarks

LEMMA GraphAuthored ==
  ASSUME GP!GraphInv, NEW b \in Batches, Graph!Author(b)
  PROVE  GraphStepMarks({}) /\ UNCHANGED vertices
<1>1. /\ b \notin GP!Authored /\ UNCHANGED GP!graphVars /\ UNCHANGED vertices
      /\ \E ps \in SUBSET GP!Authored :
           prev' = [x \in GP!Authored \cup {b} |-> IF x = b THEN ps ELSE prev[x]]
  BY DEF Graph!Author, Graph!Authored, GP!Authored, Graph!graphVars, GP!graphVars
<1>2. GP!GraphInv'
  BY <1>1, GraphAssumption, GP!AuthoredStep
<1> QED
  BY <1>1, <1>2 DEF GraphStepMarks, Graph!Present

LEMMA GraphMarked ==
  ASSUME GP!GraphInv, NEW b \in Batches, Graph!SetCertificate(b)
  PROVE  /\ GraphStepMarks({b}) /\ Graph!Present' = Graph!Present
         /\ vertices'[b].certified
         /\ \A x \in Graph!Present \ {b} : vertices'[x] = vertices[x]
<1>1. GP!Mark(b)
  BY DEF Graph!SetCertificate, GP!SetCertificate, GP!Mark, Graph!ContainsBatch, GP!ContainsBatch,
         Graph!Present, GP!Present
<1>2. GP!GraphInv'
  BY <1>1, GraphAssumption, GP!MarkStep
<1>3. /\ b \in DOMAIN vertices /\ vertices' = [vertices EXCEPT ![b].certified = TRUE]
      /\ "certified" \in DOMAIN vertices[b]
  BY DEF Graph!SetCertificate, Graph!ContainsBatch, Graph!Present, GP!GraphInv, GP!TypeOK,
         GP!Vertex, GP!Present
<1>4. /\ vertices'[b].certified /\ DOMAIN vertices' = DOMAIN vertices
      /\ \A x \in DOMAIN vertices \ {b} : vertices'[x] = vertices[x]
  BY <1>3
<1> QED
  BY <1>2, <1>4 DEF GraphStepMarks, Graph!Present

LEMMA GraphCleared ==
  ASSUME GP!GraphInv, Graph!Clear
  PROVE  GraphStepMarks({})
<1>1. GP!GraphInv'
  BY GP!ClearStep, GraphAssumption DEF Graph!Clear, GP!Clear
<1> QED
  BY <1>1 DEF GraphStepMarks, Graph!Clear, Graph!Present

LEMMA GraphTyped == GP!GraphInv => Graph!TypeOK
  BY DEF GP!GraphInv, GP!TypeOK, Graph!TypeOK, GP!Authored, Graph!Authored, GP!Present,
         Graph!Present, GP!Vertex, Graph!Vertex

LEMMA GraphInitially == Graph!Init => GP!GraphInv
  BY GP!InitGraphInv, GraphAssumption DEF Graph!Init, GP!Init

-----------------------------------------------------------------------------
(* A signature is counted once: while it is delivered once, a validator is  *)
(* in the list of a batch only after its delivery, and the one call that    *)
(* carries the signature has not pushed it yet.                             *)
Waiting(c) == c.pc \in {"certified?", "validator?", "push"}

CountedOnce ==
  /\ delivered \in [Batches -> [Validators -> 0..MaxDeliveries]]
  /\ \A b \in Batches : NoRepeat(signatures[b])
  /\ \A b \in Batches : \A v \in ToSet(signatures[b]) : delivered[b][v] # 0
  /\ \A t \in Threads :
       Waiting(call[t]) =>
         /\ delivered[call[t].batch][call[t].validator] # 0
         /\ call[t].validator \notin ToSet(signatures[call[t].batch])
  /\ \A t \in Threads, u \in Threads :
       Waiting(call[t]) /\ Waiting(call[u])
         /\ call[t].batch = call[u].batch /\ call[t].validator = call[u].validator => t = u

LEMMA CountedInit == Init => CountedOnce
<1> SUFFICES ASSUME Init PROVE CountedOnce
  OBVIOUS
<1>1. /\ \A b \in Batches : signatures[b] = << >>
      /\ \A b \in Batches : delivered[b] = [v \in Validators |-> 0]
      /\ delivered = [b \in Batches |-> [v \in Validators |-> 0]]
      /\ \A t \in Threads : ~Waiting(call[t])
  BY DEF Init, Idle, Waiting
<1>2. NoRepeat(<< >>) /\ ToSet(<< >>) = {}
  BY DEF NoRepeat, ToSet
<1>3. 0 \in 0..MaxDeliveries
  BY DeliveriesAssumption
<1> QED
  BY <1>1, <1>2, <1>3 DEF CountedOnce

(* A call goes on, or returns, without delivering or adding a signature.    *)
LEMMA CountedCallStep ==
  ASSUME CountedOnce, CertifierInv, UNCHANGED <<signatures, delivered>>,
         NEW t \in Threads, NEW c, call' = [call EXCEPT ![t] = c],
         Waiting(c) => Waiting(call[t]) /\ c.batch = call[t].batch /\ c.validator = call[t].validator
  PROVE  CountedOnce'
<1>1. call'[t] = c /\ \A u \in Threads \ {t} : call'[u] = call[u]
  BY DEF CertifierInv, CallsKept
<1>2. ASSUME NEW u \in Threads, Waiting(call'[u])
      PROVE  /\ Waiting(call[u]) /\ call'[u].batch = call[u].batch
             /\ call'[u].validator = call[u].validator
  BY <1>1, <1>2
<1>3. ASSUME NEW u \in Threads, Waiting(call'[u])
      PROVE  /\ delivered'[call'[u].batch][call'[u].validator] # 0
             /\ call'[u].validator \notin ToSet(signatures'[call'[u].batch])
  BY <1>2, <1>3 DEF CountedOnce
<1>4. ASSUME NEW u \in Threads, NEW w \in Threads, Waiting(call'[u]), Waiting(call'[w]),
             call'[u].batch = call'[w].batch, call'[u].validator = call'[w].validator
      PROVE  u = w
  BY <1>2, <1>4 DEF CountedOnce
<1>5. /\ (delivered \in [Batches -> [Validators -> 0..MaxDeliveries]])'
      /\ \A b \in Batches : NoRepeat(signatures'[b])
      /\ \A b \in Batches : \A v \in ToSet(signatures'[b]) : delivered'[b][v] # 0
  BY DEF CountedOnce
<1> QED
  BY <1>3, <1>4, <1>5 DEF CountedOnce, Waiting

LEMMA CountedOtherStep ==
  ASSUME CountedOnce, UNCHANGED <<signatures, delivered, call>>
  PROVE  CountedOnce'
BY DEF CountedOnce, Waiting

(* The only delivery of a signature starts the only call that carries it.   *)
LEMMA CountedDelivery ==
  ASSUME MaxDeliveries =< 1, CountedOnce, CertifierInv, NEW t \in Threads, NEW b \in Batches,
         NEW v \in Validators, Call(t, b, v)
  PROVE  CountedOnce'
<1>1. /\ delivered[b][v] = 0 /\ delivered' = [delivered EXCEPT ![b][v] = @ + 1]
      /\ UNCHANGED signatures
      /\ delivered \in [Batches -> [Validators -> 0..MaxDeliveries]]
  <2>1. /\ delivered' = [delivered EXCEPT ![b][v] = @ + 1] /\ UNCHANGED signatures
        /\ delivered \in [Batches -> [Validators -> 0..MaxDeliveries]]
        /\ delivered[b][v] < MaxDeliveries
    BY DEF Call, CountedOnce, certVars
  <2>2. delivered[b][v] \in 0..MaxDeliveries
    BY <2>1
  <2>3. \A n \in 0..MaxDeliveries : n < MaxDeliveries => n = 0
    BY DeliveriesAssumption
  <2>4. delivered[b][v] = 0
    BY <2>1, <2>2, <2>3
  <2> QED
    BY <2>1, <2>4
<1>2. /\ delivered'[b][v] = 1 /\ 1 \in 0..MaxDeliveries
      /\ delivered' \in [Batches -> [Validators -> 0..MaxDeliveries]]
      /\ \A a \in Batches, w \in Validators : delivered'[a][w] = delivered[a][w] \/ (a = b /\ w = v)
  <2>1. 1 \in 0..MaxDeliveries
    BY <1>1, DeliveriesAssumption DEF Call
  <2>2. delivered' = [delivered EXCEPT ![b] = [delivered[b] EXCEPT ![v] = 1]]
    BY <1>1
  <2>3. [delivered[b] EXCEPT ![v] = 1] \in [Validators -> 0..MaxDeliveries]
    BY <1>1, <2>1
  <2> QED
    BY <1>1, <2>1, <2>2, <2>3
<1>3. \A a \in Batches, w \in Validators : delivered[a][w] # 0 => delivered'[a][w] # 0
  BY <1>1, <1>2
<1>4. \A a \in Batches : ToSet(signatures[a]) \subseteq Validators
  BY AppendElements DEF CertifierInv, SignaturesTyped, ToSet
<1>5. \A a \in Batches : \A w \in ToSet(signatures'[a]) : delivered'[a][w] # 0
  BY <1>1, <1>3, <1>4 DEF CountedOnce
<1>6. v \notin ToSet(signatures[b])
  BY <1>1 DEF CountedOnce
<1>7. \A u \in Threads :
        Waiting(call[u]) => /\ call[u].batch \in Batches /\ call[u].validator \in Validators
                            /\ ~(call[u].batch = b /\ call[u].validator = v)
  BY <1>1 DEF CountedOnce, CertifierInv, CallsKept, CallKept, Waiting
<1>8. CASE UNCHANGED call
  BY <1>1, <1>2, <1>3, <1>5, <1>7, <1>8 DEF CountedOnce, Waiting
<1>9. CASE call' # call
  <2> DEFINE c == [pc |-> "certified?", batch |-> b, validator |-> v, certificate |-> NoCertificate]
  <2>1. call' = [call EXCEPT ![t] = c]
    BY <1>9 DEF Call
  <2>2. call'[t] = c /\ \A u \in Threads \ {t} : call'[u] = call[u]
    BY <2>1 DEF CertifierInv, CallsKept
  <2>3. c.batch = b /\ c.validator = v
    OBVIOUS
  <2> HIDE DEF c
  <2>4. ASSUME NEW u \in Threads, Waiting(call'[u])
        PROVE  /\ delivered'[call'[u].batch][call'[u].validator] # 0
               /\ call'[u].validator \notin ToSet(signatures'[call'[u].batch])
    <3>1. CASE u = t
      BY <1>1, <1>2, <1>6, <2>2, <2>3, <3>1
    <3>2. CASE u # t
      BY <1>1, <1>3, <1>7, <2>2, <2>4, <3>2 DEF CountedOnce
    <3> QED
      BY <3>1, <3>2
  <2>5. ASSUME NEW u \in Threads, NEW w \in Threads, Waiting(call'[u]), Waiting(call'[w]),
               call'[u].batch = call'[w].batch, call'[u].validator = call'[w].validator
        PROVE  u = w
    <3>1. CASE u = t
      BY <1>7, <2>2, <2>3, <2>5, <3>1
    <3>2. CASE w = t
      BY <1>7, <2>2, <2>3, <2>5, <3>2
    <3>3. CASE u # t /\ w # t
      BY <2>2, <2>5, <3>3 DEF CountedOnce
    <3> QED
      BY <3>1, <3>2, <3>3
  <2>6. \A a \in Batches : NoRepeat(signatures'[a])
    BY <1>1 DEF CountedOnce
  <2> QED
    BY <1>2, <1>5, <2>4, <2>5, <2>6 DEF CountedOnce, Waiting
<1> QED
  BY <1>8, <1>9

(* The call that carries a signature pushes it and waits no longer.         *)
LEMMA CountedPush ==
  ASSUME CountedOnce, CertifierInv, NEW t \in Threads, Push(t)
  PROVE  CountedOnce'
<1> DEFINE b == call[t].batch
           v == call[t].validator
           c == [call[t] EXCEPT !.pc = "tally"]
           list == Append(signatures[b], v)
<1>1. /\ CallKept(call[t]) /\ Waiting(call[t]) /\ b \in Batches /\ v \in Validators
      /\ signatures[b] \in Seq(Validators)
  BY DEF Push, At, CertifierInv, CallsKept, CallKept, SignaturesTyped, Waiting
<1>2. /\ signatures' = [signatures EXCEPT ![b] = list] /\ call' = [call EXCEPT ![t] = c]
      /\ UNCHANGED delivered
  BY DEF Push, Goto
<1>3. ~Waiting(c)
  BY <1>1 DEF CallKept, Waiting, Push, At
<1>4. delivered[b][v] # 0 /\ v \notin ToSet(signatures[b]) /\ NoRepeat(signatures[b])
  BY <1>1 DEF CountedOnce
<1>5. ToSet(list) = ToSet(signatures[b]) \cup {v} /\ NoRepeat(list)
  BY <1>1, <1>4, AppendElements
<1>6. /\ call'[t] = c /\ \A u \in Threads \ {t} : call'[u] = call[u]
      /\ signatures'[b] = list /\ \A a \in Batches \ {b} : signatures'[a] = signatures[a]
  BY <1>1, <1>2 DEF CertifierInv, CallsKept, SignaturesTyped
<1> HIDE DEF c, list
<1>7. \A a \in Batches : NoRepeat(signatures'[a])
  BY <1>5, <1>6 DEF CountedOnce
<1>8. \A a \in Batches : \A w \in ToSet(signatures'[a]) : delivered'[a][w] # 0
  BY <1>2, <1>4, <1>5, <1>6 DEF CountedOnce
<1>9. ASSUME NEW u \in Threads, Waiting(call'[u])
      PROVE  /\ u # t /\ call'[u] = call[u] /\ Waiting(call[u])
  BY <1>3, <1>6, <1>9
<1>10. ASSUME NEW u \in Threads, Waiting(call'[u])
       PROVE  /\ delivered'[call'[u].batch][call'[u].validator] # 0
              /\ call'[u].validator \notin ToSet(signatures'[call'[u].batch])
  <2>1. /\ u # t /\ call'[u] = call[u] /\ Waiting(call[u]) /\ call[u].batch \in Batches
        /\ delivered[call[u].batch][call[u].validator] # 0
        /\ call[u].validator \notin ToSet(signatures[call[u].batch])
    BY <1>9, <1>10 DEF CountedOnce, CertifierInv, CallsKept, CallKept, Waiting
  <2>2. call[u].batch = b => call[u].validator # v
    BY <1>1, <2>1 DEF CountedOnce
  <2> QED
    BY <1>2, <1>5, <1>6, <2>1, <2>2
<1>11. \A u \in Threads, w \in Threads :
         Waiting(call'[u]) /\ Waiting(call'[w])
           /\ call'[u].batch = call'[w].batch /\ call'[u].validator = call'[w].validator => u = w
  BY <1>9 DEF CountedOnce
<1>12. delivered' \in [Batches -> [Validators -> 0..MaxDeliveries]]
  BY <1>2 DEF CountedOnce
<1> QED
  BY <1>7, <1>8, <1>10, <1>11, <1>12 DEF CountedOnce, Waiting

-----------------------------------------------------------------------------
(* The sums of the model as sums of functions. *)
Stakes == [v \in Validators |-> StakeOf(v)]

LEMMA StakesFacts ==
  ASSUME members \subseteq Validators
  PROVE  /\ NatOn(Stakes, Validators) /\ IntOn(Stakes, Validators)
         /\ NatOn(Stake, Validators) /\ IntOn(Stake, Validators)
         /\ \A v \in Validators : Stakes[v] =< Stake[v]
BY StakeAssumption DEF NatOn, IntOn, Stakes, StakeOf

LEMMA TotalStakeIsTotal ==
  ASSUME members \subseteq Validators
  PROVE  TotalStake = Total(Stakes, members) /\ TotalStake \in Nat
<1> DEFINE body(it) == [s \in SUBSET members |->
                            IF s = {} THEN 0
                            ELSE LET x == CHOOSE x \in s : TRUE IN StakeOf(x) + it[s \ {x}]]
             body2(it) == [s \in SUBSET members |->
                             IF s = {} THEN 0
                             ELSE LET x == CHOOSE x \in s : TRUE IN Stakes[x] + it[s \ {x}]]
<1>1. TotalStake = (CHOOSE it : it = body(it))[members]
  BY DEF TotalStake, MapThenSumSet, MapThenFoldSet
<1>2. Total(Stakes, members) = (CHOOSE it : it = body2(it))[members]
  BY DEF Total, MapThenSumSet, MapThenFoldSet
<1>3. \A it : body(it) = body2(it)
  <2> SUFFICES ASSUME NEW it, NEW s \in SUBSET members, s # {}
                 PROVE  StakeOf(CHOOSE x \in s : TRUE) = Stakes[CHOOSE x \in s : TRUE]
    OBVIOUS
  <2>1. (CHOOSE x \in s : TRUE) \in Validators
    OBVIOUS
  <2> QED
    BY <2>1 DEF Stakes
<1>4. TotalStake = Total(Stakes, members)
  <2> HIDE DEF body, body2
  <2> QED
    BY <1>1, <1>2, <1>3
<1>5. IsFiniteSet(members) /\ NatOn(Stakes, members)
  BY StakesFacts, ValidatorsAssumption, FS_Subset DEF NatOn
<1> QED
  BY <1>4, <1>5, TotalNat

LEMMA StakeWeightIsTotal ==
  ASSUME NEW list \in Seq(Validators)
  PROVE  StakeWeight(list) = SeqTotal(Stakes, list)
<1> DEFINE body(it) == [s \in SUBSET (DOMAIN list) |->
                            IF s = {} THEN 0
                            ELSE LET x == Max(s) IN it[s \ {x}] + StakeOf(list[x])]
             body2(it) == [s \in SUBSET (DOMAIN list) |->
                             IF s = {} THEN 0
                             ELSE LET x == Max(s) IN it[s \ {x}] + Stakes[list[x]]]
<1>1. StakeWeight(list) = (CHOOSE it : it = body(it))[DOMAIN list]
  BY DEF StakeWeight, FoldLeft, MapThenFoldSet
<1>2. SeqTotal(Stakes, list) = (CHOOSE it : it = body2(it))[DOMAIN list]
  BY DEF SeqTotal, FoldLeft, MapThenFoldSet
<1>3. \A it : body(it) = body2(it)
  <2> SUFFICES ASSUME NEW it, NEW s \in SUBSET (DOMAIN list), s # {}
                 PROVE  it[s \ {Max(s)}] + StakeOf(list[Max(s)])
                          = it[s \ {Max(s)}] + Stakes[list[Max(s)]]
    OBVIOUS
  <2>1. Max(s) \in s
    <3>1. s \in SUBSET Int /\ IsFiniteSet(DOMAIN list)
      BY FS_Interval
    <3>2. IsFiniteSet(s)
      BY <3>1, FS_Subset
    <3> QED
      BY <3>1, <3>2, MaxElement
  <2>2. list[Max(s)] \in Validators
    BY <2>1
  <2> QED
    BY <2>2 DEF Stakes
<1> HIDE DEF body, body2
<1> QED
  BY <1>1, <1>2, <1>3

(* The weight of distinct signers is that of their set, of which a         *)
(* validator that has left counts nothing.                                  *)
LEMMA SignersWeight ==
  ASSUME members \subseteq Validators, NEW list \in Seq(Validators), NoRepeat(list)
  PROVE  /\ StakeWeight(list) \in Nat
         /\ StakeWeight(list) =< DistinctWeight(list)
         /\ DistinctWeight(list) \in Nat
<1> DEFINE S == ToSet(list)
<1>1. S \in SUBSET Validators
  BY DEF ToSet
<1>2. IsFiniteSet(S)
  BY <1>1, ValidatorsAssumption, FS_Subset
<1>3. /\ NatOn(Stakes, S) /\ IntOn(Stakes, S) /\ NatOn(Stake, S) /\ IntOn(Stake, S)
      /\ \A v \in S : Stakes[v] =< Stake[v]
  BY <1>1, StakesFacts DEF NatOn, IntOn
<1>4. StakeWeight(list) = Total(Stakes, S)
  <2>1. SeqTotal(Stakes, list) = Total(Stakes, ToSet(list))
    BY StakesFacts, SeqTotalDistinct DEF NoRepeat
  <2> QED
    BY <2>1, StakeWeightIsTotal
<1>5. DistinctWeight(list) = Total(Stake, S)
  BY DEF DistinctWeight, Total
<1> HIDE DEF S
<1>6. Total(Stakes, S) =< Total(Stake, S)
  BY <1>2, <1>3, TotalOrdered
<1>7. Total(Stakes, S) \in Nat /\ Total(Stake, S) \in Nat
  BY <1>2, <1>3, TotalNat
<1> QED
  BY <1>4, <1>5, <1>6, <1>7


-----------------------------------------------------------------------------
(* Every certificate that is stored, or about to be, has a quorum behind    *)
(* it, and a call tells the graph only what is stored.                      *)
Sound(c) == c \in Certificate /\ Quorum(DistinctWeight(c.signers), c.total)

CallSound(c) ==
  /\ c.pc = "idle" => c = Idle
  /\ c.pc = "store" => Sound(c.certificate)
  /\ c.pc = "link" => c.batch \in DOMAIN certified

StoredSound ==
  /\ DOMAIN certified \subseteq Batches
  /\ \A b \in DOMAIN certified : Sound(certified[b])

CallsSound == \A t \in Threads : CallSound(call[t])

CertifyInv ==
  /\ CertifierInv /\ CountedOnce /\ members \subseteq Validators
  /\ StoredSound /\ CallsSound
  /\ GP!GraphInv /\ GraphCertificatesBacked

(* No certificate is lost, so what the calls and the graph say of them      *)
(* stays true.                                                              *)
LEMMA BackedKept ==
  ASSUME GraphCertificatesBacked, NEW S, GraphStepMarks(S), S \subseteq DOMAIN certified,
         DOMAIN certified \subseteq DOMAIN certified'
  PROVE  GraphCertificatesBacked'
BY DEF GraphCertificatesBacked, GraphStepMarks, Graph!Present

LEMMA GraphUnchanged ==
  ASSUME GP!GraphInv, UNCHANGED graphVars
  PROVE  GraphStepMarks({})
<1>1. GP!GraphInv'
  BY DEF GP!GraphInv, GP!TypeOK, GP!IndexesExact, GP!EdgesSound, GP!Authored, GP!Present,
         GP!Vertex, graphVars
<1> QED
  BY <1>1 DEF GraphStepMarks, Graph!Present, graphVars

LEMMA IdleSound == CallSound(Idle) /\ ~Waiting(Idle)
BY DEF CallSound, Idle, Waiting

LEMMA SoundCallStep ==
  ASSUME CertifierInv, StoredSound, CallsSound, UNCHANGED certified, NEW t \in Threads, NEW c,
         call' = [call EXCEPT ![t] = c], CallSound(c)
  PROVE  StoredSound' /\ CallsSound'
<1>1. call'[t] = c /\ \A u \in Threads \ {t} : call'[u] = call[u]
  BY DEF CertifierInv, CallsKept
<1>2. ASSUME NEW u \in Threads
      PROVE  CallSound(call[u])'
  <2>1. CallSound(call'[u])
    BY <1>1 DEF CallsSound
  <2> QED
    BY <2>1 DEF CallSound
<1> QED
  BY <1>2 DEF StoredSound, CallsSound

LEMMA SoundOtherStep ==
  ASSUME StoredSound, CallsSound, UNCHANGED <<certified, call>>
  PROVE  StoredSound' /\ CallsSound'
BY DEF StoredSound, CallsSound, CallSound

(* A step of a call that changes nothing else.                              *)
LEMMA CertifyCallStep ==
  ASSUME CertifyInv, UNCHANGED <<graphVars, certVars, delivered>>, NEW t \in Threads,
         NEW pc \in {"validator?", "push"}, Goto(t, pc) \/ Return(t), Waiting(call[t])
  PROVE  CertifyInv'
<1>0. CallKept(call[t]) /\ call[t].pc # "idle"
  BY DEF CertifyInv, CertifierInv, CallsKept, Waiting
<1>1. CertifierInv'
  BY <1>0, GotoKept DEF CertifyInv, certVars
<1>2. PICK c : /\ call' = [call EXCEPT ![t] = c] /\ CallSound(c)
               /\ Waiting(c) => c.batch = call[t].batch /\ c.validator = call[t].validator
  <2>1. CASE Goto(t, pc)
    <3> DEFINE d == [call[t] EXCEPT !.pc = pc]
    <3>1. call' = [call EXCEPT ![t] = d]
      BY <2>1 DEF Goto
    <3>2. CallSound(d) /\ d.batch = call[t].batch /\ d.validator = call[t].validator
      BY <1>0 DEF CallSound, CallKept
    <3> HIDE DEF d
    <3> QED
      BY <3>1, <3>2
  <2>2. CASE Return(t)
    BY <2>2, IdleSound DEF Return
  <2> QED
    BY <2>1, <2>2
<1>3. CountedOnce'
  BY <1>2, CountedCallStep DEF CertifyInv, certVars
<1>4. StoredSound' /\ CallsSound'
  BY <1>2, SoundCallStep DEF CertifyInv, certVars
<1>5. GP!GraphInv' /\ GraphCertificatesBacked'
  BY GraphUnchanged, BackedKept DEF CertifyInv, GraphStepMarks, certVars
<1> QED
  BY <1>1, <1>3, <1>4, <1>5 DEF CertifyInv, certVars

LEMMA CertifyPush ==
  ASSUME CertifyInv, NEW t \in Threads, Push(t)
  PROVE  CertifyInv'
<1>0. CallKept(call[t]) /\ UNCHANGED <<graphVars, members, certified>>
  BY DEF CertifyInv, CertifierInv, CallsKept, Push
<1>1. CertifierInv' /\ CountedOnce'
  BY PushKept, CountedPush DEF CertifyInv
<1>2. CallSound([call[t] EXCEPT !.pc = "tally"])
  BY <1>0 DEF CallSound, CallKept, Push, At
<1>3. StoredSound' /\ CallsSound'
  BY <1>0, <1>2, SoundCallStep DEF CertifyInv, Push, Goto
<1>4. GP!GraphInv' /\ GraphCertificatesBacked'
  BY <1>0, GraphUnchanged, BackedKept DEF CertifyInv, GraphStepMarks
<1> QED
  BY <1>0, <1>1, <1>3, <1>4 DEF CertifyInv

(* A list without repetitions weighs no more than the stake of its signers. *)
LEMMA CertifyTally ==
  ASSUME CertifyInv, NEW t \in Threads, Tally(t)
  PROVE  CertifyInv'
<1> DEFINE list == signatures[call[t].batch]
           weight == StakeWeight(list)
           certificate == [signers |-> list, weight |-> weight, total |-> TotalStake]
           c == [call[t] EXCEPT !.pc = "store", !.certificate = certificate]
<1>0. /\ CallKept(call[t]) /\ call[t].pc = "tally" /\ call[t].batch \in Batches
      /\ UNCHANGED <<graphVars, certVars, delivered>>
  BY DEF CertifyInv, CertifierInv, CallsKept, CallKept, Tally, At
<1>1. CertifierInv'
  BY TallyKept DEF CertifyInv
<1>2. list \in Seq(Validators) /\ NoRepeat(list) /\ members \subseteq Validators
  BY <1>0 DEF CertifyInv, CertifierInv, SignaturesTyped, CountedOnce
<1>3. /\ weight \in Nat /\ weight =< DistinctWeight(list) /\ DistinctWeight(list) \in Nat
      /\ TotalStake \in Nat
  BY <1>2, SignersWeight, TotalStakeIsTotal
<1>4. /\ CallSound(Idle) /\ ~Waiting(Idle)
      /\ Quorum(weight, TotalStake) => CallSound(c) /\ ~Waiting(c)
  <2>1. CallSound(Idle) /\ ~Waiting(Idle)
    BY IdleSound
  <2>2. ASSUME Quorum(weight, TotalStake)
        PROVE  CallSound(c) /\ ~Waiting(c)
    <3>1. certificate \in Certificate
      BY <1>2, <1>3 DEF Certificate
    <3>2. Quorum(DistinctWeight(list), TotalStake)
      <4> HIDE DEF weight, list
      <4>1. PICK m \in Nat, n \in Nat, k \in Nat :
              m = weight /\ n = DistinctWeight(list) /\ k = TotalStake
        BY <1>3
      <4> QED
        BY <1>3, <2>2, <4>1 DEF Quorum
    <3>3. c.pc = "store" /\ c.certificate = certificate
      BY <1>0 DEF CallKept
    <3>4. certificate.signers = list /\ certificate.total = TotalStake
      OBVIOUS
    <3> HIDE DEF c, certificate
    <3> QED
      BY <3>1, <3>2, <3>3, <3>4 DEF CallSound, Sound, Waiting
  <2> QED
    BY <2>1, <2>2
<1>5. \/ call' = [call EXCEPT ![t] = c] /\ Quorum(weight, TotalStake)
      \/ call' = [call EXCEPT ![t] = Idle]
  BY DEF Tally, Return
<1> HIDE DEF c, weight, list
<1>6. PICK d : call' = [call EXCEPT ![t] = d] /\ CallSound(d) /\ ~Waiting(d)
  BY <1>4, <1>5
<1>7. CountedOnce' /\ StoredSound' /\ CallsSound'
  BY <1>0, <1>6, CountedCallStep, SoundCallStep DEF CertifyInv, certVars
<1>8. GP!GraphInv' /\ GraphCertificatesBacked'
  BY <1>0, GraphUnchanged, BackedKept DEF CertifyInv, GraphStepMarks, certVars
<1> QED
  BY <1>0, <1>1, <1>7, <1>8 DEF CertifyInv, certVars

LEMMA CertifyStore ==
  ASSUME CertifyInv, NEW t \in Threads, StoreCertificate(t)
  PROVE  CertifyInv'
<1> DEFINE b == call[t].batch
           c == [call[t] EXCEPT !.pc = "link"]
<1>0. /\ CallKept(call[t]) /\ b \in Batches /\ Sound(call[t].certificate)
      /\ UNCHANGED <<graphVars, members, signatures, delivered>>
  BY DEF CertifyInv, CertifierInv, CallsKept, CallKept, CallsSound, CallSound, StoreCertificate, At
<1>1. CertifierInv'
  BY StoreKept DEF CertifyInv
<1>2. /\ DOMAIN certified' = DOMAIN certified \cup {b} /\ certified'[b] = call[t].certificate
      /\ \A a \in DOMAIN certified \ {b} : certified'[a] = certified[a]
      /\ call' = [call EXCEPT ![t] = c]
  BY DEF StoreCertificate, Goto
<1>3. c.pc = "link" /\ c.batch = b
  BY <1>0 DEF CallKept, StoreCertificate, At
<1> HIDE DEF c, b
<1>4. CountedOnce'
  BY <1>0, <1>2, <1>3, CountedCallStep DEF CertifyInv, Waiting
<1>5. \A a \in DOMAIN certified' : Sound(certified'[a])
  BY <1>0, <1>2 DEF CertifyInv, StoredSound
<1>6. StoredSound'
  BY <1>0, <1>2, <1>5 DEF StoredSound, CertifyInv
<1>7. ASSUME NEW u \in Threads
      PROVE  CallSound(call[u])'
  <2>1. CASE u = t
    <3>1. call'[u].pc = "link" /\ call'[u].batch \in DOMAIN certified'
      BY <1>2, <1>3, <2>1 DEF CertifyInv, CertifierInv, CallsKept
    <3> QED
      BY <3>1 DEF CallSound
  <2>2. CASE u # t
    <3>1. call'[u] = call[u] /\ CallSound(call[u]) /\ DOMAIN certified \subseteq DOMAIN certified'
      BY <1>2, <2>2 DEF CertifyInv, CertifierInv, CallsKept, CallsSound
    <3> QED
      BY <3>1 DEF CallSound
  <2> QED
    BY <2>1, <2>2
<1>8. GP!GraphInv' /\ GraphCertificatesBacked'
  BY <1>0, <1>2, GraphUnchanged, BackedKept DEF CertifyInv, GraphStepMarks
<1> QED
  BY <1>0, <1>1, <1>4, <1>6, <1>7, <1>8 DEF CertifyInv, CallsSound

LEMMA CertifyLink ==
  ASSUME CertifyInv, NEW t \in Threads, LinkCertificate(t)
  PROVE  CertifyInv'
<1> DEFINE b == call[t].batch
<1>0. /\ CallKept(call[t]) /\ b \in Batches /\ b \in DOMAIN certified /\ call[t].pc = "link"
      /\ UNCHANGED <<certVars, delivered>>
  BY DEF CertifyInv, CertifierInv, CallsKept, CallKept, CallsSound, CallSound, LinkCertificate, At
<1>1. /\ Graph!SetCertificate(b) \/ UNCHANGED graphVars
      /\ Goto(t, "unpend") \/ Return(t)
  BY DEF LinkCertificate
<1>2. CertifierInv'
  BY <1>0, <1>1, GotoKept DEF CertifyInv, certVars
<1>3. PICK c : call' = [call EXCEPT ![t] = c] /\ CallSound(c) /\ ~Waiting(c)
  <2>1. CASE Goto(t, "unpend")
    <3> DEFINE d == [call[t] EXCEPT !.pc = "unpend"]
    <3>1. CallSound(d) /\ ~Waiting(d)
      BY <1>0 DEF CallSound, CallKept, Waiting
    <3>2. call' = [call EXCEPT ![t] = d]
      BY <2>1 DEF Goto
    <3> HIDE DEF d
    <3> QED
      BY <3>1, <3>2
  <2>2. CASE Return(t)
    BY <2>2, IdleSound DEF Return
  <2> QED
    BY <1>1, <2>1, <2>2
<1>4. CountedOnce' /\ StoredSound' /\ CallsSound'
  BY <1>0, <1>3, CountedCallStep, SoundCallStep DEF CertifyInv, certVars
<1>5. GP!GraphInv' /\ GraphCertificatesBacked'
  <2>1. PICK S : GraphStepMarks(S) /\ S \subseteq DOMAIN certified
    <3>1. {b} \subseteq DOMAIN certified /\ {} \subseteq DOMAIN certified
      BY <1>0
    <3>2. GraphStepMarks({b}) \/ GraphStepMarks({})
      BY <1>0, <1>1, GraphMarked, GraphUnchanged DEF CertifyInv
    <3> QED
      BY <3>1, <3>2
  <2> QED
    BY <1>0, <2>1, BackedKept DEF CertifyInv, GraphStepMarks, certVars
<1> QED
  BY <1>0, <1>2, <1>4, <1>5 DEF CertifyInv, certVars

LEMMA CertifyDelivery ==
  ASSUME MaxDeliveries =< 1, CertifyInv, NEW t \in Threads, NEW b \in Batches,
         NEW v \in Validators, Call(t, b, v)
  PROVE  CertifyInv'
<1>1. UNCHANGED <<graphVars, certVars>> /\ CountedOnce'
  BY CountedDelivery DEF CertifyInv, Call
<1>2. CASE UNCHANGED call
  <2>1. CertifierInv' /\ StoredSound' /\ CallsSound'
    BY <1>1, <1>2, OtherStep, SoundOtherStep DEF CertifyInv, certVars
  <2>2. GP!GraphInv' /\ GraphCertificatesBacked'
    BY <1>1, GraphUnchanged, BackedKept DEF CertifyInv, GraphStepMarks, certVars
  <2> QED
    BY <1>1, <2>1, <2>2 DEF CertifyInv, certVars
<1>3. CASE call' # call
  <2> DEFINE c == [pc |-> "certified?", batch |-> b, validator |-> v, certificate |-> NoCertificate]
  <2>1. call' = [call EXCEPT ![t] = c]
    BY <1>3 DEF Call
  <2>2. CallKept(c) /\ CallSound(c)
    BY DEF CallKept, CallSound
  <2> HIDE DEF c
  <2>3. CertifierInv' /\ StoredSound' /\ CallsSound'
    BY <1>1, <2>1, <2>2, CallStep, SoundCallStep DEF CertifyInv, certVars
  <2>4. GP!GraphInv' /\ GraphCertificatesBacked'
    BY <1>1, GraphUnchanged, BackedKept DEF CertifyInv, GraphStepMarks, certVars
  <2> QED
    BY <1>1, <2>3, <2>4 DEF CertifyInv, certVars
<1> QED
  BY <1>2, <1>3

(* The validator set and the graph change on their own.                     *)
LEMMA CertifyOthers ==
  ASSUME CertifyInv, UNCHANGED <<signatures, certified, call, delivered>>,
         members' \subseteq Validators, GraphStepMarks({})
  PROVE  CertifyInv'
<1>1. CertifierInv' /\ CountedOnce' /\ StoredSound' /\ CallsSound'
  BY OtherStep, CountedOtherStep, SoundOtherStep DEF CertifyInv
<1>2. GP!GraphInv' /\ GraphCertificatesBacked'
  BY BackedKept DEF CertifyInv, GraphStepMarks
<1> QED
  BY <1>1, <1>2 DEF CertifyInv

LEMMA CertifyInitInv == Init => CertifyInv
<1> SUFFICES ASSUME Init PROVE CertifyInv
  OBVIOUS
<1>1. DOMAIN << >> = {}
  OBVIOUS
<1>2. StoredSound /\ CallsSound /\ GraphCertificatesBacked /\ members \subseteq Validators
  BY <1>1 DEF Init, StoredSound, CallsSound, CallSound, Idle, GraphCertificatesBacked,
              Graph!Init, Graph!Present
<1>3. GP!GraphInv
  BY GraphInitially DEF Init
<1> QED
  BY <1>2, <1>3, CertifierInitInv, CountedInit DEF CertifyInv

LEMMA CertifyNextInv ==
  ASSUME MaxDeliveries =< 1
  PROVE  CertifyInv /\ [Next]_vars => CertifyInv'
<1> SUFFICES ASSUME CertifyInv, [Next]_vars PROVE CertifyInv'
  OBVIOUS
<1>0. members \subseteq Validators /\ GP!GraphInv
  BY DEF CertifyInv
<1>1. CASE UNCHANGED vars
  BY <1>0, <1>1, GraphUnchanged, CertifyOthers DEF vars, certVars
<1>2. ASSUME NEW t \in Threads, Step(t)
      PROVE  CertifyInv'
  <2>1. CASE CheckCertified(t)
    BY <2>1, CertifyCallStep DEF CheckCertified, At, Waiting
  <2>2. CASE CheckValidator(t)
    BY <2>2, CertifyCallStep DEF CheckValidator, At, Waiting
  <2> QED
    BY <1>2, <2>1, <2>2, CertifyPush, CertifyTally, CertifyStore, CertifyLink DEF Step
<1>3. ASSUME NEW b \in Batches, InsertBatch(b)
      PROVE  CertifyInv'
  BY <1>0, <1>3, GraphInsertion, CertifyOthers DEF InsertBatch, certVars
<1>4. ASSUME NEW b \in Batches, AuthorBatch(b)
      PROVE  CertifyInv'
  BY <1>0, <1>4, GraphAuthored, CertifyOthers DEF AuthorBatch, certVars
<1>5. CASE ClearGraph
  BY <1>0, <1>5, GraphCleared, CertifyOthers DEF ClearGraph, certVars
<1>6. CASE \E v \in Validators : RemoveValidator(v) \/ AddValidator(v)
  BY <1>0, <1>6, GraphUnchanged, CertifyOthers DEF RemoveValidator, AddValidator, SetMembers
<1>7. CASE Steady
  BY <1>2, <1>3, <1>4, <1>7, CertifyDelivery DEF Steady
<1> QED
  BY <1>1, <1>5, <1>6, <1>7 DEF Next

(* The types, from what the invariant says of each part of the state.       *)
LEMMA CertifySound == CertifyInv => CertificatesSound
<1> SUFFICES ASSUME CertifyInv PROVE CertificatesSound
  OBVIOUS
<1>1. \A t \in Threads : call[t] = Idle \/ call[t].batch \in Batches
  BY DEF CertifyInv, CertifierInv, CallsKept, CallKept, CallsSound, CallSound
<1>2. \A b \in DOMAIN certified :
        certified[b] \in Certificate /\ Quorum(DistinctWeight(certified[b].signers), certified[b].total)
  BY DEF CertifyInv, StoredSound, Sound
<1>3. TypeOK
  BY <1>1, <1>2, GraphTyped
     DEF CertifyInv, CertifierInv, SignaturesTyped, StoredSound, CountedOnce, TypeOK
<1> QED
  BY <1>2, <1>3 DEF CertificatesSound, CertifiedByQuorum, CertifyInv

(* While no signature is delivered twice, distinct validators with more     *)
(* than two thirds of the stake stand behind every certificate, and the     *)
(* graph shows no other batch as certified, for any number of concurrent    *)
(* calls.  add_signature does not look for a repetition in its list, so the *)
(* hypothesis is about the one who calls it.                                *)
THEOREM CertifiedSoundly ==
  ASSUME MaxDeliveries =< 1
  PROVE  Spec => []CertificatesSound
<1>1. CertifyInv /\ [Next]_vars => CertifyInv'
  BY CertifyNextInv
<1> QED
  BY <1>1, CertifyInitInv, CertifySound, PTL DEF Spec


-----------------------------------------------------------------------------
(* While the graph only grows, what a call or a certificate speaks of stays *)
(* in it, so that the call which stores a certificate also links it.        *)
CallReaches(c) == c.pc # "idle" => c.batch \in Graph!Present

ReachInv ==
  /\ CertifierInv /\ GP!GraphInv
  /\ \A t \in Threads : CallReaches(call[t])
  /\ DOMAIN certified \subseteq Graph!Present
  /\ CertificatesReachGraph

LEMMA ReachInitInv == Init => ReachInv
<1> SUFFICES ASSUME Init PROVE ReachInv
  OBVIOUS
<1>1. DOMAIN << >> = {}
  OBVIOUS
<1>2. GP!GraphInv
  BY GraphInitially DEF Init
<1> QED
  BY <1>1, <1>2, CertifierInitInv DEF Init, ReachInv, CallReaches, CertificatesReachGraph, Idle

(* A call other than one that leaves "link" goes on, or returns, or starts  *)
(* with a batch of the graph.                                               *)
LEMMA ReachCallStep ==
  ASSUME ReachInv, CertifierInv', UNCHANGED <<graphVars, certified>>, NEW t \in Threads,
         NEW c, call' = [call EXCEPT ![t] = c], CallReaches(c), call[t].pc # "link"
  PROVE  ReachInv'
<1>1. call'[t] = c /\ \A u \in Threads \ {t} : call'[u] = call[u]
  BY DEF ReachInv, CertifierInv, CallsKept
<1>2. Graph!Present' = Graph!Present /\ GP!GraphInv'
  BY GraphUnchanged DEF ReachInv, GraphStepMarks, Graph!Present, graphVars
<1>3. \A u \in Threads : CallReaches(call[u])'
  BY <1>1, <1>2 DEF ReachInv, CallReaches
<1>4. ASSUME NEW b \in DOMAIN certified'
      PROVE  vertices'[b].certified \/ \E u \in Threads : call'[u].pc = "link" /\ call'[u].batch = b
  <2>1. vertices[b].certified \/ \E u \in Threads : call[u].pc = "link" /\ call[u].batch = b
    BY DEF ReachInv, CertificatesReachGraph, At
  <2>2. \A u \in Threads : call[u].pc = "link" => call'[u] = call[u]
    BY <1>1
  <2> QED
    BY <2>1, <2>2 DEF graphVars
<1> QED
  BY <1>2, <1>3, <1>4 DEF ReachInv, CertificatesReachGraph, At

(* The graph grows and forgets no certificate.                              *)
LEMMA ReachGraphStep ==
  ASSUME ReachInv, UNCHANGED <<signatures, certified, call>>, GraphStepMarks({}),
         Graph!Present \subseteq Graph!Present',
         \A b \in Graph!Present : vertices'[b].certified = vertices[b].certified
  PROVE  ReachInv'
<1>1. CertifierInv'
  BY OtherStep DEF ReachInv
<1>2. \A u \in Threads : CallReaches(call[u])'
  BY DEF ReachInv, CallReaches
<1>3. CertificatesReachGraph'
  BY DEF ReachInv, CertificatesReachGraph, At
<1> QED
  BY <1>1, <1>2, <1>3 DEF ReachInv, GraphStepMarks

LEMMA ReachStore ==
  ASSUME ReachInv, NEW t \in Threads, StoreCertificate(t)
  PROVE  ReachInv'
<1> DEFINE a == call[t].batch
           c == [call[t] EXCEPT !.pc = "link"]
<1>1. /\ CallKept(call[t]) /\ a \in Graph!Present /\ call[t].pc = "store"
      /\ UNCHANGED graphVars
  BY DEF ReachInv, CertifierInv, CallsKept, CallReaches, StoreCertificate, At
<1>2. DOMAIN certified' = DOMAIN certified \cup {a} /\ call' = [call EXCEPT ![t] = c]
  BY DEF StoreCertificate, Goto
<1>3. c.pc = "link" /\ c.batch = a
  BY <1>1 DEF CallKept
<1> HIDE DEF a, c
<1>4. call'[t] = c /\ \A u \in Threads \ {t} : call'[u] = call[u]
  BY <1>2 DEF ReachInv, CertifierInv, CallsKept
<1>5. Graph!Present' = Graph!Present /\ GP!GraphInv'
  BY <1>1, GraphUnchanged DEF ReachInv, GraphStepMarks, Graph!Present, graphVars
<1>6. \A u \in Threads : CallReaches(call[u])'
  BY <1>1, <1>3, <1>4, <1>5 DEF ReachInv, CallReaches
<1>7. ASSUME NEW b \in DOMAIN certified'
      PROVE  vertices'[b].certified \/ \E u \in Threads : call'[u].pc = "link" /\ call'[u].batch = b
  <2>1. CASE b = a
    BY <1>3, <1>4, <2>1
  <2>2. CASE b # a
    <3>1. vertices[b].certified \/ \E u \in Threads : call[u].pc = "link" /\ call[u].batch = b
      BY <1>2, <2>2 DEF ReachInv, CertificatesReachGraph, At
    <3>2. \A u \in Threads : call[u].pc = "link" => call'[u] = call[u]
      BY <1>1, <1>4
    <3> QED
      BY <1>1, <3>1, <3>2 DEF graphVars
  <2> QED
    BY <2>1, <2>2
<1> QED
  BY <1>1, <1>2, <1>5, <1>6, <1>7, StoreKept DEF ReachInv, CertificatesReachGraph, At

LEMMA ReachLink ==
  ASSUME ReachInv, NEW t \in Threads, LinkCertificate(t)
  PROVE  ReachInv'
<1> DEFINE a == call[t].batch
           c == [call[t] EXCEPT !.pc = "unpend"]
<1>1. /\ CallKept(call[t]) /\ a \in Graph!Present /\ a \in Batches /\ call[t].pc = "link"
      /\ UNCHANGED certVars
  BY DEF ReachInv, CertifierInv, CallsKept, CallKept, CallReaches, LinkCertificate, At
<1>2. Graph!SetCertificate(a) /\ Goto(t, "unpend")
  BY <1>1 DEF LinkCertificate, Graph!ContainsBatch
<1>3. CertifierInv'
  BY <1>1, <1>2, GotoKept DEF ReachInv, certVars
<1>4. /\ GP!GraphInv' /\ Graph!Present' = Graph!Present /\ vertices'[a].certified
      /\ \A x \in Graph!Present \ {a} : vertices'[x] = vertices[x]
  BY <1>1, <1>2, GraphMarked DEF ReachInv, GraphStepMarks
<1>5. call' = [call EXCEPT ![t] = c] /\ c.batch = a
  BY <1>1, <1>2 DEF Goto, CallKept
<1> HIDE DEF a, c
<1>6. call'[t] = c /\ \A u \in Threads \ {t} : call'[u] = call[u]
  BY <1>5 DEF ReachInv, CertifierInv, CallsKept
<1>7. \A u \in Threads : CallReaches(call[u])'
  BY <1>1, <1>4, <1>5, <1>6 DEF ReachInv, CallReaches
<1>8. ASSUME NEW b \in DOMAIN certified'
      PROVE  vertices'[b].certified \/ \E u \in Threads : call'[u].pc = "link" /\ call'[u].batch = b
  <2>1. CASE b = a
    BY <1>4, <2>1
  <2>2. CASE b # a
    <3>1. /\ b \in Graph!Present
          /\ vertices[b].certified \/ \E u \in Threads : call[u].pc = "link" /\ call[u].batch = b
      BY <1>1 DEF ReachInv, CertificatesReachGraph, At, certVars
    <3>2. \A u \in Threads : call[u].batch = b => call'[u] = call[u]
      BY <1>6, <2>2 DEF a
    <3> QED
      BY <1>4, <2>2, <3>1, <3>2
  <2> QED
    BY <2>1, <2>2
<1> QED
  BY <1>1, <1>3, <1>4, <1>7, <1>8 DEF ReachInv, CertificatesReachGraph, At, certVars

LEMMA ReachNextInv == ReachInv /\ [Steady]_vars => ReachInv'
<1> SUFFICES ASSUME ReachInv, [Steady]_vars PROVE ReachInv'
  OBVIOUS
<1>0. CertifierInv /\ GP!GraphInv /\ CertifierInv'
  BY CertifierNextInv DEF ReachInv, Next
<1>1. CASE UNCHANGED vars
  <2>1. UNCHANGED <<graphVars, signatures, certified, call>>
    BY <1>1 DEF vars, certVars
  <2>2. GraphStepMarks({}) /\ UNCHANGED <<vertices, Graph!Present>>
    BY <1>0, <2>1, GraphUnchanged DEF graphVars, Graph!Present
  <2> QED
    BY <2>1, <2>2, ReachGraphStep
<1>2. ASSUME NEW t \in Threads, NEW b \in Batches, NEW v \in Validators, Call(t, b, v)
      PROVE  ReachInv'
  <2>1. UNCHANGED <<graphVars, signatures, certified>> /\ call[t].pc = "idle"
    BY <1>2 DEF Call, certVars, At
  <2>2. CASE UNCHANGED call
    <3>1. GraphStepMarks({}) /\ UNCHANGED <<vertices, Graph!Present>>
      BY <1>0, <2>1, GraphUnchanged DEF graphVars, Graph!Present
    <3> QED
      BY <2>1, <2>2, <3>1, ReachGraphStep
  <2>3. CASE call' # call
    <3> DEFINE c == [pc |-> "certified?", batch |-> b, validator |-> v, certificate |-> NoCertificate]
    <3>1. call' = [call EXCEPT ![t] = c] /\ b \in Graph!Present
      BY <1>2, <2>3 DEF Call, Graph!ContainsBatch
    <3>2. CallReaches(c)
      BY <3>1 DEF CallReaches
    <3> HIDE DEF c
    <3> QED
      BY <1>0, <2>1, <3>1, <3>2, ReachCallStep
  <2> QED
    BY <2>2, <2>3
<1>3. ASSUME NEW t \in Threads, NEW pc \in {"validator?", "push", "tally"}, call[t].pc # "idle",
             call[t].pc # "link", UNCHANGED <<graphVars, certified>>, Goto(t, pc) \/ Return(t)
      PROVE  ReachInv'
  <2> DEFINE c == [call[t] EXCEPT !.pc = pc]
  <2>1. CallReaches(c) /\ CallReaches(Idle)
    BY <1>3 DEF ReachInv, CertifierInv, CallsKept, CallKept, CallReaches, Idle
  <2>2. call' = [call EXCEPT ![t] = c] \/ call' = [call EXCEPT ![t] = Idle]
    BY <1>3 DEF Goto, Return
  <2> HIDE DEF c
  <2> QED
    BY <1>0, <1>3, <2>1, <2>2, ReachCallStep
<1>4. ASSUME NEW t \in Threads, Tally(t)
      PROVE  ReachInv'
  <2> DEFINE list == signatures[call[t].batch]
             weight == StakeWeight(list)
             certificate == [signers |-> list, weight |-> weight, total |-> TotalStake]
             c == [call[t] EXCEPT !.pc = "store", !.certificate = certificate]
  <2>1. call[t].pc = "tally" /\ UNCHANGED <<graphVars, certified>>
    BY <1>4 DEF Tally, At, certVars
  <2>2. call' = [call EXCEPT ![t] = c] \/ call' = [call EXCEPT ![t] = Idle]
    BY <1>4 DEF Tally, Return
  <2>3. CallReaches(c) /\ CallReaches(Idle)
    BY <2>1 DEF ReachInv, CertifierInv, CallsKept, CallKept, CallReaches, Idle
  <2> HIDE DEF c
  <2> QED
    BY <1>0, <2>1, <2>2, <2>3, ReachCallStep
<1>5. ASSUME NEW t \in Threads, Step(t)
      PROVE  ReachInv'
  <2>1. CASE CheckCertified(t)
    BY <1>3, <2>1 DEF CheckCertified, At, certVars
  <2>2. CASE CheckValidator(t)
    BY <1>3, <2>2 DEF CheckValidator, At, certVars
  <2>3. CASE Push(t)
    BY <1>3, <2>3 DEF Push, At
  <2> QED
    BY <1>4, <1>5, <2>1, <2>2, <2>3, ReachStore, ReachLink DEF Step
<1>6. ASSUME NEW b \in Batches, InsertBatch(b)
      PROVE  ReachInv'
  BY <1>0, <1>6, GraphInsertion, ReachGraphStep DEF InsertBatch, certVars
<1>7. ASSUME NEW b \in Batches, AuthorBatch(b)
      PROVE  ReachInv'
  BY <1>0, <1>7, GraphAuthored, ReachGraphStep DEF AuthorBatch, certVars, Graph!Present
<1> QED
  BY <1>1, <1>2, <1>5, <1>6, <1>7 DEF Steady

(* While the graph only grows, a stored certificate is in the graph unless  *)
(* a call is about to put it there, however often signatures come again.    *)
THEOREM CertificatesReach == SteadySpec => []CertificatesReachGraph
<1>1. ReachInv /\ [Steady]_vars => ReachInv'
  BY ReachNextInv
<1>2. ReachInv => CertificatesReachGraph
  BY DEF ReachInv
<1> QED
  BY <1>1, <1>2, ReachInitInv, PTL DEF SteadySpec
=============================================================================
