---------------------------- MODULE StakeProofs ------------------------------
(***************************************************************************)
(* Proofs about the stake: what validators deposit and withdraw, the set   *)
(* of validators that votes with it, the fees that it is rewarded with,    *)
(* the object that owns all three, and what delegators put into the pools. *)
(***************************************************************************)
EXTENDS Services, Sums, SequenceTheorems, TLAPS

(***************************************************************************)
(* The walk over a list of requests.  Chosen is a recursive function on    *)
(* the sets of indices that are still to be looked at; as for sums, it has *)
(* to be shown that there is such a function.                              *)
(***************************************************************************)
Walk(it, list, flag, pick, S) ==
  it = [s \in SUBSET S |->
          IF s = {} THEN << >>
          ELSE IF list[pick[s]].unbonded = flag THEN Append(it[s \ {pick[s]}], list[pick[s]])
               ELSE it[s \ {pick[s]}]]

(* Induction along the order in which the elements are taken.               *)
LEMMA PickInduction ==
  ASSUME NEW S, IsFiniteSet(S), NEW pick, Picks(pick, S), NEW F, {} \in F,
         \A s \in SUBSET S : s # {} /\ s \ {pick[s]} \in F => s \in F
  PROVE  \A s \in SUBSET S : s \in F
<1> DEFINE G == {s \in SUBSET S : s \notin F}
<1>1. SUFFICES ASSUME G # {} PROVE FALSE
  OBVIOUS
<1>2. PICK s \in G : \A u \in G : u \subseteq s => u = s
  <2>1. G \in SUBSET (SUBSET S)
    OBVIOUS
  <2> HIDE DEF G
  <2> QED
    BY <1>1, <2>1, MinimalSubset
<1>3. s # {} /\ pick[s] \in s
  BY DEF Picks
<1>4. s \ {pick[s]} \in SUBSET S /\ s \ {pick[s]} \subseteq s /\ s \ {pick[s]} # s
  BY <1>3
<1>5. s \ {pick[s]} \in F
  BY <1>2, <1>4
<1> QED
  BY <1>3, <1>5

LEMMA WalkUnique ==
  ASSUME NEW S, IsFiniteSet(S), NEW list, NEW flag, NEW pick, Picks(pick, S), NEW T \in SUBSET S,
         NEW a, Walk(a, list, flag, pick, S), NEW b, Walk(b, list, flag, pick, T)
  PROVE  \A s \in SUBSET T : a[s] = b[s]
<1> DEFINE F == {s \in SUBSET T : a[s] = b[s]}
<1>1. {} \in F
  BY DEF Walk
<1>2. ASSUME NEW s \in SUBSET T, s # {}, s \ {pick[s]} \in F
      PROVE  s \in F
  <2>1. a[s] = IF list[pick[s]].unbonded = flag THEN Append(a[s \ {pick[s]}], list[pick[s]])
               ELSE a[s \ {pick[s]}]
    BY <1>2 DEF Walk
  <2>2. b[s] = IF list[pick[s]].unbonded = flag THEN Append(b[s \ {pick[s]}], list[pick[s]])
               ELSE b[s \ {pick[s]}]
    BY <1>2 DEF Walk
  <2> QED
    BY <1>2, <2>1, <2>2
<1>3. IsFiniteSet(T) /\ Picks(pick, T)
  BY FS_Subset DEF Picks
<1>4. \A s \in SUBSET T : s \in F
  <2> HIDE DEF F
  <2> QED
    BY <1>1, <1>2, <1>3, PickInduction
<1> QED
  BY <1>4

LEMMA WalkExists ==
  ASSUME NEW S, IsFiniteSet(S), NEW list, NEW flag, NEW pick, Picks(pick, S)
  PROVE  \E it : Walk(it, list, flag, pick, S)
<1> DEFINE F == {T \in SUBSET S : ~\E it : Walk(it, list, flag, pick, T)}
<1>1. SUFFICES ASSUME F # {} PROVE FALSE
  OBVIOUS
<1>2. PICK T \in F : \A U \in F : U \subseteq T => U = T
  <2>1. F \in SUBSET (SUBSET S)
    OBVIOUS
  <2> HIDE DEF F
  <2> QED
    BY <1>1, <2>1, MinimalSubset
<1> DEFINE below(s) == CHOOSE it : Walk(it, list, flag, pick, s)
<1>3. \A s \in SUBSET T : s # T => Walk(below(s), list, flag, pick, s)
  BY <1>2
<1> DEFINE value(s) ==
             IF s = {} THEN << >>
             ELSE IF list[pick[s]].unbonded = flag
                  THEN Append(below(s \ {pick[s]})[s \ {pick[s]}], list[pick[s]])
                  ELSE below(s \ {pick[s]})[s \ {pick[s]}]
           it == [s \in SUBSET T |-> value(s)]
<1>4. ASSUME NEW s \in SUBSET T, s # {}
      PROVE  it[s \ {pick[s]}] = below(s \ {pick[s]})[s \ {pick[s]}]
  <2> DEFINE r == s \ {pick[s]}
  <2>1. pick[s] \in s /\ r \in SUBSET T /\ r # T
    BY <1>4 DEF Picks
  <2>2. Walk(below(r), list, flag, pick, r)
    BY <1>3, <2>1
  <2>3. below(r)[r] = IF r = {} THEN << >>
                      ELSE IF list[pick[r]].unbonded = flag
                           THEN Append(below(r)[r \ {pick[r]}], list[pick[r]])
                           ELSE below(r)[r \ {pick[r]}]
    <3> HIDE DEF below, r
    <3> QED
      BY <2>2 DEF Walk
  <2>4. ASSUME r # {} PROVE below(r)[r \ {pick[r]}] = below(r \ {pick[r]})[r \ {pick[r]}]
    <3> DEFINE q == r \ {pick[r]}
    <3>1. pick[r] \in r /\ q \in SUBSET T /\ q # T /\ q \in SUBSET r
      BY <2>1, <2>4 DEF Picks
    <3>2. Walk(below(q), list, flag, pick, q)
      BY <1>3, <3>1
    <3>3. IsFiniteSet(r) /\ Picks(pick, r)
      BY <1>2, <2>1, FS_Subset DEF Picks
    <3> HIDE DEF below, q, r
    <3>4. below(r)[q] = below(q)[q]
      BY <2>2, <3>1, <3>2, <3>3, WalkUnique
    <3> QED
      BY <3>4 DEF q
  <2>5. it[r] = value(r)
    BY <2>1
  <2> HIDE DEF below, it
  <2> QED
    BY <2>3, <2>4, <2>5
<1>5. Walk(it, list, flag, pick, T)
  <2> HIDE DEF below
  <2> QED
    BY <1>4 DEF Walk
<1> HIDE DEF it
<1> QED
  BY <1>2, <1>5

(* Chosen is the result of such a walk, from the last request back.         *)
LEMMA ChosenIsWalk ==
  ASSUME NEW n \in Nat, NEW list, DOMAIN list = 1..n
  PROVE  \E pick :
           /\ Picks(pick, 1..n)
           /\ \A flag : \E it : Walk(it, list, flag, pick, 1..n) /\ Chosen(list, flag) = it[1..n]
<1>i. PICK I : I = 1..n
  OBVIOUS
<1>1. IsFiniteSet(I) /\ I \subseteq Int
  BY <1>i, FS_Interval
<1> DEFINE pick == [s \in SUBSET I |-> Max(s)]
<1>2. Picks(pick, I)
  <2> SUFFICES ASSUME NEW s \in SUBSET I, s # {} PROVE Max(s) \in s
    BY DEF Picks
  <2>1. IsFiniteSet(s)
    BY <1>1, FS_Subset
  <2>2. s \in SUBSET Int
    BY <1>1
  <2> QED
    BY <2>1, <2>2, MaxElement
<1>3. ASSUME NEW flag
      PROVE  \E it : Walk(it, list, flag, pick, I) /\ Chosen(list, flag) = it[I]
  <2> DEFINE body(it) == [s \in SUBSET I |->
                            IF s = {} THEN << >>
                            ELSE LET i == Max(s)
                                 IN  IF list[i].unbonded = flag THEN Append(it[s \ {i}], list[i])
                                     ELSE it[s \ {i}]]
             iter == CHOOSE it : it = body(it)
  <2>1. Chosen(list, flag) = iter[I]
    BY <1>i DEF Chosen, FoldLeft, MapThenFoldSet
  <2>2. \A it : Walk(it, list, flag, pick, I) <=> it = body(it)
    BY DEF Walk
  <2>3. PICK a : Walk(a, list, flag, pick, I)
    <3> HIDE DEF pick
    <3> QED
      BY <1>1, <1>2, WalkExists
  <2>4. iter = body(iter)
    <3>1. a = body(a)
      BY <2>2, <2>3
    <3> HIDE DEF body
    <3> QED
      BY <3>1
  <2>5. Walk(iter, list, flag, pick, I)
    <3> HIDE DEF iter, body, pick
    <3> QED
      BY <2>2, <2>4
  <2> HIDE DEF iter, pick
  <2> QED
    BY <2>1, <2>5
<1> HIDE DEF pick
<1> QED
  BY <1>2, <1>3, <1>i

(* Each request is either due or running: the two lists add up to the       *)
(* whole, whatever is added up.                                             *)
LEMMA RequestsSplit ==
  ASSUME NEW S, NEW list \in Seq(S), \A r \in S : r.unbonded \in BOOLEAN, NEW g, IntOn(g, S)
  PROVE  /\ Due(list) \in Seq(S) /\ Running(list) \in Seq(S)
         /\ SeqTotal(g, Due(list)) \in Int /\ SeqTotal(g, Running(list)) \in Int
         /\ SeqTotal(g, Due(list)) + SeqTotal(g, Running(list)) = SeqTotal(g, list)
<1>n. PICK n \in Nat : n = Len(list)
  OBVIOUS
<1>i. PICK I : I = 1..n
  OBVIOUS
<1>1. DOMAIN list = I /\ \A i \in I : list[i] \in S
  BY <1>n, <1>i
<1>2. PICK pick, a, b : /\ Picks(pick, I)
                        /\ Walk(a, list, TRUE, pick, I) /\ Due(list) = a[I]
                        /\ Walk(b, list, FALSE, pick, I) /\ Running(list) = b[I]
  <2>1. PICK pick : /\ Picks(pick, I)
                    /\ \A flag : \E it : Walk(it, list, flag, pick, I) /\ Chosen(list, flag) = it[I]
    BY <1>i, <1>1, ChosenIsWalk
  <2>2. PICK a : Walk(a, list, TRUE, pick, I) /\ Chosen(list, TRUE) = a[I]
    BY <2>1
  <2>3. PICK b : Walk(b, list, FALSE, pick, I) /\ Chosen(list, FALSE) = b[I]
    BY <2>1
  <2> QED
    BY <2>1, <2>2, <2>3 DEF Due, Running
<1>3. IsFiniteSet(I)
  BY <1>i, FS_Interval
<1>4. PICK h : /\ IntOn(h, I) /\ SeqTotal(g, list) = Total(h, I)
               /\ \A i \in I : h[i] = g[list[i]]
  <2>1. IntOn(Along(g, list), I) /\ SeqTotal(g, list) = Total(Along(g, list), I)
    BY <1>n, <1>i, SeqTotalIsTotal
  <2>2. \A i \in I : Along(g, list)[i] = g[list[i]]
    BY <1>n, <1>i DEF Along
  <2> QED
    BY <2>1, <2>2
<1> DEFINE F == {s \in SUBSET I : /\ a[s] \in Seq(S) /\ b[s] \in Seq(S)
                                  /\ SeqTotal(g, a[s]) \in Int /\ SeqTotal(g, b[s]) \in Int
                                  /\ SeqTotal(g, a[s]) + SeqTotal(g, b[s]) = Total(h, s)}
<1>5. {} \in F
  <2>1. a[{}] = << >> /\ b[{}] = << >>
    BY <1>2 DEF Walk
  <2>2. << >> \in Seq(S)
    OBVIOUS
  <2>3. PICK z : z = << >>
    OBVIOUS
  <2>4. SeqTotal(g, z) = 0
    BY <2>3, SeqTotalEmpty
  <2>5. Total(h, {}) = 0
    BY TotalEmpty
  <2>6. a[{}] = z /\ b[{}] = z /\ z \in Seq(S)
    BY <2>1, <2>2, <2>3
  <2>7. SeqTotal(g, a[{}]) = 0 /\ SeqTotal(g, b[{}]) = 0
    BY <2>4, <2>6
  <2>8. SeqTotal(g, a[{}]) + SeqTotal(g, b[{}]) = Total(h, {})
    BY <2>5, <2>7
  <2> QED
    BY <2>6, <2>7, <2>8
<1>6. ASSUME NEW s \in SUBSET I, s # {}, s \ {pick[s]} \in F
      PROVE  s \in F
  <2>1. pick[s] \in s /\ IsFiniteSet(s)
    BY <1>2, <1>3, <1>6, FS_Subset DEF Picks
  <2>2. PICK i, u : i = pick[s] /\ u = s \ {i}
    OBVIOUS
  <2>3. PICK r \in S, w \in Int : r = list[i] /\ w = g[r] /\ w = h[i] /\ r.unbonded \in BOOLEAN
    BY <1>1, <1>4, <2>1, <2>2 DEF IntOn
  <2>4. Total(h, s) = w + Total(h, u)
    <3>1. IntOn(h, s)
      BY <1>4 DEF IntOn
    <3> QED
      BY <2>1, <2>2, <2>3, <3>1, TotalElement
  <2>5. PICK p \in Seq(S), q \in Seq(S) : p = a[u] /\ q = b[u]
    BY <1>6, <2>2
  <2>6. /\ a[s] = IF r.unbonded = TRUE THEN Append(p, r) ELSE p
        /\ b[s] = IF r.unbonded = FALSE THEN Append(q, r) ELSE q
    BY <1>2, <1>6, <2>2, <2>3, <2>5 DEF Walk
  <2>7. PICK x \in Int, y \in Int : x = SeqTotal(g, p) /\ y = SeqTotal(g, q) /\ x + y = Total(h, u)
    BY <1>6, <2>2, <2>5
  <2>8. Append(p, r) \in Seq(S) /\ Append(q, r) \in Seq(S)
    OBVIOUS
  <2>9. SeqTotal(g, Append(p, r)) = x + w /\ SeqTotal(g, Append(q, r)) = y + w
    <3>1. SeqTotal(g, Append(p, r)) = SeqTotal(g, p) + g[r]
      BY SeqTotalAppend
    <3>2. SeqTotal(g, Append(q, r)) = SeqTotal(g, q) + g[r]
      BY SeqTotalAppend
    <3> QED
      BY <2>3, <2>7, <3>1, <3>2
  <2>10. /\ x + w \in Int /\ y + w \in Int
         /\ (x + w) + y = w + (x + y) /\ x + (y + w) = w + (x + y)
    OBVIOUS
  <2>11. CASE r.unbonded = TRUE
    <3>1. a[s] = Append(p, r) /\ b[s] = q
      BY <2>6, <2>11
    <3>2. SeqTotal(g, a[s]) = x + w /\ SeqTotal(g, b[s]) = y
      BY <2>7, <2>9, <3>1
    <3>3. (x + w) + y = Total(h, s)
      BY <2>4, <2>7, <2>10
    <3> QED
      BY <2>8, <2>10, <3>1, <3>2, <3>3
  <2>12. CASE r.unbonded = FALSE
    <3>1. a[s] = p /\ b[s] = Append(q, r)
      BY <2>6, <2>12
    <3>2. SeqTotal(g, a[s]) = x /\ SeqTotal(g, b[s]) = y + w
      BY <2>7, <2>9, <3>1
    <3>3. x + (y + w) = Total(h, s)
      BY <2>4, <2>7, <2>10
    <3> QED
      BY <2>8, <2>10, <3>1, <3>2, <3>3
  <2> QED
    BY <2>3, <2>11, <2>12
<1>7. I \in F
  <2>1. \A s \in SUBSET I : s # {} /\ s \ {pick[s]} \in F => s \in F
    BY <1>6
  <2> HIDE DEF F
  <2>2. \A s \in SUBSET I : s \in F
    BY <1>2, <1>3, <1>5, <2>1, PickInduction
  <2> QED
    BY <2>2
<1> QED
  BY <1>2, <1>4, <1>7

-----------------------------------------------------------------------------
(***************************************************************************)
(* What a list of requests releases.                                       *)
(***************************************************************************)
AmountOf == [r \in Request |-> r.amount]

LEMMA AmountIsSum == ASSUME NEW list \in Seq(Request) PROVE Amount(list) = SeqTotal(AmountOf, list)
<1> DEFINE body(it) == [s \in SUBSET (DOMAIN list) |->
                          IF s = {} THEN 0
                          ELSE LET x == Max(s) IN it[s \ {x}] + list[x].amount]
           body2(it) == [s \in SUBSET (DOMAIN list) |->
                           IF s = {} THEN 0
                           ELSE LET x == Max(s) IN it[s \ {x}] + AmountOf[list[x]]]
<1>1. Amount(list) = (CHOOSE it : it = body(it))[DOMAIN list]
  BY DEF Amount, FoldLeft, MapThenFoldSet
<1>2. SeqTotal(AmountOf, list) = (CHOOSE it : it = body2(it))[DOMAIN list]
  BY DEF SeqTotal, FoldLeft, MapThenFoldSet
<1>3. \A it : body(it) = body2(it)
  <2> SUFFICES ASSUME NEW it, NEW s \in SUBSET (DOMAIN list), s # {}
               PROVE  it[s \ {Max(s)}] + list[Max(s)].amount
                        = it[s \ {Max(s)}] + AmountOf[list[Max(s)]]
    OBVIOUS
  <2>1. Max(s) \in s
    <3>1. s \in SUBSET Int /\ IsFiniteSet(DOMAIN list)
      BY FS_Interval
    <3>2. IsFiniteSet(s)
      BY <3>1, FS_Subset
    <3> QED
      BY <3>1, <3>2, MaxElement
  <2>2. list[Max(s)] \in Request
    BY <2>1
  <2> QED
    BY <2>2 DEF AmountOf
<1> HIDE DEF body, body2
<1> QED
  BY <1>1, <1>2, <1>3

LEMMA AmountFacts ==
  /\ Amount(<< >>) = 0
  /\ \A list \in Seq(Request) :
       /\ Amount(list) \in Nat
       /\ Due(list) \in Seq(Request) /\ Running(list) \in Seq(Request)
       /\ Amount(Due(list)) \in Nat /\ Amount(Running(list)) \in Nat
       /\ Amount(list) = Amount(Due(list)) + Amount(Running(list))
  /\ \A list \in Seq(Request), r \in Request :
       Append(list, r) \in Seq(Request) /\ Amount(Append(list, r)) = Amount(list) + r.amount
<1>1. /\ NatOn(AmountOf, Request) /\ IntOn(AmountOf, Request)
      /\ \A r \in Request : r.unbonded \in BOOLEAN /\ AmountOf[r] = r.amount
  BY DEF NatOn, IntOn, AmountOf, Request
<1>2. Amount(<< >>) = 0
  <2>0. << >> \in Seq(Request)
    OBVIOUS
  <2>1. PICK empty \in Seq(Request) : empty = << >>
    BY <2>0
  <2>2. Amount(empty) = SeqTotal(AmountOf, empty) /\ SeqTotal(AmountOf, empty) = 0
    BY <2>1, AmountIsSum, SeqTotalEmpty
  <2> QED
    BY <2>1, <2>2
<1>3. ASSUME NEW list \in Seq(Request)
      PROVE  /\ Amount(list) \in Nat
             /\ Due(list) \in Seq(Request) /\ Running(list) \in Seq(Request)
             /\ Amount(Due(list)) \in Nat /\ Amount(Running(list)) \in Nat
             /\ Amount(list) = Amount(Due(list)) + Amount(Running(list))
  <2>1. /\ Due(list) \in Seq(Request) /\ Running(list) \in Seq(Request)
        /\ SeqTotal(AmountOf, Due(list)) + SeqTotal(AmountOf, Running(list))
             = SeqTotal(AmountOf, list)
    BY <1>1, RequestsSplit
  <2>2. \A l \in Seq(Request) : Amount(l) = SeqTotal(AmountOf, l) /\ Amount(l) \in Nat
    BY <1>1, AmountIsSum, SeqTotalNat
  <2> QED
    BY <2>1, <2>2
<1>4. ASSUME NEW list \in Seq(Request), NEW r \in Request
      PROVE  Append(list, r) \in Seq(Request) /\ Amount(Append(list, r)) = Amount(list) + r.amount
  <2>0. Append(list, r) \in Seq(Request)
    OBVIOUS
  <2>1. PICK longer \in Seq(Request) : longer = Append(list, r)
    BY <2>0
  <2>2. SeqTotal(AmountOf, Append(list, r)) = SeqTotal(AmountOf, list) + AmountOf[r]
    BY <1>1, SeqTotalAppend
  <2>3. Amount(longer) = SeqTotal(AmountOf, longer) /\ Amount(list) = SeqTotal(AmountOf, list)
    BY AmountIsSum
  <2> QED
    BY <1>1, <2>1, <2>2, <2>3
<1> QED
  BY <1>2, <1>3, <1>4

(* That the period of a request ends changes no amount.                     *)
LEMMA AmountPeriodEnds ==
  ASSUME NEW list \in Seq(Request), NEW i \in DOMAIN list
  PROVE  /\ [list EXCEPT ![i].unbonded = TRUE] \in Seq(Request)
         /\ Amount([list EXCEPT ![i].unbonded = TRUE]) = Amount(list)
<1> DEFINE other == [list EXCEPT ![i].unbonded = TRUE]
<1>1. [list[i] EXCEPT !.unbonded = TRUE] \in Request
  <2>1. list[i] \in Request
    OBVIOUS
  <2> QED
    BY <2>1 DEF Request
<1>2. other = [list EXCEPT ![i] = [list[i] EXCEPT !.unbonded = TRUE]]
  OBVIOUS
<1>3. other \in Seq(Request) /\ Len(other) = Len(list)
  BY <1>1, <1>2
<1>4. \A j \in 1..Len(list) : AmountOf[other[j]] = AmountOf[list[j]]
  <2> SUFFICES ASSUME NEW j \in 1..Len(list) PROVE AmountOf[other[j]] = AmountOf[list[j]]
    OBVIOUS
  <2>1. CASE j = i
    <3>1. other[j] = [list[i] EXCEPT !.unbonded = TRUE] /\ list[j] \in Request
      BY <2>1
    <3>2. other[j] \in Request /\ other[j].amount = list[j].amount
      BY <1>1, <2>1, <3>1 DEF Request
    <3> QED
      BY <3>1, <3>2 DEF AmountOf
  <2>2. CASE j # i
    BY <2>2
  <2> QED
    BY <2>1, <2>2
<1> HIDE DEF other
<1>5. IntOn(AmountOf, Request)
  BY DEF IntOn, AmountOf, Request
<1>6. SeqTotal(AmountOf, other) = SeqTotal(AmountOf, list)
  BY <1>3, <1>4, <1>5, SeqTotalAlike
<1>7. Amount(other) = Amount(list)
  BY <1>3, <1>6, AmountIsSum
<1> QED
  BY <1>3, <1>7 DEF other

(* Tiers: every stake has one, and none is Bronze.                          *)
LEMMA TierTyped == (\A stake \in Nat : TierOf(stake) \in Tiers) /\ TierOf(0) = 1 /\ 1 \in Tiers
<1>0. PICK n \in Nat : n = Len(TierFloors) /\ n >= 1 /\ Tiers = 1..n
  BY StakingAssumption DEF Tiers
<1>1. 1 \in Tiers /\ \A tier \in Tiers : TierFloors[tier] \in Nat /\ TierFloors[tier] > 0
  BY <1>0, StakingAssumption DEF Tiers
<1>2. ASSUME NEW stake \in Nat
      PROVE  \E tier \in Tiers :
               /\ stake >= TierFloors[tier] \/ tier = 1
               /\ \A higher \in Tiers : higher > tier => stake < TierFloors[higher]
  <2> DEFINE H == {tier \in Tiers : stake >= TierFloors[tier] \/ tier = 1}
  <2>1. PICK G : G = H
    OBVIOUS
  <2>2. IsFiniteSet(G) /\ G \in SUBSET Int /\ G # {}
    <3>1. IsFiniteSet(Tiers)
      BY <1>0, FS_Interval
    <3>2. G \subseteq Tiers /\ 1 \in G
      BY <1>1, <2>1
    <3>3. IsFiniteSet(G)
      BY <3>1, <3>2, FS_Subset
    <3> QED
      BY <1>0, <3>2, <3>3
  <2>3. Max(G) \in G /\ \A y \in G : Max(G) >= y
    BY <2>2, MaxElement
  <2>4. PICK m : m = Max(G)
    OBVIOUS
  <2>5. m \in Tiers /\ m \in Int /\ (stake >= TierFloors[m] \/ m = 1)
    BY <1>0, <2>1, <2>3, <2>4
  <2>6. ASSUME NEW higher \in Tiers, higher > m
        PROVE  stake < TierFloors[higher]
    <3>1. higher \notin G /\ higher \in Int
      BY <1>0, <2>3, <2>4, <2>5, <2>6
    <3> QED
      BY <1>1, <2>1, <3>1
  <2> QED
    BY <2>5, <2>6
<1>3. \A stake \in Nat : TierOf(stake) \in Tiers
  BY <1>2 DEF TierOf
<1>4. TierOf(0) = 1
  <2>1. \A tier \in Tiers : ~(0 >= TierFloors[tier]) /\ 0 < TierFloors[tier]
    BY <1>1
  <2>2. \A tier \in Tiers :
          ((0 >= TierFloors[tier] \/ tier = 1)
             /\ \A higher \in Tiers : higher > tier => 0 < TierFloors[higher])
          <=> tier = 1
    BY <1>1, <2>1
  <2> QED
    BY <1>1, <2>2 DEF TierOf
<1> QED
  BY <1>1, <1>3, <1>4

-----------------------------------------------------------------------------
(***************************************************************************)
(* The staking manager.  Its properties are inductive together: the sums   *)
(* and the history of the tiers rest on what is true of every record.      *)
(***************************************************************************)
StakeRecordType ==
  [total : Nat, active : Nat, unbonding : Nat, tier : Tiers, requests : Seq(Request)]

Balanced(r) ==
  /\ r \in StakeRecordType
  /\ r.unbonding = Amount(r.requests)
  /\ r.total = r.active + r.unbonding

StakesOf(records) == [v \in DOMAIN records |-> records[v].total]

(* A history of tiers without a break, and the tier that it leads to.       *)
Unbroken(steps) == \A i \in DOMAIN steps : steps[i][1] = (IF i = 1 THEN 1 ELSE steps[i - 1][2])
TierAfter(steps) == IF steps = << >> THEN 1 ELSE Last(steps)[2]

RecordsSound ==
  /\ Staked \subseteq Validators
  /\ \A v \in Staked : Balanced(stakes[v]) /\ stakes[v].tier = TierOf(stakes[v].active)

TotalStakedSound == totalStaked = Total(StakesOf(stakes), Staked)

ChangesSound ==
  /\ tierChanges \in [Validators -> Seq(Tiers \X Tiers)]
  /\ \A v \in Validators :
       Unbroken(tierChanges[v]) /\ StakeRecord(v).tier = TierAfter(tierChanges[v])

StakeInv == RecordsSound /\ TotalStakedSound /\ ChangesSound

StakingAction ==
  \/ \E v \in Validators, amount \in Deposits : DepositStake(v, amount)
  \/ \E v \in Validators, amount \in Withdrawals : RequestUnstake(v, amount)
  \/ \E v \in Validators : PeriodEnds(v) \/ RemoveStake(v)
  \/ ProcessUnbonding

(* The record that a validator has, or begins with, is balanced.            *)
LEMMA RecordOf ==
  ASSUME RecordsSound, NEW v
  PROVE  /\ Balanced(StakeRecord(v)) /\ StakeRecord(v).tier = TierOf(StakeRecord(v).active)
         /\ v \notin Staked => /\ StakeRecord(v).total = 0 /\ StakeRecord(v).active = 0
                               /\ StakeRecord(v).tier = 1
         /\ v \in Staked => StakeRecord(v) = stakes[v]
<1>1. CASE v \in Staked
  BY <1>1 DEF RecordsSound, StakeRecord
<1>2. CASE v \notin Staked
  <2>1. << >> \in Seq(Request)
    OBVIOUS
  <2>2. PICK none \in Seq(Request) : none = << >> /\ Amount(none) = 0
    BY <2>1, AmountFacts
  <2>3. NoStake = [total |-> 0, active |-> 0, unbonding |-> 0, tier |-> 1, requests |-> none]
    BY <2>2 DEF NoStake
  <2>4. Balanced(NoStake)
    BY <2>2, <2>3, TierTyped DEF Balanced, StakeRecordType
  <2>5. /\ NoStake.tier = TierOf(NoStake.active) /\ NoStake.total = 0 /\ NoStake.active = 0
        /\ NoStake.tier = 1
    BY <2>3, TierTyped
  <2> QED
    BY <1>2, <2>4, <2>5 DEF StakeRecord
<1> QED
  BY <1>1, <1>2

(* The totals of the records are natural numbers.                           *)
LEMMA StakesFacts ==
  ASSUME RecordsSound
  PROVE  /\ IsFiniteSet(Staked) /\ NatOn(StakesOf(stakes), Staked) /\ IntOn(StakesOf(stakes), Staked)
         /\ \A v \in Staked : StakesOf(stakes)[v] = stakes[v].total
<1>1. IsFiniteSet(Staked)
  BY ValidatorsAssumption, FS_Subset DEF RecordsSound
<1>2. \A v \in Staked : StakesOf(stakes)[v] = stakes[v].total
  BY DEF StakesOf, Staked
<1>3. \A v \in Staked : stakes[v].total \in Nat
  BY DEF RecordsSound, Balanced, StakeRecordType
<1> QED
  BY <1>1, <1>2, <1>3 DEF NatOn, IntOn

(* A tier change continues the history.                                     *)
LEMMA StepAppended ==
  ASSUME NEW steps \in Seq(Tiers \X Tiers), Unbroken(steps), NEW tier \in Tiers
  PROVE  /\ Append(steps, <<TierAfter(steps), tier>>) \in Seq(Tiers \X Tiers)
         /\ Unbroken(Append(steps, <<TierAfter(steps), tier>>))
         /\ TierAfter(Append(steps, <<TierAfter(steps), tier>>)) = tier
<1>n. PICK n \in Nat : n = Len(steps)
  OBVIOUS
<1>1. TierAfter(steps) = (IF n = 0 THEN 1 ELSE steps[n][2]) /\ TierAfter(steps) \in Tiers
  <2>1. CASE n = 0
    <3>1. steps = << >>
      BY <1>n, <2>1, EmptySeq
    <3> QED
      BY <2>1, <3>1, TierTyped DEF TierAfter
  <2>2. CASE n # 0
    <3>1. steps # << >> /\ Last(steps) = steps[n] /\ n \in 1..Len(steps)
      BY <1>n, <2>2 DEF Last
    <3>2. steps[n] \in Tiers \X Tiers
      BY <3>1
    <3> QED
      BY <2>2, <3>1, <3>2 DEF TierAfter
  <2> QED
    BY <2>1, <2>2
<1>2. PICK step \in Tiers \X Tiers : step = <<TierAfter(steps), tier>>
  BY <1>1
<1>3. PICK longer : longer = Append(steps, step)
  OBVIOUS
<1>4. /\ longer \in Seq(Tiers \X Tiers) /\ Len(longer) = n + 1 /\ longer[n + 1] = step
      /\ \A i \in 1..n : longer[i] = steps[i]
  BY <1>n, <1>3
<1>5. Unbroken(longer)
  <2> SUFFICES ASSUME NEW i \in 1..(n + 1)
               PROVE  longer[i][1] = (IF i = 1 THEN 1 ELSE longer[i - 1][2])
    BY <1>4 DEF Unbroken
  <2>1. CASE i = n + 1
    <3>1. longer[i][1] = (IF n = 0 THEN 1 ELSE steps[n][2])
      BY <1>1, <1>2, <1>4, <2>1
    <3>2. n # 0 => longer[n] = steps[n]
      BY <1>4
    <3>3. (i = 1 <=> n = 0) /\ i - 1 = n
      BY <2>1
    <3> QED
      BY <3>1, <3>2, <3>3
  <2>2. CASE i \in 1..n
    <3>1. longer[i] = steps[i] /\ (i # 1 => i - 1 \in 1..n)
      BY <1>4, <2>2
    <3>2. steps[i][1] = (IF i = 1 THEN 1 ELSE steps[i - 1][2])
      <4>1. i \in DOMAIN steps
        BY <1>n, <2>2
      <4> QED
        BY <4>1 DEF Unbroken
    <3> QED
      BY <1>4, <3>1, <3>2
  <2> QED
    BY <2>1, <2>2
<1>6. TierAfter(longer) = tier
  <2>1. longer # << >> /\ Last(longer) = step
    BY <1>4 DEF Last
  <2> QED
    BY <1>2, <2>1 DEF TierAfter
<1> QED
  BY <1>2, <1>3, <1>4, <1>5, <1>6

(* How a deposit and a withdrawal change a record.                          *)
Deposited(old, amount) == [old EXCEPT !.total = @ + amount, !.active = @ + amount]
Requested(old, amount, longer) ==
  [old EXCEPT !.active = @ - amount, !.unbonding = @ + amount, !.requests = longer]

LEMMA DepositRecord ==
  ASSUME NEW old \in StakeRecordType, NEW amount \in Nat, NEW r, r = Deposited(old, amount)
  PROVE  /\ r \in StakeRecordType
         /\ r.total = old.total + amount /\ r.active = old.active + amount
         /\ r.unbonding = old.unbonding /\ r.requests = old.requests /\ r.tier = old.tier
<1> USE DEF StakeRecordType, Deposited
<1>1. r \in StakeRecordType
  <2>1. PICK t \in Nat, a \in Nat : t = old.total + amount /\ a = old.active + amount
    OBVIOUS
  <2>2. [old EXCEPT !.total = t, !.active = a] \in StakeRecordType
    OBVIOUS
  <2> QED
    BY <2>1, <2>2
<1>2. r.total = old.total + amount /\ r.active = old.active + amount
  OBVIOUS
<1>3. r.unbonding = old.unbonding
  OBVIOUS
<1>4. r.requests = old.requests
  OBVIOUS
<1>5. r.tier = old.tier
  OBVIOUS
<1> QED
  BY <1>1, <1>2, <1>3, <1>4, <1>5

LEMMA RequestRecord ==
  ASSUME NEW old \in StakeRecordType, NEW amount \in Nat, amount =< old.active,
         NEW longer \in Seq(Request), NEW r, r = Requested(old, amount, longer)
  PROVE  /\ r \in StakeRecordType
         /\ r.active = old.active - amount /\ r.unbonding = old.unbonding + amount
         /\ r.total = old.total /\ r.requests = longer /\ r.tier = old.tier
<1> USE DEF StakeRecordType, Requested
<1>1. old.active - amount \in Nat
  OBVIOUS
<1>2. r \in StakeRecordType
  <2>1. PICK a \in Nat, u \in Nat : a = old.active - amount /\ u = old.unbonding + amount
    BY <1>1
  <2>2. [old EXCEPT !.active = a, !.unbonding = u, !.requests = longer] \in StakeRecordType
    OBVIOUS
  <2> QED
    BY <2>1, <2>2
<1>3. r.active = old.active - amount /\ r.unbonding = old.unbonding + amount
  OBVIOUS
<1>4. r.total = old.total
  OBVIOUS
<1>5. r.requests = longer
  OBVIOUS
<1>6. r.tier = old.tier
  OBVIOUS
<1> QED
  BY <1>2, <1>3, <1>4, <1>5, <1>6

(* The sum of the stakes follows the record that is put back.               *)
Summed(records) == IsFiniteSet(DOMAIN records) /\ IntOn(StakesOf(records), DOMAIN records)

PutBack(records, v, r, others) ==
  /\ r.total \in Int
  /\ DOMAIN others = (DOMAIN records) \cup {v}
  /\ others[v] = r
  /\ \A x \in DOMAIN records : x # v => others[x] = records[x]

LEMMA SumPut ==
  ASSUME NEW records, Summed(records), NEW v, NEW r, NEW others, PutBack(records, v, r, others)
  PROVE  /\ v \in DOMAIN records =>
              Total(StakesOf(others), DOMAIN others)
                = Total(StakesOf(records), DOMAIN records) - records[v].total + r.total
         /\ v \notin DOMAIN records =>
              Total(StakesOf(others), DOMAIN others)
                = Total(StakesOf(records), DOMAIN records) + r.total
<1>1. PICK S, g, h : S = DOMAIN records /\ g = StakesOf(records) /\ h = StakesOf(others)
  OBVIOUS
<1>2. IsFiniteSet(S) /\ IntOn(g, S)
  BY <1>1 DEF Summed
<1>3. DOMAIN others = S \cup {v} /\ h[v] = r.total /\ \A x \in S : x # v => h[x] = g[x]
  BY <1>1 DEF StakesOf, PutBack
<1>4. h[v] \in Int /\ \A x \in S : x # v => h[x] = g[x]
  BY <1>3 DEF PutBack
<1>5. ASSUME v \in S PROVE Total(h, S \cup {v}) = Total(g, S) - g[v] + h[v]
  BY <1>2, <1>4, <1>5, TotalPut
<1>6. ASSUME v \notin S PROVE Total(h, S \cup {v}) = Total(g, S) + h[v]
  <2>1. IntOn(h, S \cup {v}) /\ \A x \in S : g[x] = h[x]
    BY <1>2, <1>4, <1>6 DEF IntOn
  <2>2. Total(h, S \cup {v}) = h[v] + Total(h, S)
    BY <1>2, <1>6, <2>1, TotalAdd
  <2>3. Total(g, S) = Total(h, S)
    BY <1>2, <2>1, TotalSame
  <2>4. Total(g, S) \in Int
    BY <1>2, TotalInt
  <2> QED
    BY <1>4, <2>2, <2>3, <2>4
<1>7. v \in S => g[v] = records[v].total
  BY <1>1 DEF StakesOf
<1> QED
  BY <1>1, <1>3, <1>5, <1>6, <1>7

(* Putting back a balanced record keeps the invariant, when the total moves *)
(* with it.                                                                 *)
LEMMA PutKeeps ==
  ASSUME StakeInv, NEW v \in Validators, NEW r, Balanced(r), r.tier = StakeRecord(v).tier,
         Put(v, r), totalStaked' = totalStaked - StakeRecord(v).total + r.total
  PROVE  StakeInv'
<1>0. RecordsSound /\ TotalStakedSound /\ ChangesSound
  BY DEF StakeInv
<1>1. PICK tier \in Tiers, rr \in StakeRecordType :
        /\ tier = TierOf(r.active) /\ rr = [r EXCEPT !.tier = tier]
        /\ Balanced(rr) /\ rr.tier = TierOf(rr.active) /\ rr.total = r.total /\ rr.tier = tier
  <2>1. TierOf(r.active) \in Tiers
    BY TierTyped DEF Balanced, StakeRecordType
  <2>2. PICK tier \in Tiers : tier = TierOf(r.active)
    BY <2>1
  <2>3. PICK rr : rr = [r EXCEPT !.tier = tier]
    OBVIOUS
  <2>4. /\ rr \in StakeRecordType /\ rr.total = r.total /\ rr.active = r.active
        /\ rr.unbonding = r.unbonding /\ rr.requests = r.requests /\ rr.tier = tier
    BY <2>3 DEF Balanced, StakeRecordType
  <2>5. Balanced(rr)
    BY <2>4 DEF Balanced
  <2> QED
    BY <2>2, <2>3, <2>4, <2>5
<1>2. /\ stakes' = [x \in Staked \cup {v} |-> IF x = v THEN rr ELSE stakes[x]]
      /\ tierChanges' = IF tier = r.tier THEN tierChanges
                        ELSE [tierChanges EXCEPT ![v] = Append(@, <<r.tier, tier>>)]
  BY <1>1 DEF Put
<1>3. /\ Staked' = Staked \cup {v} /\ stakes'[v] = rr
      /\ \A x \in Staked : x # v => stakes'[x] = stakes[x]
  BY <1>2 DEF Staked
<1>4. RecordsSound'
  <2>1. Staked' \subseteq Validators
    BY <1>0, <1>3 DEF RecordsSound
  <2>2. \A x \in Staked' : Balanced(stakes'[x]) /\ stakes'[x].tier = TierOf(stakes'[x].active)
    BY <1>0, <1>1, <1>3 DEF RecordsSound
  <2> QED
    BY <2>1, <2>2 DEF RecordsSound
<1>5. TotalStakedSound'
  <2>1. IsFiniteSet(Staked) /\ IntOn(StakesOf(stakes), Staked)
    BY <1>0, StakesFacts
  <2>2. rr.total = r.total /\ rr.total \in Int
    BY <1>1 DEF Balanced, StakeRecordType
  <2>a. /\ DOMAIN (stakes') = (DOMAIN stakes) \cup {v} /\ stakes'[v] = rr
        /\ \A x \in DOMAIN stakes : x # v => stakes'[x] = stakes[x]
    BY <1>3 DEF Staked
  <2>b. IsFiniteSet(DOMAIN stakes) /\ IntOn(StakesOf(stakes), DOMAIN stakes) /\ rr.total \in Int
    BY <2>1, <2>2 DEF Staked
  <2>3. /\ v \in Staked => Total(StakesOf(stakes'), Staked')
                            = Total(StakesOf(stakes), Staked) - stakes[v].total + rr.total
        /\ v \notin Staked => Total(StakesOf(stakes'), Staked')
                               = Total(StakesOf(stakes), Staked) + rr.total
    <3>1. Summed(stakes) /\ PutBack(stakes, v, rr, stakes')
      BY <2>a, <2>b DEF Summed, PutBack
    <3> QED
      BY <3>1, SumPut DEF Staked
  <2>4. /\ v \in Staked => StakeRecord(v).total = stakes[v].total
        /\ v \notin Staked => StakeRecord(v).total = 0
    BY <1>0, RecordOf
  <2>5. PICK sum \in Int : sum = Total(StakesOf(stakes), Staked) /\ totalStaked = sum
    BY <1>0, <2>1, TotalInt DEF TotalStakedSound
  <2>6. totalStaked' = Total(StakesOf(stakes'), Staked')
    <3>1. CASE v \in Staked
      BY <2>2, <2>3, <2>4, <2>5, <3>1
    <3>2. CASE v \notin Staked
      <4>1. totalStaked' = sum - 0 + rr.total
        BY <2>2, <2>4, <2>5, <3>2
      <4> QED
        BY <2>2, <2>3, <2>5, <3>2, <4>1
    <3> QED
      BY <3>1, <3>2
  <2> QED
    BY <2>6 DEF TotalStakedSound
<1>6. ChangesSound'
  <2>1. r.tier = TierAfter(tierChanges[v]) /\ Unbroken(tierChanges[v])
    BY <1>0 DEF ChangesSound
  <2>2. /\ Append(tierChanges[v], <<r.tier, tier>>) \in Seq(Tiers \X Tiers)
        /\ Unbroken(Append(tierChanges[v], <<r.tier, tier>>))
        /\ TierAfter(Append(tierChanges[v], <<r.tier, tier>>)) = tier
    <3>1. tierChanges[v] \in Seq(Tiers \X Tiers)
      BY <1>0 DEF ChangesSound
    <3> QED
      BY <2>1, <3>1, StepAppended
  <2>3. StakeRecord(v)' = rr /\ \A x \in Validators : x # v => StakeRecord(x)' = StakeRecord(x)
    BY <1>2, <1>3 DEF StakeRecord, Staked
  <2>4. PICK steps : steps = (IF tier = r.tier THEN tierChanges[v]
                              ELSE Append(tierChanges[v], <<r.tier, tier>>))
    OBVIOUS
  <2>5. steps \in Seq(Tiers \X Tiers) /\ Unbroken(steps) /\ TierAfter(steps) = tier
    BY <1>0, <2>1, <2>2, <2>4 DEF ChangesSound
  <2>6. /\ tierChanges' \in [Validators -> Seq(Tiers \X Tiers)] /\ tierChanges'[v] = steps
        /\ \A x \in Validators : x # v => tierChanges'[x] = tierChanges[x]
    BY <1>0, <1>2, <2>4, <2>5 DEF ChangesSound
  <2>7. \A x \in Validators :
          Unbroken(tierChanges'[x]) /\ StakeRecord(x)'.tier = TierAfter(tierChanges'[x])
    BY <1>0, <1>1, <2>3, <2>5, <2>6 DEF ChangesSound
  <2> QED
    BY <2>6, <2>7 DEF ChangesSound
<1> QED
  BY <1>4, <1>5, <1>6 DEF StakeInv

LEMMA DepositKeeps ==
  ASSUME StakeInv, NEW v \in Validators, NEW amount \in Deposits, DepositStake(v, amount)
  PROVE  StakeInv'
<1>1. amount \in Nat
  BY StakingAssumption
<1>2. Balanced(StakeRecord(v))
  BY RecordOf DEF StakeInv
<1>3. PICK old, r : old = StakeRecord(v) /\ r = Deposited(old, amount)
  OBVIOUS
<1>4. /\ r.total = old.total + amount /\ r.active = old.active + amount
      /\ r.unbonding = old.unbonding /\ r.requests = old.requests /\ r.tier = old.tier
      /\ r \in StakeRecordType
      /\ old.total \in Nat /\ old.active \in Nat /\ old.unbonding \in Nat
  <2>1. old \in StakeRecordType
    BY <1>2, <1>3 DEF Balanced
  <2>2. old.total \in Nat /\ old.active \in Nat /\ old.unbonding \in Nat
    BY <2>1 DEF StakeRecordType
  <2>3. /\ r \in StakeRecordType
        /\ r.total = old.total + amount /\ r.active = old.active + amount
        /\ r.unbonding = old.unbonding /\ r.requests = old.requests /\ r.tier = old.tier
    BY <1>1, <1>3, <2>1, DepositRecord
  <2> QED
    BY <2>2, <2>3
<1>5. Balanced(r)
  BY <1>1, <1>2, <1>3, <1>4 DEF Balanced
<1>6. totalStaked \in Int
  BY StakesFacts, TotalInt DEF StakeInv, TotalStakedSound
<1>7. totalStaked' = totalStaked - StakeRecord(v).total + r.total
  <2>1. totalStaked' = totalStaked + amount
    BY DEF DepositStake
  <2> QED
    BY <1>1, <1>3, <1>4, <1>6, <2>1
<1>8. Put(v, r)
  BY <1>3 DEF DepositStake, Deposited
<1> QED
  BY <1>3, <1>4, <1>5, <1>7, <1>8, PutKeeps

LEMMA RequestKeeps ==
  ASSUME StakeInv, NEW v \in Validators, NEW amount \in Withdrawals, RequestUnstake(v, amount)
  PROVE  StakeInv' /\ v \in Staked /\ totalStaked' = totalStaked
         /\ Staked' = Staked /\ \A x \in Staked : stakes'[x].total = stakes[x].total
<1>1. amount \in Nat
  BY StakingAssumption
<1>2. v \in Staked /\ Balanced(StakeRecord(v)) /\ StakeRecord(v) = stakes[v]
  BY RecordOf DEF StakeInv, RequestUnstake
<1>3. PICK request \in Request : request = [amount |-> amount, unbonded |-> FALSE]
  BY <1>1 DEF Request
<1>4. PICK old, r :
        /\ old = StakeRecord(v)
        /\ r = Requested(old, amount, Append(old.requests, request))
  OBVIOUS
<1>5. /\ old.total \in Nat /\ old.active \in Nat /\ old.unbonding \in Nat
      /\ old.requests \in Seq(Request) /\ old \in StakeRecordType
      /\ old.unbonding = Amount(old.requests) /\ old.total = old.active + old.unbonding
  BY <1>2, <1>4 DEF Balanced, StakeRecordType
<1>6. /\ Append(old.requests, request) \in Seq(Request)
      /\ Amount(Append(old.requests, request)) = Amount(old.requests) + amount
  BY <1>3, <1>5, AmountFacts
<1>7. amount =< old.active
  BY <1>2, <1>4 DEF RequestUnstake
<1>8. /\ r.total = old.total /\ r.active = old.active - amount
      /\ r.unbonding = old.unbonding + amount /\ r.requests = Append(old.requests, request)
      /\ r.tier = old.tier /\ r \in StakeRecordType
  <2>1. PICK longer \in Seq(Request) : longer = Append(old.requests, request)
    BY <1>6
  <2>2. r = Requested(old, amount, longer)
    BY <1>4, <2>1
  <2>3. /\ r \in StakeRecordType
        /\ r.active = old.active - amount /\ r.unbonding = old.unbonding + amount
        /\ r.total = old.total /\ r.requests = longer /\ r.tier = old.tier
    BY <1>1, <1>5, <1>7, <2>2, RequestRecord
  <2> QED
    BY <2>1, <2>3
<1>9. Balanced(r)
  <2>1. r.unbonding = Amount(r.requests)
    BY <1>5, <1>6, <1>8
  <2>2. r.total = r.active + r.unbonding
    BY <1>1, <1>5, <1>8
  <2> QED
    BY <1>8, <2>1, <2>2 DEF Balanced
<1>10. totalStaked \in Int /\ totalStaked' = totalStaked
  BY StakesFacts, TotalInt DEF StakeInv, TotalStakedSound, RequestUnstake
<1>11. Put(v, r)
  BY <1>2, <1>3, <1>4 DEF RequestUnstake, Requested
<1>12. StakeInv'
  <2>1. totalStaked' = totalStaked - StakeRecord(v).total + r.total
    BY <1>4, <1>5, <1>8, <1>10
  <2> QED
    BY <1>4, <1>8, <1>9, <1>11, <2>1, PutKeeps
<1>13. Staked' = Staked /\ \A x \in Staked : stakes'[x].total = stakes[x].total
  <2>1. PICK tier : stakes' = [x \in Staked \cup {v} |->
                                 IF x = v THEN [r EXCEPT !.tier = tier] ELSE stakes[x]]
    BY <1>11 DEF Put
  <2>2. [r EXCEPT !.tier = tier].total = stakes[v].total
    BY <1>2, <1>4, <1>8 DEF StakeRecordType
  <2>3. Staked \cup {v} = Staked
    BY <1>2
  <2> QED
    BY <2>1, <2>2, <2>3 DEF Staked
<1> QED
  BY <1>2, <1>10, <1>12, <1>13

(* The stakes of the records do not change when their totals do not.        *)
LEMMA SameTotals ==
  ASSUME RecordsSound, TotalStakedSound, Staked' = Staked, totalStaked' = totalStaked,
         \A x \in Staked : stakes'[x].total = stakes[x].total
  PROVE  TotalStakedSound'
<1>1. StakesOf(stakes') = StakesOf(stakes)
  BY DEF StakesOf, Staked
<1> QED
  BY <1>1 DEF TotalStakedSound

LEMMA PeriodKeeps ==
  ASSUME StakeInv, NEW v \in Validators, PeriodEnds(v)
  PROVE  /\ StakeInv' /\ totalStaked' = totalStaked /\ Staked' = Staked
         /\ \A x \in Staked : stakes'[x].total = stakes[x].total
<1>0. RecordsSound /\ TotalStakedSound /\ ChangesSound
  BY DEF StakeInv
<1>1. PICK i \in DOMAIN stakes[v].requests :
        stakes' = [stakes EXCEPT ![v].requests[i].unbonded = TRUE]
  BY DEF PeriodEnds
<1>2. /\ v \in Staked /\ UNCHANGED <<totalStaked, tierChanges>>
      /\ stakes[v] \in StakeRecordType /\ stakes[v].requests \in Seq(Request)
  BY <1>0 DEF PeriodEnds, RecordsSound, Balanced, StakeRecordType
<1>3. PICK list \in Seq(Request) :
        /\ list = [stakes[v].requests EXCEPT ![i].unbonded = TRUE]
        /\ Amount(list) = Amount(stakes[v].requests)
  BY <1>2, AmountPeriodEnds
<1>4. /\ DOMAIN (stakes') = DOMAIN stakes /\ \A x \in DOMAIN stakes : x # v => stakes'[x] = stakes[x]
      /\ stakes'[v] = [stakes[v] EXCEPT !.requests = list]
  BY <1>1, <1>2, <1>3 DEF Staked
<1>a. PICK old \in StakeRecordType : old = stakes[v]
  BY <1>2
<1>5. PICK r : old = stakes[v] /\ r = [old EXCEPT !.requests = list]
  BY <1>a
<1>6. /\ r \in StakeRecordType /\ r.total = old.total /\ r.active = old.active
      /\ r.unbonding = old.unbonding /\ r.tier = old.tier /\ r.requests = list
  <2> USE DEF StakeRecordType
  <2>1. r \in StakeRecordType
    BY <1>5
  <2>2. r.requests = list
    BY <1>5
  <2>3. r.total = old.total /\ r.active = old.active
    BY <1>5
  <2>4. r.unbonding = old.unbonding
    BY <1>5
  <2>5. r.tier = old.tier
    BY <1>5
  <2> QED
    BY <2>1, <2>2, <2>3, <2>4, <2>5
<1>7. Balanced(r) /\ r.tier = TierOf(r.active)
  <2>1. Balanced(old) /\ old.tier = TierOf(old.active)
    BY <1>0, <1>2, <1>5 DEF RecordsSound
  <2>2. r.unbonding = Amount(r.requests) /\ r.total = r.active + r.unbonding
    BY <1>3, <1>5, <1>6, <2>1 DEF Balanced
  <2> QED
    BY <1>6, <2>1, <2>2 DEF Balanced
<1>8. Staked' = Staked /\ stakes'[v] = r /\ \A x \in Staked : x # v => stakes'[x] = stakes[x]
  BY <1>4, <1>5 DEF Staked
<1>9. \A x \in Staked : stakes'[x].total = stakes[x].total /\ stakes'[x].tier = stakes[x].tier
  BY <1>5, <1>6, <1>8
<1>10. RecordsSound'
  BY <1>0, <1>7, <1>8 DEF RecordsSound
<1>11. TotalStakedSound'
  BY <1>0, <1>2, <1>8, <1>9, SameTotals
<1>12. ChangesSound'
  <2>1. \A x \in Validators : StakeRecord(x)'.tier = StakeRecord(x).tier
    BY <1>8, <1>9 DEF StakeRecord
  <2> QED
    BY <1>0, <1>2, <2>1 DEF ChangesSound
<1> QED
  BY <1>2, <1>8, <1>9, <1>10, <1>11, <1>12 DEF StakeInv

LEMMA RemoveKeeps ==
  ASSUME StakeInv, NEW v \in Validators, RemoveStake(v)
  PROVE  StakeInv'
<1>0. RecordsSound /\ TotalStakedSound /\ ChangesSound
  BY DEF StakeInv
<1>1. /\ v \in Staked /\ stakes[v].active = 0 /\ stakes[v].unbonding = 0
      /\ stakes' = [x \in Staked \ {v} |-> stakes[x]]
      /\ UNCHANGED <<totalStaked, tierChanges>>
  BY DEF RemoveStake
<1>2. stakes[v].total = 0 /\ stakes[v].tier = 1
  BY <1>0, <1>1, TierTyped DEF RecordsSound, Balanced
<1>3. Staked' = Staked \ {v} /\ \A x \in Staked \ {v} : stakes'[x] = stakes[x]
  BY <1>1 DEF Staked
<1>4. RecordsSound'
  BY <1>0, <1>3 DEF RecordsSound
<1>5. TotalStakedSound'
  <2>1. PICK S, g, h : S = Staked /\ g = StakesOf(stakes) /\ h = StakesOf(stakes')
    OBVIOUS
  <2>2. IsFiniteSet(S) /\ IntOn(g, S) /\ v \in S /\ g[v] = 0
    BY <1>0, <1>1, <1>2, <2>1, StakesFacts
  <2>3. Total(g, S) = g[v] + Total(g, S \ {v})
    BY <2>2, TotalElement
  <2>4. IsFiniteSet(S \ {v}) /\ IntOn(g, S \ {v})
    BY <2>2, FS_Subset DEF IntOn
  <2>5. \A x \in S \ {v} : g[x] = h[x]
    <3>1. \A x \in S \ {v} : g[x] = stakes[x].total
      BY <2>1 DEF StakesOf, Staked
    <3>2. \A x \in S \ {v} : h[x] = stakes'[x].total
      BY <1>3, <2>1 DEF StakesOf, Staked
    <3> QED
      BY <1>3, <2>1, <3>1, <3>2
  <2>6. Total(g, S \ {v}) = Total(h, S \ {v}) /\ Total(g, S \ {v}) \in Int
    BY <2>4, <2>5, TotalSame, TotalInt
  <2>7. totalStaked' = Total(g, S)
    BY <1>0, <1>1, <2>1 DEF TotalStakedSound
  <2>8. totalStaked' = Total(h, S \ {v})
    BY <2>2, <2>3, <2>6, <2>7
  <2> QED
    BY <1>3, <2>1, <2>8 DEF TotalStakedSound
<1>6. ChangesSound'
  <2>1. \A x \in Validators : StakeRecord(x)'.tier = StakeRecord(x).tier
    <3>1. NoStake.tier = 1
      BY DEF NoStake
    <3> QED
      BY <1>1, <1>2, <1>3, <3>1 DEF StakeRecord
  <2> QED
    BY <1>0, <1>1, <2>1 DEF ChangesSound
<1> QED
  BY <1>4, <1>5, <1>6 DEF StakeInv

(* What processing the requests pays out.                                   *)
Payouts == [v \in Staked |-> Amount(Due(stakes[v].requests))]

LEMMA PayoutsSum ==
  MapThenSumSet(LAMBDA v : Amount(Unbonded(v)), Staked) = Total(Payouts, Staked)
<1> DEFINE body(it) == [s \in SUBSET Staked |->
                          IF s = {} THEN 0
                          ELSE LET x == CHOOSE x \in s : TRUE
                               IN  Amount(Unbonded(x)) + it[s \ {x}]]
           body2(it) == [s \in SUBSET Staked |->
                           IF s = {} THEN 0
                           ELSE LET x == CHOOSE x \in s : TRUE IN Payouts[x] + it[s \ {x}]]
<1>1. MapThenSumSet(LAMBDA v : Amount(Unbonded(v)), Staked) = (CHOOSE it : it = body(it))[Staked]
  BY DEF MapThenSumSet, MapThenFoldSet
<1>2. Total(Payouts, Staked) = (CHOOSE it : it = body2(it))[Staked]
  BY DEF Total, MapThenSumSet, MapThenFoldSet
<1>3. \A it : body(it) = body2(it)
  <2> SUFFICES ASSUME NEW it, NEW s \in SUBSET Staked, s # {}
               PROVE  Amount(Unbonded(CHOOSE x \in s : TRUE)) = Payouts[CHOOSE x \in s : TRUE]
    OBVIOUS
  <2>1. (CHOOSE x \in s : TRUE) \in Staked
    OBVIOUS
  <2> QED
    BY <2>1 DEF Payouts, Unbonded
<1> HIDE DEF body, body2
<1> QED
  BY <1>1, <1>2, <1>3

LEMMA ProcessKeeps ==
  ASSUME StakeInv, ProcessUnbonding
  PROVE  /\ StakeInv' /\ Staked' = Staked
         /\ \A x \in Staked : stakes'[x].total =< stakes[x].total
<1>0. RecordsSound /\ TotalStakedSound /\ ChangesSound
  BY DEF StakeInv
<1>1. /\ Staked' = Staked /\ \A x \in Staked : stakes'[x] = Released(x)
      /\ tierChanges' = tierChanges
      /\ totalStaked' = totalStaked - Total(Payouts, Staked)
  BY PayoutsSum DEF ProcessUnbonding, Staked
<1>2. ASSUME NEW x \in Staked
      PROVE  /\ Balanced(stakes'[x]) /\ stakes'[x].tier = stakes[x].tier
             /\ stakes'[x].active = stakes[x].active
             /\ stakes'[x].total = stakes[x].total - Payouts[x]
             /\ Payouts[x] \in Nat
  <2>1. PICK old \in StakeRecordType : old = stakes[x] /\ Balanced(old)
    BY <1>0 DEF RecordsSound, Balanced
  <2>2. PICK due \in Nat, rest \in Seq(Request) :
          /\ due = Amount(Due(old.requests)) /\ rest = Running(old.requests)
          /\ Amount(rest) \in Nat /\ Amount(old.requests) = due + Amount(rest)
    BY AmountFacts DEF StakeRecordType
  <2>3. /\ old.total \in Nat /\ old.active \in Nat /\ old.unbonding \in Nat
        /\ old.unbonding = due + Amount(rest) /\ old.total = old.active + old.unbonding
    BY <2>1, <2>2 DEF Balanced, StakeRecordType
  <2>4. PICK t \in Nat, u \in Nat : t = old.total - due /\ u = old.unbonding - due
    BY <2>2, <2>3
  <2>5. PICK r : r = [old EXCEPT !.total = t, !.unbonding = u, !.requests = rest]
    OBVIOUS
  <2>6. stakes'[x] = r
    BY <1>1, <2>1, <2>2, <2>4, <2>5 DEF Released, Unbonded, StillBonded
  <2>7. /\ r \in StakeRecordType /\ r.total = t /\ r.unbonding = u /\ r.requests = rest
        /\ r.active = old.active /\ r.tier = old.tier
    <3> USE DEF StakeRecordType
    <3>1. r \in StakeRecordType
      BY <2>5
    <3>2. r.total = t /\ r.unbonding = u
      BY <2>5
    <3>3. r.requests = rest
      BY <2>5
    <3>4. r.active = old.active
      BY <2>5
    <3>5. r.tier = old.tier
      BY <2>5
    <3> QED
      BY <3>1, <3>2, <3>3, <3>4, <3>5
  <2>8. r.unbonding = Amount(r.requests) /\ r.total = r.active + r.unbonding
    <3>1. PICK w \in Nat : w = Amount(rest) /\ old.unbonding = due + w
      BY <2>2, <2>3
    <3>2. u = w
      BY <2>4, <3>1
    <3>3. r.unbonding = Amount(r.requests)
      BY <2>7, <3>1, <3>2
    <3>4. t = old.active + u
      BY <2>3, <2>4
    <3>5. r.total = r.active + r.unbonding
      BY <2>7, <3>4
    <3> QED
      BY <3>3, <3>5
  <2>9. Balanced(r)
    BY <2>7, <2>8 DEF Balanced
  <2>10. Payouts[x] = due
    BY <2>1, <2>2 DEF Payouts
  <2> QED
    BY <2>1, <2>4, <2>6, <2>7, <2>9, <2>10
<1>3. RecordsSound'
  BY <1>0, <1>1, <1>2 DEF RecordsSound
<1>4. TotalStakedSound'
  <2>1. PICK S, f, d, h : S = Staked /\ f = StakesOf(stakes) /\ d = Payouts /\ h = StakesOf(stakes')
    OBVIOUS
  <2>2. IsFiniteSet(S) /\ IntOn(f, S) /\ \A x \in S : f[x] = stakes[x].total
    BY <1>0, <2>1, StakesFacts
  <2>3. IntOn(d, S)
    BY <1>2, <2>1 DEF IntOn
  <2>4. \A x \in S : h[x] = f[x] - d[x]
    <3>1. \A x \in S : h[x] = stakes'[x].total
      BY <1>1, <2>1 DEF StakesOf, Staked
    <3> QED
      BY <1>2, <2>1, <2>2, <3>1
  <2>5. Total(h, S) = Total(f, S) - Total(d, S)
    <3>1. IsFiniteSet(S) /\ IntOn(f, S)
      BY <2>2
    <3> QED
      BY <2>3, <2>4, <3>1, TotalMinus
  <2> QED
    BY <1>0, <1>1, <2>1, <2>5 DEF TotalStakedSound
<1>5. ChangesSound'
  <2>1. \A x \in Validators : StakeRecord(x)'.tier = StakeRecord(x).tier
    BY <1>1, <1>2 DEF StakeRecord
  <2> QED
    BY <1>0, <1>1, <2>1 DEF ChangesSound
<1>6. \A x \in Staked : stakes'[x].total =< stakes[x].total
  <2> SUFFICES ASSUME NEW x \in Staked PROVE stakes'[x].total =< stakes[x].total
    OBVIOUS
  <2>1. stakes[x].total \in Nat
    BY <1>0 DEF RecordsSound, Balanced, StakeRecordType
  <2> QED
    BY <1>2, <2>1
<1> QED
  BY <1>1, <1>3, <1>4, <1>5, <1>6 DEF StakeInv

(* Every step of the staking manager preserves the invariant.               *)
LEMMA StakingInitInv == StakingInit => StakeInv
<1> SUFFICES ASSUME StakingInit PROVE StakeInv
  OBVIOUS
<1>1. stakes = << >> /\ totalStaked = 0 /\ tierChanges = [v \in Validators |-> << >>]
  BY DEF StakingInit
<1>2. Staked = {}
  BY <1>1 DEF Staked
<1>3. RecordsSound /\ TotalStakedSound
  BY <1>1, <1>2, TotalEmpty DEF RecordsSound, TotalStakedSound
<1>4. << >> \in Seq(Tiers \X Tiers) /\ DOMAIN << >> = {}
  OBVIOUS
<1>5. PICK none \in Seq(Tiers \X Tiers) : none = << >> /\ DOMAIN none = {}
  BY <1>4
<1>6. Unbroken(none) /\ TierAfter(none) = 1
  BY <1>5 DEF Unbroken, TierAfter
<1>7. \A v \in Validators : StakeRecord(v).tier = 1
  BY <1>2 DEF StakeRecord, NoStake
<1>8. ChangesSound
  <2>1. tierChanges = [v \in Validators |-> none]
    BY <1>1, <1>5
  <2> QED
    BY <1>6, <1>7, <2>1 DEF ChangesSound
<1> QED
  BY <1>3, <1>8 DEF StakeInv

LEMMA StakeUnchanged ==
  ASSUME StakeInv, UNCHANGED stakingVars
  PROVE  StakeInv'
<1>1. stakes' = stakes /\ totalStaked' = totalStaked /\ tierChanges' = tierChanges
  BY DEF stakingVars
<1> QED
  BY <1>1 DEF StakeInv, RecordsSound, TotalStakedSound, ChangesSound, StakeRecord, Staked

LEMMA StakingNextInv ==
  ASSUME StakeInv, StakingAction
  PROVE  StakeInv'
<1>1. ASSUME NEW v \in Validators, NEW amount \in Deposits, DepositStake(v, amount)
      PROVE  StakeInv'
  BY <1>1, DepositKeeps
<1>2. ASSUME NEW v \in Validators, NEW amount \in Withdrawals, RequestUnstake(v, amount)
      PROVE  StakeInv'
  BY <1>2, RequestKeeps
<1>3. ASSUME NEW v \in Validators, PeriodEnds(v)
      PROVE  StakeInv'
  BY <1>3, PeriodKeeps
<1>4. ASSUME NEW v \in Validators, RemoveStake(v)
      PROVE  StakeInv'
  BY <1>4, RemoveKeeps
<1>5. ASSUME ProcessUnbonding
      PROVE  StakeInv'
  BY <1>5, ProcessKeeps
<1> QED
  BY <1>1, <1>2, <1>3, <1>4, <1>5 DEF StakingAction

(* The invariant says what the runs check.                                  *)
LEMMA StakesSum ==
  MapThenSumSet(LAMBDA v : stakes[v].total, Staked) = Total(StakesOf(stakes), Staked)
<1> DEFINE body(it) == [s \in SUBSET Staked |->
                          IF s = {} THEN 0
                          ELSE LET x == CHOOSE x \in s : TRUE
                               IN  stakes[x].total + it[s \ {x}]]
           body2(it) == [s \in SUBSET Staked |->
                           IF s = {} THEN 0
                           ELSE LET x == CHOOSE x \in s : TRUE
                                IN  StakesOf(stakes)[x] + it[s \ {x}]]
<1>1. MapThenSumSet(LAMBDA v : stakes[v].total, Staked) = (CHOOSE it : it = body(it))[Staked]
  BY DEF MapThenSumSet, MapThenFoldSet
<1>2. Total(StakesOf(stakes), Staked) = (CHOOSE it : it = body2(it))[Staked]
  BY DEF Total, MapThenSumSet, MapThenFoldSet
<1>3. \A it : body(it) = body2(it)
  <2> SUFFICES ASSUME NEW it, NEW s \in SUBSET Staked, s # {}
               PROVE  stakes[CHOOSE x \in s : TRUE].total
                        = StakesOf(stakes)[CHOOSE x \in s : TRUE]
    OBVIOUS
  <2>1. (CHOOSE x \in s : TRUE) \in Staked
    OBVIOUS
  <2> QED
    BY <2>1 DEF StakesOf, Staked
<1> HIDE DEF body, body2
<1> QED
  BY <1>1, <1>2, <1>3

LEMMA StakeInvSuffices == StakeInv => StakeConserved /\ TiersExplained
<1> SUFFICES ASSUME StakeInv PROVE StakeConserved /\ TiersExplained
  OBVIOUS
<1>0. RecordsSound /\ TotalStakedSound /\ ChangesSound
  BY DEF StakeInv
<1>1. totalStaked = MapThenSumSet(LAMBDA v : stakes[v].total, Staked)
  BY <1>0, StakesSum DEF TotalStakedSound
<1>2. StakingTypeOK
  <2>1. totalStaked \in Nat
    BY <1>0, StakesFacts, TotalNat DEF TotalStakedSound
  <2>2. Staked \subseteq Validators /\ \A v \in Staked : stakes[v] \in StakeRecordType
    BY <1>0 DEF RecordsSound, Balanced
  <2>3. \A v \in Validators : tierChanges[v] \in Seq(Tiers \X Tiers)
    BY <1>0 DEF ChangesSound
  <2> QED
    BY <2>1, <2>2, <2>3 DEF StakingTypeOK, StakeRecordType
<1>3. \A v \in Staked :
        /\ stakes[v].active >= 0
        /\ stakes[v].unbonding = Amount(stakes[v].requests)
        /\ stakes[v].total = stakes[v].active + stakes[v].unbonding
  BY <1>0 DEF RecordsSound, Balanced, StakeRecordType
<1>4. TiersExplained
  <2> SUFFICES ASSUME NEW v \in Validators
               PROVE  /\ Unbroken(tierChanges[v])
                      /\ TierOf(ActiveStake(v)) = StakeRecord(v).tier
                      /\ StakeRecord(v).tier = TierAfter(tierChanges[v])
    BY DEF TiersExplained, Unbroken, TierAfter
  <2>1. TierOf(ActiveStake(v)) = StakeRecord(v).tier
    BY <1>0, RecordOf DEF ActiveStake
  <2> QED
    BY <1>0, <2>1 DEF ChangesSound
<1> QED
  BY <1>1, <1>2, <1>3, <1>4 DEF StakeConserved

-----------------------------------------------------------------------------
(***************************************************************************)
(* The validator set: the total beside the members is the sum of the       *)
(* stakes that their votes weigh.                                          *)
(***************************************************************************)
MemberType == [stake : Nat, participated : Nat, snapshots : Nat]

Votes(infos) == [v \in DOMAIN infos |-> infos[v].stake]

SetInv ==
  /\ Members \subseteq Validators
  /\ \A v \in Members : members[v] \in MemberType
  /\ setTotal = Total(Votes(members), Members)

LEMMA VotesFacts ==
  ASSUME SetInv
  PROVE  /\ IsFiniteSet(Members) /\ NatOn(Votes(members), Members) /\ IntOn(Votes(members), Members)
         /\ \A v \in Members : Votes(members)[v] = members[v].stake
         /\ \A v \in Members : members[v].stake \in Nat
<1>1. IsFiniteSet(Members)
  BY ValidatorsAssumption, FS_Subset DEF SetInv
<1>2. \A v \in Members : Votes(members)[v] = members[v].stake
  BY DEF Votes, Members
<1>3. \A v \in Members : members[v].stake \in Nat
  BY DEF SetInv, MemberType
<1> QED
  BY <1>1, <1>2, <1>3 DEF NatOn, IntOn

LEMMA SetInitInv == SetInit => SetInv
<1> SUFFICES ASSUME SetInit PROVE SetInv
  OBVIOUS
<1>1. members = << >> /\ setTotal = 0
  BY DEF SetInit
<1>2. Members = {}
  BY <1>1 DEF Members
<1> QED
  BY <1>1, <1>2, TotalEmpty DEF SetInv

LEMMA ClearKeeps ==
  ASSUME Clear
  PROVE  SetInv'
<1>1. members' = << >> /\ setTotal' = 0
  BY DEF Clear
<1>2. Members' = {}
  BY <1>1 DEF Members
<1> QED
  BY <1>1, <1>2, TotalEmpty DEF SetInv

(* The votes stay when the stakes of the members do.                        *)
LEMMA SameVotes ==
  ASSUME SetInv, Members' = Members, setTotal' = setTotal,
         \A v \in Members : members'[v] \in MemberType /\ members'[v].stake = members[v].stake
  PROVE  SetInv'
<1>1. Votes(members') = Votes(members)
  BY DEF Votes, Members
<1> QED
  BY <1>1 DEF SetInv

LEMMA SetUnchanged ==
  ASSUME SetInv, UNCHANGED setVars
  PROVE  SetInv'
<1>1. members' = members /\ setTotal' = setTotal
  BY DEF setVars
<1> QED
  BY <1>1 DEF SetInv, Members

LEMMA NewMember == \A stake \in Nat : ValidatorInfo(stake) \in MemberType /\ ValidatorInfo(stake).stake = stake
  BY DEF ValidatorInfo, MemberType

LEMMA AddKeeps ==
  ASSUME SetInv, NEW v \in Validators, NEW stake \in Nat, AddValidator(v, stake)
  PROVE  /\ SetInv' /\ v \notin Members /\ Members' = Members \cup {v}
         /\ members'[v].stake = stake /\ \A x \in Members : members'[x] = members[x]
<1>1. PICK info \in MemberType : info = ValidatorInfo(stake) /\ info.stake = stake
  BY NewMember
<1>2. /\ v \notin Members /\ setTotal' = setTotal + stake
      /\ members' = [x \in Members \cup {v} |-> IF x = v THEN info ELSE members[x]]
  BY <1>1 DEF AddValidator
<1>3. /\ Members' = Members \cup {v} /\ members'[v] = info
      /\ \A x \in Members : members'[x] = members[x]
  BY <1>2 DEF Members
<1>4. PICK S, g, h : S = Members /\ g = Votes(members) /\ h = Votes(members')
  OBVIOUS
<1>5. IsFiniteSet(S) /\ IntOn(g, S)
  BY <1>4, VotesFacts
<1>6. h[v] = stake /\ \A x \in S : x # v => h[x] = g[x]
  <2>1. h[v] = members'[v].stake /\ \A x \in S : h[x] = members'[x].stake /\ g[x] = members[x].stake
    BY <1>3, <1>4 DEF Votes, Members
  <2> QED
    BY <1>1, <1>3, <1>4, <2>1
<1>7. IntOn(h, S \cup {v})
  BY <1>2, <1>4, <1>5, <1>6 DEF IntOn
<1>8. Total(h, S \cup {v}) = stake + Total(g, S)
  <2>1. Total(h, S \cup {v}) = h[v] + Total(h, S)
    <3>1. v \notin S /\ IsFiniteSet(S) /\ IntOn(h, S \cup {v})
      BY <1>2, <1>4, <1>5, <1>7
    <3> QED
      BY <3>1, TotalAdd
  <2>2. Total(g, S) = Total(h, S)
    <3>1. IsFiniteSet(S) /\ IntOn(g, S) /\ \A x \in S : g[x] = h[x]
      BY <1>2, <1>4, <1>5, <1>6
    <3> QED
      BY <3>1, TotalSame
  <2> QED
    BY <1>6, <2>1, <2>2
<1>9. Total(g, S) \in Int /\ setTotal = Total(g, S)
  BY <1>4, <1>5, TotalInt DEF SetInv
<1>10. setTotal' = Total(h, S \cup {v})
  BY <1>2, <1>8, <1>9
<1>11. Members' \subseteq Validators /\ \A x \in Members' : members'[x] \in MemberType
  BY <1>1, <1>3 DEF SetInv
<1> QED
  BY <1>1, <1>2, <1>3, <1>4, <1>10, <1>11 DEF SetInv

LEMMA RemoveMemberKeeps ==
  ASSUME SetInv, NEW v \in Validators, RemoveValidator(v)
  PROVE  SetInv'
<1>1. /\ v \in Members /\ members' = [x \in Members \ {v} |-> members[x]]
      /\ setTotal' = setTotal - members[v].stake
  BY DEF RemoveValidator
<1>2. Members' = Members \ {v} /\ \A x \in Members \ {v} : members'[x] = members[x]
  BY <1>1 DEF Members
<1>3. PICK S, g, h : S = Members /\ g = Votes(members) /\ h = Votes(members')
  OBVIOUS
<1>4. IsFiniteSet(S) /\ IntOn(g, S) /\ v \in S /\ g[v] = members[v].stake
  BY <1>1, <1>3, VotesFacts
<1>5. Total(g, S) = g[v] + Total(g, S \ {v})
  BY <1>4, TotalElement
<1>6. IsFiniteSet(S \ {v}) /\ IntOn(g, S \ {v})
  BY <1>4, FS_Subset DEF IntOn
<1>7. \A x \in S \ {v} : g[x] = h[x]
  <2>1. \A x \in S \ {v} : g[x] = members[x].stake
    BY <1>3 DEF Votes, Members
  <2>2. \A x \in S \ {v} : h[x] = members'[x].stake
    BY <1>2, <1>3 DEF Votes, Members
  <2> QED
    BY <1>2, <1>3, <2>1, <2>2
<1>8. Total(g, S \ {v}) = Total(h, S \ {v}) /\ Total(g, S \ {v}) \in Int
  BY <1>6, <1>7, TotalSame, TotalInt
<1>9. setTotal' = Total(h, S \ {v})
  <2>1. setTotal = Total(g, S) /\ g[v] \in Int
    BY <1>3, <1>4 DEF SetInv, IntOn
  <2> QED
    BY <1>1, <1>4, <1>5, <1>8, <2>1
<1>10. Members' \subseteq Validators /\ \A x \in Members' : members'[x] \in MemberType
  BY <1>2 DEF SetInv
<1> QED
  BY <1>2, <1>3, <1>9, <1>10 DEF SetInv

(* A cycle ends: who stays has the stake that is reported.                  *)
LEMMA ReconfigureKeeps ==
  ASSUME SetInv, NEW staked, NEW meeting, NEW stake \in [Validators -> Nat],
         Reconfigure(staked, meeting, stake)
  PROVE  SetInv'
<1>1. PICK kept : kept = Members \cap meeting
  OBVIOUS
<1>2. /\ members' = [v \in kept |-> [members[v] EXCEPT !.stake = stake[v]]]
      /\ setTotal' = Total(stake, kept)
  BY <1>1 DEF Reconfigure, Total
<1>3. Members' = kept /\ kept \subseteq Members /\ kept \subseteq Validators
  BY <1>1, <1>2 DEF Members, SetInv
<1>4. \A v \in kept : members'[v] \in MemberType /\ members'[v].stake = stake[v]
  <2> SUFFICES ASSUME NEW v \in kept
               PROVE  members'[v] \in MemberType /\ members'[v].stake = stake[v]
    OBVIOUS
  <2>1. PICK w \in Nat : w = stake[v]
    BY <1>3
  <2>2. PICK info \in MemberType : info = members[v]
    BY <1>3 DEF SetInv
  <2>3. members'[v] = [info EXCEPT !.stake = w]
    BY <1>2, <2>1, <2>2
  <2> QED
    BY <2>1, <2>3 DEF MemberType
<1>5. PICK h : h = Votes(members')
  OBVIOUS
<1>6. \A v \in kept : stake[v] = h[v]
  BY <1>3, <1>4, <1>5 DEF Votes, Members
<1>7. IsFiniteSet(kept) /\ IntOn(stake, kept)
  BY <1>3, ValidatorsAssumption, FS_Subset DEF IntOn
<1>8. Total(stake, kept) = Total(h, kept)
  BY <1>6, <1>7, TotalSame
<1> QED
  BY <1>2, <1>3, <1>4, <1>5, <1>8 DEF SetInv

(* Participation, and its end with the cycle, leave the votes alone.        *)
LEMMA ParticipationKeeps ==
  ASSUME SetInv, NEW v \in Validators, NEW participated \in BOOLEAN,
         RecordParticipation(v, participated)
  PROVE  SetInv' /\ Members' = Members /\ \A x \in Members : members'[x].stake = members[x].stake
<1>1. v \in Members /\ setTotal' = setTotal
  BY DEF RecordParticipation
<1>2. PICK info \in MemberType : info = members[v]
  BY <1>1 DEF SetInv
<1>3. PICK s \in Nat, p \in Nat :
        s = info.snapshots + 1 /\ p = IF participated THEN info.participated + 1 ELSE info.participated
  BY DEF MemberType
<1>4. PICK new : new = [info EXCEPT !.snapshots = s, !.participated = p]
  OBVIOUS
<1>5. new \in MemberType /\ new.stake = info.stake
  BY <1>4 DEF MemberType
<1>6. members' = [members EXCEPT ![v] = new]
  BY <1>2, <1>3, <1>4 DEF RecordParticipation
<1>7. Members' = Members /\ members'[v] = new /\ \A x \in Members : x # v => members'[x] = members[x]
  BY <1>1, <1>6 DEF Members
<1>8. \A x \in Members : members'[x] \in MemberType /\ members'[x].stake = members[x].stake
  BY <1>2, <1>5, <1>7 DEF SetInv
<1> QED
  BY <1>1, <1>7, <1>8, SameVotes

LEMMA CycleKeeps ==
  ASSUME SetInv, AdvanceCycle
  PROVE  SetInv' /\ Members' = Members /\ \A x \in Members : members'[x].stake = members[x].stake
<1>1. /\ members' = [v \in Members |-> ValidatorInfo(members[v].stake)] /\ setTotal' = setTotal
  BY DEF AdvanceCycle, ResetCycleStats
<1>2. Members' = Members
  BY <1>1 DEF Members
<1>3. \A x \in Members : members'[x] \in MemberType /\ members'[x].stake = members[x].stake
  BY <1>1, VotesFacts, NewMember
<1> QED
  BY <1>1, <1>2, <1>3, SameVotes

(* The weight of a group of members is the sum of their votes.              *)
LEMMA WeightIsSum == \A S : StakeWeight(S) = Total(Votes(members), S \cap Members)
<1> SUFFICES ASSUME NEW S PROVE StakeWeight(S) = Total(Votes(members), S \cap Members)
  OBVIOUS
<1> DEFINE T == S \cap Members
           body(it) == [s \in SUBSET T |->
                          IF s = {} THEN 0
                          ELSE LET x == CHOOSE x \in s : TRUE
                               IN  members[x].stake + it[s \ {x}]]
           body2(it) == [s \in SUBSET T |->
                           IF s = {} THEN 0
                           ELSE LET x == CHOOSE x \in s : TRUE
                                IN  Votes(members)[x] + it[s \ {x}]]
<1>1. StakeWeight(S) = (CHOOSE it : it = body(it))[T]
  BY DEF StakeWeight, MapThenSumSet, MapThenFoldSet
<1>2. Total(Votes(members), T) = (CHOOSE it : it = body2(it))[T]
  BY DEF Total, MapThenSumSet, MapThenFoldSet
<1>3. \A it : body(it) = body2(it)
  <2> SUFFICES ASSUME NEW it, NEW s \in SUBSET T, s # {}
               PROVE  members[CHOOSE x \in s : TRUE].stake = Votes(members)[CHOOSE x \in s : TRUE]
    OBVIOUS
  <2>1. (CHOOSE x \in s : TRUE) \in Members
    OBVIOUS
  <2> QED
    BY <2>1 DEF Votes, Members
<1> HIDE DEF body, body2
<1> QED
  BY <1>1, <1>2, <1>3

(* Two disjoint groups would need more than four thirds of the stake.       *)
LEMMA SetInvSuffices == SetInv => QuorumsIntersect
<1> SUFFICES ASSUME SetInv PROVE QuorumsIntersect
  OBVIOUS
<1>1. PICK M, g : M = Members /\ g = Votes(members)
  OBVIOUS
<1>2. IsFiniteSet(M) /\ NatOn(g, M) /\ IntOn(g, M)
  BY <1>1, VotesFacts
<1>3. setTotal = Total(g, M) /\ \A S : StakeWeight(S) = Total(g, S \cap M)
  BY <1>1, WeightIsSum DEF SetInv
<1>4. setTotal = StakeWeight(M)
  <2>1. M \cap M = M
    OBVIOUS
  <2> QED
    BY <1>3, <2>1
<1>5. ASSUME NEW S \in SUBSET M
      PROVE  ~(HasQuorum(S) /\ HasQuorum(M \ S))
  <2>1. S \cap M = M \cap S /\ (M \ S) \cap M = M \ S
    OBVIOUS
  <2>2. Total(g, M) = Total(g, M \cap S) + Total(g, M \ S)
    BY <1>2, TotalSplit
  <2>3. M \cap S \in SUBSET M /\ M \ S \in SUBSET M
    OBVIOUS
  <2>4. Total(g, M \cap S) \in Nat /\ Total(g, M \ S) \in Nat
    BY <1>2, <2>3, TotalMonotone
  <2>5. PICK a \in Nat, b \in Nat :
          a = StakeWeight(S) /\ b = StakeWeight(M \ S) /\ setTotal = a + b
    BY <1>3, <2>1, <2>2, <2>4
  <2> QED
    BY <2>5 DEF HasQuorum
<1> QED
  BY <1>1, <1>4, <1>5 DEF QuorumsIntersect

-----------------------------------------------------------------------------
(***************************************************************************)
(* The object that owns both.  What a validator has at stake is behind its *)
(* vote in every step of ValidatorOperations; that the totals agree with   *)
(* it follows from the sums.                                               *)
(***************************************************************************)
EachBehind ==
  /\ Staked \subseteq Members
  /\ \A v \in Staked : stakes[v].total =< members[v].stake

OpsInv == StakeInv /\ SetInv

LEMMA BehindSuffices ==
  ASSUME OpsInv, EachBehind
  PROVE  StakeBehindMembers
<1>1. PICK S, M, f, g : S = Staked /\ M = Members /\ f = StakesOf(stakes) /\ g = Votes(members)
  OBVIOUS
<1>2. IsFiniteSet(S) /\ IntOn(f, S) /\ \A v \in S : f[v] = stakes[v].total
  BY <1>1, StakesFacts DEF OpsInv, StakeInv
<1>3. IsFiniteSet(M) /\ NatOn(g, M) /\ \A v \in M : g[v] = members[v].stake
  BY <1>1, VotesFacts DEF OpsInv
<1>4. S \in SUBSET M /\ IntOn(g, S) /\ \A v \in S : f[v] =< g[v]
  BY <1>1, <1>2, <1>3 DEF EachBehind, NatOn, IntOn
<1>5. Total(f, S) =< Total(g, S)
  BY <1>2, <1>4, TotalOrdered
<1>6. Total(g, S) \in Nat /\ Total(g, M) \in Nat /\ Total(g, S) =< Total(g, M)
  BY <1>3, <1>4, TotalMonotone
<1>7. totalStaked = Total(f, S) /\ setTotal = Total(g, M)
  BY <1>1 DEF OpsInv, StakeInv, TotalStakedSound, SetInv
<1>8. Total(f, S) \in Int
  BY <1>2, TotalInt
<1>9. totalStaked =< setTotal
  BY <1>5, <1>6, <1>7, <1>8
<1> QED
  BY <1>9 DEF StakeBehindMembers, EachBehind

(* The stakes are where they were or lower, and the votes did not change.   *)
LEMMA LowerStakes ==
  ASSUME OpsInv, OpsInv', EachBehind, Staked' \subseteq Staked,
         \A v \in Staked' : stakes'[v].total =< stakes[v].total,
         Members' = Members, \A v \in Members : members'[v].stake = members[v].stake
  PROVE  EachBehind'
<1>1. Staked' \subseteq Members'
  BY DEF EachBehind
<1>2. ASSUME NEW v \in Staked'
      PROVE  stakes'[v].total =< members'[v].stake
  <2>1. /\ v \in Staked /\ v \in Members
        /\ stakes[v].total =< members[v].stake /\ members'[v].stake = members[v].stake
    BY DEF EachBehind
  <2>2. stakes[v].total \in Int /\ members[v].stake \in Int
    BY <2>1, StakesFacts, VotesFacts DEF OpsInv, StakeInv, RecordsSound, Balanced, StakeRecordType
  <2>3. stakes'[v].total \in Int
    BY DEF OpsInv, StakeInv, RecordsSound, Balanced, StakeRecordType
  <2>4. stakes'[v].total =< stakes[v].total
    OBVIOUS
  <2> QED
    BY <2>1, <2>2, <2>3, <2>4
<1> QED
  BY <1>1, <1>2 DEF EachBehind

LEMMA RegisterKeeps ==
  ASSUME OpsInv, NEW v \in Validators, NEW stake \in Deposits, NEW valid \in BOOLEAN,
         RegisterValidator(v, stake, valid)
  PROVE  OpsInv' /\ (EachBehind => EachBehind')
<1>1. stake \in Nat
  BY StakingAssumption
<1>2. /\ SetInv' /\ v \notin Members /\ Members' = Members \cup {v}
      /\ members'[v].stake = stake /\ \A x \in Members : members'[x] = members[x]
  BY <1>1, AddKeeps DEF RegisterValidator, OpsInv
<1>3. CASE valid
  <2>1. DepositStake(v, stake)
    BY <1>3 DEF RegisterValidator
  <2>2. StakeInv'
    BY <2>1, DepositKeeps DEF OpsInv
  <2>3. /\ Staked' = Staked \cup {v} /\ \A x \in Staked : x # v => stakes'[x] = stakes[x]
        /\ stakes'[v].total = StakeRecord(v).total + stake
    <3>1. PICK old \in StakeRecordType : old = StakeRecord(v)
      BY RecordOf DEF OpsInv, StakeInv, Balanced
    <3>2. PICK r : r = Deposited(old, stake)
      OBVIOUS
    <3>3. r \in StakeRecordType /\ r.total = old.total + stake
      BY <1>1, <3>2, DepositRecord
    <3>4. PICK tier : stakes' = [x \in Staked \cup {v} |->
                                   IF x = v THEN [r EXCEPT !.tier = tier] ELSE stakes[x]]
      <4>1. Put(v, r)
        BY <2>1, <3>1, <3>2 DEF DepositStake, Deposited
      <4> QED
        BY <4>1 DEF Put
    <3>5. [r EXCEPT !.tier = tier].total = r.total
      BY <3>3 DEF StakeRecordType
    <3>6. stakes'[v].total = StakeRecord(v).total + stake
      BY <3>1, <3>3, <3>4, <3>5
    <3> QED
      BY <3>4, <3>6 DEF Staked
  <2>4. ASSUME EachBehind
        PROVE  EachBehind'
    <3>1. v \notin Staked
      BY <1>2, <2>4 DEF EachBehind
    <3>2. stakes'[v].total = stake
      <4>1. StakeRecord(v).total = 0
        BY <3>1, RecordOf DEF OpsInv, StakeInv
      <4> QED
        BY <1>1, <2>3, <4>1
    <3>3. Staked' \subseteq Members'
      BY <1>2, <2>3, <2>4 DEF EachBehind
    <3>4. stakes'[v].total =< members'[v].stake
      BY <1>1, <1>2, <3>2
    <3>5. \A x \in Staked : stakes'[x].total =< members'[x].stake
      BY <1>2, <2>3, <2>4, <3>1 DEF EachBehind
    <3> QED
      BY <2>3, <3>3, <3>4, <3>5 DEF EachBehind
  <2> QED
    BY <1>2, <2>2, <2>4 DEF OpsInv
<1>4. CASE ~valid
  <2>1. UNCHANGED stakingVars
    BY <1>4 DEF RegisterValidator
  <2>2. StakeInv' /\ stakes' = stakes /\ Staked' = Staked
    BY <2>1, StakeUnchanged DEF OpsInv, stakingVars, Staked
  <2>3. EachBehind => EachBehind'
    BY <1>2, <2>2 DEF EachBehind
  <2> QED
    BY <1>2, <2>2, <2>3 DEF OpsInv
<1> QED
  BY <1>3, <1>4

LEMMA OpsNextInv ==
  ASSUME OpsInv, OpsNext
  PROVE  OpsInv' /\ (EachBehind => EachBehind')
<1>0. StakeInv /\ SetInv
  BY DEF OpsInv
<1>s. \A v \in Staked : stakes[v].total \in Nat
  BY <1>0 DEF StakeInv, RecordsSound, Balanced, StakeRecordType
<1>1. ASSUME NEW v \in Validators, NEW stake \in Deposits, NEW valid \in BOOLEAN,
             RegisterValidator(v, stake, valid)
      PROVE  OpsInv' /\ (EachBehind => EachBehind')
  BY <1>1, RegisterKeeps
<1>2. ASSUME NEW v \in Validators, NEW participated \in BOOLEAN,
             RecordSnapshotParticipation(v, participated)
      PROVE  OpsInv' /\ (EachBehind => EachBehind')
  <2>1. RecordParticipation(v, participated) /\ UNCHANGED stakingVars
    BY <1>2 DEF RecordSnapshotParticipation
  <2>2. SetInv' /\ Members' = Members /\ \A x \in Members : members'[x].stake = members[x].stake
    BY <1>0, <2>1, ParticipationKeeps
  <2>3. StakeInv' /\ stakes' = stakes /\ Staked' = Staked
    BY <1>0, <2>1, StakeUnchanged DEF stakingVars, Staked
  <2>4. OpsInv'
    BY <2>2, <2>3 DEF OpsInv
  <2> QED
    BY <2>2, <2>3, <2>4 DEF EachBehind
<1>3. ASSUME NEW fee \in Fees, CollectTransactionFee(fee)
      PROVE  OpsInv' /\ (EachBehind => EachBehind')
  <2>1. UNCHANGED stakingVars /\ UNCHANGED setVars
    BY <1>3 DEF CollectTransactionFee
  <2>2. OpsInv'
    BY <1>0, <2>1, StakeUnchanged, SetUnchanged DEF OpsInv
  <2>3. stakes' = stakes /\ members' = members
    BY <2>1 DEF stakingVars, setVars
  <2> QED
    BY <2>2, <2>3 DEF EachBehind, Staked, Members
<1>4. ASSUME EndCycle
      PROVE  OpsInv' /\ (EachBehind => EachBehind')
  <2>1. AdvanceCycle /\ ProcessUnbonding
    BY <1>4 DEF EndCycle
  <2>2. SetInv' /\ Members' = Members /\ \A x \in Members : members'[x].stake = members[x].stake
    BY <1>0, <2>1, CycleKeeps
  <2>3. StakeInv' /\ Staked' = Staked /\ \A x \in Staked : stakes'[x].total =< stakes[x].total
    BY <1>0, <2>1, ProcessKeeps
  <2>4. OpsInv'
    BY <2>2, <2>3 DEF OpsInv
  <2> QED
    BY <2>2, <2>3, <2>4, LowerStakes
<1>5. ASSUME NEW v \in Validators, NEW amount \in Withdrawals, RequestValidatorUnstake(v, amount)
      PROVE  OpsInv' /\ (EachBehind => EachBehind')
  <2>1. RequestUnstake(v, amount) /\ UNCHANGED setVars
    BY <1>5 DEF RequestValidatorUnstake
  <2>2. StakeInv' /\ Staked' = Staked /\ \A x \in Staked : stakes'[x].total = stakes[x].total
    BY <1>0, <2>1, RequestKeeps
  <2>3. SetInv' /\ members' = members /\ Members' = Members
    BY <1>0, <2>1, SetUnchanged DEF setVars, Members
  <2> QED
    BY <2>2, <2>3 DEF OpsInv, EachBehind
<1>6. ASSUME NEW v \in Validators, UnbondingPeriodEnds(v)
      PROVE  OpsInv' /\ (EachBehind => EachBehind')
  <2>1. PeriodEnds(v) /\ UNCHANGED setVars
    BY <1>6 DEF UnbondingPeriodEnds
  <2>2. StakeInv' /\ Staked' = Staked /\ \A x \in Staked : stakes'[x].total = stakes[x].total
    BY <1>0, <2>1, PeriodKeeps
  <2>3. SetInv' /\ members' = members /\ Members' = Members
    BY <1>0, <2>1, SetUnchanged DEF setVars, Members
  <2> QED
    BY <2>2, <2>3 DEF OpsInv, EachBehind
<1> QED
  BY <1>1, <1>2, <1>3, <1>4, <1>5, <1>6 DEF OpsNext

(* A node that reconfigures the set at the end of a cycle.                  *)
LEMMA CycleNextInv ==
  ASSUME OpsInv, CycleNext
  PROVE  OpsInv'
<1>0. StakeInv /\ SetInv
  BY DEF OpsInv
<1>1. ASSUME StakingStep
      PROVE  OpsInv'
  <2>1. StakingAction /\ UNCHANGED setVars
    BY <1>1 DEF StakingStep, StakingAction
  <2> QED
    BY <1>0, <2>1, StakingNextInv, SetUnchanged DEF OpsInv
<1>2. ASSUME SetStep
      PROVE  OpsInv'
  <2>1. UNCHANGED stakingVars
    BY <1>2 DEF SetStep
  <2>2. StakeInv'
    BY <1>0, <2>1, StakeUnchanged
  <2>3. ASSUME NEW v \in Validators, NEW stake \in Stakes, AddValidator(v, stake)
        PROVE  SetInv'
    <3>1. stake \in Nat
      BY CycleEndAssumption
    <3> QED
      BY <1>0, <2>3, <3>1, AddKeeps
  <2>4. ASSUME NEW v \in Validators, RemoveValidator(v)
        PROVE  SetInv'
    BY <1>0, <2>4, RemoveMemberKeeps
  <2>5. ASSUME Clear
        PROVE  SetInv'
    BY <2>5, ClearKeeps
  <2> QED
    BY <1>2, <2>2, <2>3, <2>4, <2>5 DEF SetStep, OpsInv
<1>3. ASSUME ReconfigureAtCycleEnd
      PROVE  OpsInv'
  <2>1. UNCHANGED stakingVars
    BY <1>3 DEF ReconfigureAtCycleEnd
  <2>2. StakeInv'
    BY <1>0, <2>1, StakeUnchanged
  <2>3. PICK delegated \in [Validators -> Delegations] :
          Reconfigure(StakedValidators, {v \in Validators : MeetsMinimumStake(v)},
                      [v \in Validators |-> ActiveStake(v) + delegated[v]])
    BY <1>3 DEF ReconfigureAtCycleEnd
  <2>4. \A v \in Validators : ActiveStake(v) \in Nat /\ delegated[v] \in Nat
    BY <1>0, CycleEndAssumption, RecordOf DEF ActiveStake, StakeInv, Balanced, StakeRecordType
  <2>5. PICK stake \in [Validators -> Nat] :
          stake = [v \in Validators |-> ActiveStake(v) + delegated[v]]
    <3>1. \A v \in Validators : ActiveStake(v) + delegated[v] \in Nat
      BY <2>4
    <3> QED
      BY <3>1
  <2>6. SetInv'
    BY <1>0, <2>3, <2>5, ReconfigureKeeps
  <2> QED
    BY <2>2, <2>6 DEF OpsInv
<1> QED
  BY <1>1, <1>2, <1>3 DEF CycleNext

-----------------------------------------------------------------------------
(***************************************************************************)
(* Rewards.  Each share of the fees is cut off, so together they are at    *)
(* most the fees, whatever the stakes are and whoever took part.           *)
(***************************************************************************)
FeesInv ==
  /\ totalFees \in Nat /\ collected \in Nat /\ paid \in [Validators -> Nat]
  /\ Total(paid, Validators) + totalFees =< collected

StakesIn(infos) == [w \in DOMAIN infos |-> infos[w].stake]
Rewarded(infos) == [v \in DOMAIN infos |-> FinalReward(v, infos)]

LEMMA StakeInfos ==
  ASSUME NEW infos, \A v \in DOMAIN infos : infos[v].stake \in Nat
  PROVE  MapThenSumSet(LAMBDA w : infos[w].stake, DOMAIN infos) = Total(StakesIn(infos), DOMAIN infos)
<1> DEFINE D == DOMAIN infos
           body(it) == [s \in SUBSET D |->
                          IF s = {} THEN 0
                          ELSE LET x == CHOOSE x \in s : TRUE IN infos[x].stake + it[s \ {x}]]
           body2(it) == [s \in SUBSET D |->
                           IF s = {} THEN 0
                           ELSE LET x == CHOOSE x \in s : TRUE
                                IN  StakesIn(infos)[x] + it[s \ {x}]]
<1>1. MapThenSumSet(LAMBDA w : infos[w].stake, D) = (CHOOSE it : it = body(it))[D]
  BY DEF MapThenSumSet, MapThenFoldSet
<1>2. Total(StakesIn(infos), D) = (CHOOSE it : it = body2(it))[D]
  BY DEF Total, MapThenSumSet, MapThenFoldSet
<1>3. \A it : body(it) = body2(it)
  <2> SUFFICES ASSUME NEW it, NEW s \in SUBSET D, s # {}
               PROVE  infos[CHOOSE x \in s : TRUE].stake = StakesIn(infos)[CHOOSE x \in s : TRUE]
    OBVIOUS
  <2>1. (CHOOSE x \in s : TRUE) \in D
    OBVIOUS
  <2> QED
    BY <2>1 DEF StakesIn
<1> HIDE DEF body, body2
<1> QED
  BY <1>1, <1>2, <1>3

(* A penalty takes off a part of a share, of which one is left.             *)
LEMMA PenaltyBound ==
  ASSUME NEW base \in Nat
  PROVE  base - (base * PenaltyRate) \div 100 \in 0..base
<1>1. PenaltyRate \in Nat /\ PenaltyRate =< 100
  BY RewardsAssumption
<1>2. PICK m \in Nat : m = base * PenaltyRate
  BY <1>1
<1>3. PenaltyRate * base =< 100 * base
  BY <1>1, TimesMonotone
<1>4. m =< 100 * base
  BY <1>1, <1>2, <1>3
<1>5. m \div 100 \in 0..base
  BY <1>4
<1> QED
  BY <1>2, <1>5

LEMMA RewardsFit ==
  ASSUME NEW infos, DOMAIN infos \subseteq Validators, totalFees \in Nat,
         \A v \in DOMAIN infos : infos[v].stake \in Nat
  PROVE  /\ NatOn(Rewarded(infos), DOMAIN infos)
         /\ Total(Rewarded(infos), DOMAIN infos) \in Nat
         /\ Total(Rewarded(infos), DOMAIN infos) =< totalFees
<1>0. PICK fees \in Nat : fees = totalFees
  OBVIOUS
<1>1. PICK D, g, h : D = DOMAIN infos /\ g = StakesIn(infos) /\ h = Rewarded(infos)
  OBVIOUS
<1>2. IsFiniteSet(D)
  BY <1>1, ValidatorsAssumption, FS_Subset
<1>3. NatOn(g, D) /\ \A v \in D : g[v] = infos[v].stake
  BY <1>1 DEF NatOn, StakesIn
<1>4. PICK sum \in Nat : sum = Total(g, D)
  BY <1>2, <1>3, TotalNat
<1>5. MapThenSumSet(LAMBDA w : infos[w].stake, DOMAIN infos) = sum
  BY <1>1, <1>4, StakeInfos
<1>6. ASSUME NEW v \in D
      PROVE  /\ h[v] \in Nat
             /\ h[v] =< (IF sum = 0 THEN 0 ELSE (fees * g[v]) \div sum)
             /\ sum # 0 => h[v] * sum =< fees * g[v]
  <2>1. PICK s \in Nat : s = g[v] /\ s = infos[v].stake
    BY <1>3 DEF NatOn
  <2>2. PICK base : base = IF sum = 0 THEN 0 ELSE (fees * s) \div sum
    OBVIOUS
  <2>3. PICK whole \in Nat : whole = fees * s
    OBVIOUS
  <2>4. base \in Nat /\ (sum # 0 => base * sum =< whole)
    BY <2>2, <2>3, DivisionBound
  <2>5. h[v] = base - (IF TooLittle(infos[v]) THEN (base * PenaltyRate) \div 100 ELSE 0)
    BY <1>0, <1>1, <1>5, <2>1, <2>2 DEF Rewarded, FinalReward
  <2>6. h[v] \in Nat /\ h[v] =< base
    BY <2>4, <2>5, PenaltyBound
  <2>7. sum # 0 => h[v] * sum =< whole
    <3> SUFFICES ASSUME sum # 0 PROVE h[v] * sum =< whole
      OBVIOUS
    <3>1. PICK m \in Nat : m = base * sum
      BY <2>4
    <3>2. h[v] * sum \in Nat /\ h[v] * sum =< m
      BY <2>4, <2>6, <3>1, TimesMonotone
    <3> QED
      BY <2>3, <2>4, <3>1, <3>2
  <2> QED
    BY <2>1, <2>2, <2>3, <2>6, <2>7
<1>7. NatOn(h, D)
  BY <1>6 DEF NatOn
<1>8. Total(h, D) \in Nat
  BY <1>2, <1>7, TotalNat
<1>9. Total(h, D) =< fees
  <2>1. CASE sum = 0
    <3>1. \A v \in D : h[v] = 0
      BY <1>6, <2>1
    <3>2. IntOn(h, D) /\ {} \in SUBSET D /\ \A v \in D \ {} : h[v] = 0
      BY <1>7, <3>1 DEF NatOn, IntOn
    <3>3. Total(h, D) = Total(h, {})
      BY <1>2, <3>2, TotalOutside
    <3> QED
      BY <3>3, TotalEmpty
  <2>2. CASE sum # 0
    <3>1. sum \in Nat \ {0} /\ \A v \in D : h[v] * sum =< fees * g[v]
      BY <1>6, <2>2
    <3> QED
      BY <1>2, <1>3, <1>4, <1>7, <3>1, SharesFit
  <2> QED
    BY <2>1, <2>2
<1> QED
  BY <1>0, <1>1, <1>7, <1>8, <1>9

LEMMA DistributeKeeps ==
  ASSUME FeesInv, NEW infos, DOMAIN infos \subseteq Validators,
         \A v \in DOMAIN infos : infos[v].stake \in Nat, Distribute(infos)
  PROVE  FeesInv'
<1>1. /\ totalFees' = 0 /\ collected' = collected
      /\ paid' = [v \in Validators |->
                    paid[v] + IF v \in DOMAIN infos THEN FinalReward(v, infos) ELSE 0]
  BY DEF Distribute, Pay
<1>2. PICK D, h, old : D = DOMAIN infos /\ h = Rewarded(infos) /\ old = paid
  OBVIOUS
<1>a. D \in SUBSET Validators /\ old \in [Validators -> Nat]
  BY <1>2 DEF FeesInv
<1>3. NatOn(h, D) /\ Total(h, D) \in Nat /\ Total(h, D) =< totalFees
  BY <1>2, RewardsFit DEF FeesInv
<1>4. PICK more : more = [v \in Validators |-> IF v \in D THEN h[v] ELSE 0]
  OBVIOUS
<1>5. more \in [Validators -> Nat] /\ IntOn(more, Validators)
  BY <1>3, <1>4 DEF NatOn, IntOn
<1>6. \A v \in Validators : paid'[v] = old[v] + more[v]
  BY <1>1, <1>2, <1>4 DEF Rewarded
<1>7. PICK new \in [Validators -> Nat] : new = paid'
  BY <1>1, <1>2, <1>a, <1>5, <1>6
<1>8. \A v \in Validators : old[v] = new[v] - more[v]
  BY <1>a, <1>5, <1>6, <1>7
<1>9. IsFiniteSet(Validators) /\ NatOn(old, Validators) /\ IntOn(new, Validators)
      /\ NatOn(new, Validators)
  BY <1>a, ValidatorsAssumption DEF NatOn, IntOn
<1>10. Total(old, Validators) = Total(new, Validators) - Total(more, Validators)
  BY <1>5, <1>8, <1>9, TotalMinus
<1>11. Total(more, Validators) = Total(h, D)
  <2>1. \A v \in Validators \ D : more[v] = 0
    BY <1>4
  <2>2. Total(more, Validators) = Total(more, D)
    BY <1>a, <1>5, <1>9, <2>1, TotalOutside
  <2>3. IsFiniteSet(D) /\ IntOn(more, D) /\ \A v \in D : more[v] = h[v]
    BY <1>a, <1>4, <1>5, <1>9, FS_Subset DEF IntOn
  <2>4. Total(more, D) = Total(h, D)
    BY <2>3, TotalSame
  <2> QED
    BY <2>2, <2>4
<1>12. PICK a \in Nat, b \in Nat, c \in Nat :
         a = Total(old, Validators) /\ b = Total(new, Validators) /\ c = Total(h, D)
  BY <1>3, <1>9, TotalNat
<1>13. b = a + c
  BY <1>10, <1>11, <1>12
<1>14. b =< collected
  BY <1>2, <1>3, <1>12, <1>13 DEF FeesInv
<1> QED
  BY <1>1, <1>7, <1>12, <1>14 DEF FeesInv

LEMMA CollectKeeps ==
  ASSUME FeesInv, NEW fee \in Fees, CollectFee(fee)
  PROVE  FeesInv'
<1>1. fee \in Nat /\ FeeCap \in Nat
  BY RewardsAssumption
<1>2. PICK sum \in Nat : sum = totalFees + fee
  BY <1>1 DEF FeesInv
<1>3. Min({sum, FeeCap}) \in Nat /\ Min({sum, FeeCap}) =< sum
  BY <1>1, <1>2 DEF Min
<1>4. totalFees' = Min({sum, FeeCap}) /\ collected' = collected + fee /\ paid' = paid
  BY <1>2 DEF CollectFee
<1>5. Total(paid, Validators) \in Nat
  BY ValidatorsAssumption, TotalNat DEF FeesInv, NatOn
<1>6. PICK a \in Nat, t \in Nat, n \in Nat :
        a = Total(paid, Validators) /\ t = totalFees' /\ n = collected
  BY <1>3, <1>4, <1>5 DEF FeesInv
<1>7. a + totalFees =< n
  BY <1>6 DEF FeesInv
<1>8. a + t =< n + fee
  BY <1>1, <1>2, <1>3, <1>4, <1>6, <1>7 DEF FeesInv
<1>9. paid' \in [Validators -> Nat] /\ totalFees' \in Nat /\ collected' \in Nat
  BY <1>1, <1>3, <1>4 DEF FeesInv
<1> QED
  BY <1>4, <1>6, <1>8, <1>9 DEF FeesInv

LEMMA FeesInitInv == RewardsInit => FeesInv
<1> SUFFICES ASSUME RewardsInit PROVE FeesInv
  OBVIOUS
<1>1. paid \in [Validators -> Nat] /\ \A v \in Validators : paid[v] = 0
  BY DEF RewardsInit
<1>2. IntOn(paid, Validators) /\ IsFiniteSet(Validators)
  BY <1>1, ValidatorsAssumption DEF IntOn
<1>3. Total(paid, Validators) = Total(paid, {})
  BY <1>1, <1>2, TotalOutside
<1>4. Total(paid, Validators) = 0
  BY <1>3, TotalEmpty
<1> QED
  BY <1>1, <1>4 DEF RewardsInit, FeesInv

LEMMA FeesInvSuffices == FeesInv => FeesPaidOnce
<1> DEFINE body(it) == [s \in SUBSET Validators |->
                          IF s = {} THEN 0
                          ELSE LET x == CHOOSE x \in s : TRUE IN paid[x] + it[s \ {x}]]
<1>1. MapThenSumSet(LAMBDA v : paid[v], Validators) = Total(paid, Validators)
  BY DEF Total
<1> QED
  BY <1>1 DEF FeesInv, FeesPaidOnce

LEMMA FeesUnchanged == ASSUME FeesInv, UNCHANGED rewardVars PROVE FeesInv'
  BY DEF FeesInv, rewardVars

(* The rewards are those of the members, by their active stake.             *)
LEMMA FeesNextInv ==
  ASSUME OpsInv, FeesInv, OpsNext
  PROVE  FeesInv'
<1>1. ASSUME NEW fee \in Fees, CollectTransactionFee(fee)
      PROVE  FeesInv'
  BY <1>1, CollectKeeps DEF CollectTransactionFee
<1>2. ASSUME EndCycle
      PROVE  FeesInv'
  <2>1. PICK infos : infos = [v \in Members |-> [members[v] EXCEPT !.stake = ActiveStake(v)]]
    OBVIOUS
  <2>2. DOMAIN infos \subseteq Validators
    BY <2>1 DEF OpsInv, SetInv
  <2>3. ASSUME NEW v \in DOMAIN infos
        PROVE  infos[v].stake \in Nat
    <3>1. PICK info \in MemberType : info = members[v]
      BY <2>1 DEF OpsInv, SetInv
    <3>2. ActiveStake(v) \in Nat
      BY RecordOf DEF ActiveStake, OpsInv, StakeInv, Balanced, StakeRecordType
    <3>3. infos[v] = [info EXCEPT !.stake = ActiveStake(v)]
      BY <2>1, <3>1
    <3>4. infos[v].stake = ActiveStake(v)
      BY <3>3 DEF MemberType
    <3> QED
      BY <3>2, <3>4
  <2>4. Distribute(infos)
    BY <1>2, <2>1 DEF EndCycle
  <2> QED
    BY <2>2, <2>3, <2>4, DistributeKeeps
<1>3. ASSUME NEW v \in Validators, NEW stake \in Deposits, NEW valid \in BOOLEAN,
             RegisterValidator(v, stake, valid)
      PROVE  FeesInv'
  BY <1>3, FeesUnchanged DEF RegisterValidator
<1>4. ASSUME NEW v \in Validators, NEW participated \in BOOLEAN,
             RecordSnapshotParticipation(v, participated)
      PROVE  FeesInv'
  BY <1>4, FeesUnchanged DEF RecordSnapshotParticipation
<1>5. ASSUME NEW v \in Validators, NEW amount \in Withdrawals, RequestValidatorUnstake(v, amount)
      PROVE  FeesInv'
  BY <1>5, FeesUnchanged DEF RequestValidatorUnstake
<1>6. ASSUME NEW v \in Validators, UnbondingPeriodEnds(v)
      PROVE  FeesInv'
  BY <1>6, FeesUnchanged DEF UnbondingPeriodEnds
<1> QED
  BY <1>1, <1>2, <1>3, <1>4, <1>5, <1>6 DEF OpsNext

-----------------------------------------------------------------------------
(***************************************************************************)
(* All of them, in the composition of the services that TLC checks: a      *)
(* service that is not exercised keeps its variables.                      *)
(***************************************************************************)
ServicesInv ==
  /\ OpsInv /\ FeesInv
  /\ service = "validator operations" => EachBehind

LEMMA ServicesInitInv == Init => ServicesInv
<1> SUFFICES ASSUME Init PROVE ServicesInv
  OBVIOUS
<1>1. StakingInit /\ SetInit /\ RewardsInit
  BY DEF Init, OpsInit
<1>2. Staked = {}
  BY <1>1 DEF StakingInit, Staked
<1> QED
  BY <1>1, <1>2, StakingInitInv, SetInitInv, FeesInitInv DEF ServicesInv, OpsInv, EachBehind

LEMMA OthersKeep ==
  ASSUME ServicesInv, UNCHANGED <<service, opsVars>>
  PROVE  ServicesInv'
<1>1. UNCHANGED stakingVars /\ UNCHANGED setVars /\ UNCHANGED rewardVars /\ service' = service
  BY DEF opsVars
<1>2. OpsInv' /\ FeesInv'
  BY <1>1, StakeUnchanged, SetUnchanged, FeesUnchanged DEF ServicesInv, OpsInv
<1>3. stakes' = stakes /\ members' = members
  BY <1>1 DEF stakingVars, setVars
<1> QED
  BY <1>1, <1>2, <1>3 DEF ServicesInv, EachBehind, Staked, Members

LEMMA ServicesNextInv == ServicesInv /\ [Next]_vars => ServicesInv'
<1> SUFFICES ASSUME ServicesInv, [Next]_vars PROVE ServicesInv'
  OBVIOUS
<1>1. CASE CycleEndStep
  <2>1. service = "cycle end" /\ service' = service /\ CycleNext
    BY <1>1 DEF CycleEndStep
  <2>2. OpsInv' /\ FeesInv'
    BY <1>1, <2>1, CycleNextInv, FeesUnchanged DEF ServicesInv, CycleEndStep
  <2> QED
    BY <2>1, <2>2 DEF ServicesInv
<1>2. CASE ValidatorOpsStep
  <2>1. service' = service /\ OpsNext
    BY <1>2 DEF ValidatorOpsStep
  <2>2. OpsInv' /\ (EachBehind => EachBehind') /\ FeesInv'
    BY <2>1, OpsNextInv, FeesNextInv DEF ServicesInv
  <2> QED
    BY <2>1, <2>2 DEF ServicesInv
<1>3. ASSUME \/ DelegationStep \/ SlashingStep \/ DowntimeStep \/ ActivationStep
             \/ KeyRotationStep \/ KeyStoreStep \/ CommissionStep \/ CommissionManagerStep
             \/ UpgradeStep \/ VersionActivationStep \/ CompatibilityStep \/ FlowGraphCacheStep
             \/ UNCHANGED vars
      PROVE  ServicesInv'
  <2>1. UNCHANGED <<service, opsVars>>
    BY <1>3 DEF vars, DelegationStep, SlashingStep, DowntimeStep, ActivationStep, KeyRotationStep,
                KeyStoreStep, CommissionStep, CommissionManagerStep, UpgradeStep,
                VersionActivationStep, CompatibilityStep, FlowGraphCacheStep
  <2> QED
    BY <2>1, OthersKeep
<1> QED
  BY <1>1, <1>2, <1>3 DEF Next

LEMMA ServicesInductive == Spec => []ServicesInv
  BY ServicesInitInv, ServicesNextInv, PTL DEF Spec

(* Deposits, withdrawals and unbonding of any amounts, over any number of   *)
(* cycles: a record's total is its active stake plus what its requests will *)
(* release, and the manager's total is the sum of the records.              *)
THEOREM StakeIsConserved == Spec => []StakeConserved
<1>1. ServicesInv => StakeConserved
  BY StakeInvSuffices DEF ServicesInv, OpsInv
<1> QED
  BY <1>1, ServicesInductive, PTL

(* The tier changes that were recorded lead from Bronze, without a break,   *)
(* to the tier of the active stake, for any tiers and amounts.              *)
THEOREM TiersAreExplained == Spec => []TiersExplained
<1>1. ServicesInv => TiersExplained
  BY StakeInvSuffices DEF ServicesInv, OpsInv
<1> QED
  BY <1>1, ServicesInductive, PTL

(* The total is the sum of the votes through joining, leaving, clearing and *)
(* reconfiguration, so no two disjoint groups both have a quorum.           *)
THEOREM QuorumsAlwaysIntersect == Spec => []QuorumsIntersect
<1>1. ServicesInv => QuorumsIntersect
  BY SetInvSuffices DEF ServicesInv, OpsInv
<1> QED
  BY <1>1, ServicesInductive, PTL

(* Registration that fails in the middle, withdrawals and the end of a      *)
(* cycle leave no stake behind that no vote stands for.                     *)
THEOREM StakeStaysBehindMembers == Spec => []OpsStakeBehindMembers
<1>1. ServicesInv => OpsStakeBehindMembers
  BY BehindSuffices DEF ServicesInv, OpsStakeBehindMembers
<1> QED
  BY <1>1, ServicesInductive, PTL

(* However often fees are distributed, to members of any stakes and with    *)
(* any penalties, what was paid and what is left to distribute are together *)
(* at most what was collected.                                              *)
THEOREM FeesArePaidOnce == Spec => []FeesPaidOnce
<1>1. ServicesInv => FeesPaidOnce
  BY FeesInvSuffices DEF ServicesInv
<1> QED
  BY <1>1, ServicesInductive, PTL

-----------------------------------------------------------------------------
(***************************************************************************)
(* Delegation, for any delegators, amounts and rewards.  A pool's total is *)
(* the sum of its shares, and what all pools owe is at most what came in:  *)
(* every call keeps both, pool by pool, however the divisions cut off.     *)
(***************************************************************************)
DelegationSpec == DelegationInit /\ [][DelegationNext]_delegationVars

Share == [amount : Nat, rewards : Nat]
Undelegation == [amount : Nat, unbonded : BOOLEAN, rewards : Nat]
ShareTables == UNION {[D -> Share] : D \in {E \in SUBSET Delegators : IsFiniteSet(E)}}
PoolRecord == [total : Nat, isActive : BOOLEAN, isJailed : BOOLEAN,
               shares : ShareTables, requests : Seq(Undelegation)]

AmountsIn(shares) == [d \in DOMAIN shares |-> shares[d].amount]
WorthsIn(shares) == [d \in DOMAIN shares |-> shares[d].amount + shares[d].rewards]
SharesTotal(shares) == Total(AmountsIn(shares), DOMAIN shares)
SharesWorth(shares) == Total(WorthsIn(shares), DOMAIN shares)
NoneEmpty(shares) == \A d \in DOMAIN shares : shares[d].amount > 0

ReturnOf == [r \in Undelegation |-> r.amount + r.rewards]
Worth(pool) == SeqTotal(ReturnOf, pool.requests) + SharesWorth(pool.shares)

PoolSound(pool) ==
  /\ pool \in PoolRecord /\ NoneEmpty(pool.shares)
  /\ pool.total = SharesTotal(pool.shares) /\ pool.total =< MaxDelegated

Worths(ps) == [v \in DOMAIN ps |-> Worth(ps[v])]
AllWorth(ps) == Total(Worths(ps), DOMAIN ps)
PoolsSound(ps) == DOMAIN ps \subseteq Validators /\ \A v \in DOMAIN ps : PoolSound(ps[v])

DelegationInv == PoolsSound(pools) /\ funds \in Int /\ AllWorth(pools) =< funds

LEMMA TablesFacts ==
  ASSUME NEW shares \in ShareTables
  PROVE  /\ IsFiniteSet(DOMAIN shares) /\ DOMAIN shares \subseteq Delegators
         /\ \A d \in DOMAIN shares : shares[d] \in Share
         /\ NatOn(AmountsIn(shares), DOMAIN shares) /\ IntOn(AmountsIn(shares), DOMAIN shares)
         /\ NatOn(WorthsIn(shares), DOMAIN shares) /\ IntOn(WorthsIn(shares), DOMAIN shares)
         /\ SharesTotal(shares) \in Nat /\ SharesWorth(shares) \in Nat
<1>1. PICK D \in {E \in SUBSET Delegators : IsFiniteSet(E)} : shares \in [D -> Share]
  BY DEF ShareTables
<1>2. DOMAIN shares = D /\ \A d \in D : shares[d] \in Share
  BY <1>1
<1>3. NatOn(AmountsIn(shares), D) /\ NatOn(WorthsIn(shares), D)
  BY <1>2 DEF NatOn, AmountsIn, WorthsIn, Share
<1>4. IntOn(AmountsIn(shares), D) /\ IntOn(WorthsIn(shares), D)
  BY <1>3 DEF NatOn, IntOn
<1>5. SharesTotal(shares) \in Nat /\ SharesWorth(shares) \in Nat
  BY <1>1, <1>2, <1>3, TotalNat DEF SharesTotal, SharesWorth
<1> QED
  BY <1>1, <1>2, <1>3, <1>4, <1>5

LEMMA ReturnsFacts ==
  /\ NatOn(ReturnOf, Undelegation) /\ IntOn(ReturnOf, Undelegation)
  /\ \A list \in Seq(Undelegation) : SeqTotal(ReturnOf, list) \in Nat
<1>1. NatOn(ReturnOf, Undelegation) /\ IntOn(ReturnOf, Undelegation)
  BY DEF NatOn, IntOn, ReturnOf, Undelegation
<1> QED
  BY <1>1, SeqTotalNat

LEMMA WorthNat ==
  ASSUME NEW pool \in PoolRecord
  PROVE  /\ SeqTotal(ReturnOf, pool.requests) \in Nat /\ SharesWorth(pool.shares) \in Nat
         /\ Worth(pool) \in Nat /\ pool.shares \in ShareTables
         /\ pool.requests \in Seq(Undelegation)
<1>1. pool.shares \in ShareTables /\ pool.requests \in Seq(Undelegation)
  BY DEF PoolRecord
<1>2. SeqTotal(ReturnOf, pool.requests) \in Nat /\ SharesWorth(pool.shares) \in Nat
  BY <1>1, TablesFacts, ReturnsFacts
<1> QED
  BY <1>1, <1>2 DEF Worth

(* A share is put into a table, in place of the old one or as a new one.    *)
LEMMA SharePut ==
  ASSUME NEW shares \in ShareTables, NEW d \in Delegators, NEW share \in Share, NEW table,
         table = [x \in DOMAIN shares \cup {d} |-> IF x = d THEN share ELSE shares[x]],
         NEW old, old = IF d \in DOMAIN shares THEN shares[d] ELSE [amount |-> 0, rewards |-> 0]
  PROVE  /\ table \in ShareTables /\ old \in Share
         /\ SharesTotal(table) = SharesTotal(shares) - old.amount + share.amount
         /\ SharesWorth(table) = SharesWorth(shares) - (old.amount + old.rewards)
                                   + (share.amount + share.rewards)
<1>1. PICK D : D = DOMAIN shares
  OBVIOUS
<1>2. IsFiniteSet(D) /\ D \subseteq Delegators /\ \A x \in D : shares[x] \in Share
  BY <1>1, TablesFacts
<1>3. IsFiniteSet(D \cup {d}) /\ D \cup {d} \in SUBSET Delegators /\ DOMAIN table = D \cup {d}
  BY <1>1, <1>2, FS_AddElement
<1>4. table \in [D \cup {d} -> Share]
  BY <1>1, <1>2
<1>5. table \in ShareTables
  BY <1>3, <1>4 DEF ShareTables
<1>6. old \in Share
  BY <1>1, <1>2 DEF Share
<1>7. PICK a, b, p, q : /\ a = AmountsIn(shares) /\ b = AmountsIn(table)
                        /\ p = WorthsIn(shares) /\ q = WorthsIn(table)
  OBVIOUS
<1>8. IntOn(a, D) /\ IntOn(p, D)
  BY <1>1, <1>7, TablesFacts
<1>9. /\ b[d] = share.amount /\ q[d] = share.amount + share.rewards
      /\ \A x \in D : x # d => b[x] = a[x] /\ q[x] = p[x]
  BY <1>1, <1>3, <1>7 DEF AmountsIn, WorthsIn
<1>10. /\ share.amount \in Int /\ share.rewards \in Int
       /\ share.amount + share.rewards \in Int
       /\ old.amount \in Int /\ old.rewards \in Int /\ old.amount + old.rewards \in Int
  BY <1>6 DEF Share
<1>11. /\ d \in D => Total(b, D \cup {d}) = Total(a, D) - a[d] + b[d]
       /\ d \notin D => Total(b, D \cup {d}) = Total(a, D) + b[d]
  <2>1. b[d] \in Int /\ \A x \in D : x # d => b[x] = a[x]
    BY <1>9, <1>10
  <2>2. IsFiniteSet(D) /\ IntOn(a, D)
    BY <1>2, <1>8
  <2>3. ASSUME d \in D PROVE Total(b, D \cup {d}) = Total(a, D) - a[d] + b[d]
    BY <2>1, <2>2, <2>3, TotalPut
  <2>4. ASSUME d \notin D PROVE Total(b, D \cup {d}) = Total(a, D) + b[d]
    BY <2>1, <2>2, <2>4, TotalPut
  <2> QED
    BY <2>3, <2>4
<1>12. /\ d \in D => Total(q, D \cup {d}) = Total(p, D) - p[d] + q[d]
       /\ d \notin D => Total(q, D \cup {d}) = Total(p, D) + q[d]
  <2>1. q[d] \in Int /\ \A x \in D : x # d => q[x] = p[x]
    BY <1>9, <1>10
  <2>2. IsFiniteSet(D) /\ IntOn(p, D)
    BY <1>2, <1>8
  <2>3. ASSUME d \in D PROVE Total(q, D \cup {d}) = Total(p, D) - p[d] + q[d]
    BY <2>1, <2>2, <2>3, TotalPut
  <2>4. ASSUME d \notin D PROVE Total(q, D \cup {d}) = Total(p, D) + q[d]
    BY <2>1, <2>2, <2>4, TotalPut
  <2> QED
    BY <2>3, <2>4
<1>13. /\ d \in D => a[d] = old.amount /\ p[d] = old.amount + old.rewards
       /\ d \notin D => old.amount = 0 /\ old.rewards = 0
  BY <1>1, <1>7 DEF AmountsIn, WorthsIn
<1>14. Total(a, D) \in Int /\ Total(p, D) \in Int
  BY <1>2, <1>8, TotalInt
<1>15. Total(b, D \cup {d}) = Total(a, D) - old.amount + share.amount
  BY <1>9, <1>10, <1>11, <1>13, <1>14
<1>16. Total(q, D \cup {d}) = Total(p, D) - (old.amount + old.rewards)
                                + (share.amount + share.rewards)
  BY <1>9, <1>10, <1>12, <1>13, <1>14
<1> QED
  BY <1>1, <1>3, <1>5, <1>6, <1>7, <1>15, <1>16 DEF SharesTotal, SharesWorth

(* A share is taken out of a table.                                         *)
LEMMA ShareRemoved ==
  ASSUME NEW shares \in ShareTables, NEW d \in DOMAIN shares, NEW table,
         table = [x \in DOMAIN shares \ {d} |-> shares[x]]
  PROVE  /\ table \in ShareTables
         /\ SharesTotal(table) = SharesTotal(shares) - shares[d].amount
         /\ SharesWorth(table) = SharesWorth(shares) - (shares[d].amount + shares[d].rewards)
<1>1. PICK D : D = DOMAIN shares
  OBVIOUS
<1>2. IsFiniteSet(D) /\ D \subseteq Delegators /\ \A x \in D : shares[x] \in Share
  BY <1>1, TablesFacts
<1>3. IsFiniteSet(D \ {d}) /\ D \ {d} \in SUBSET Delegators /\ DOMAIN table = D \ {d}
  BY <1>1, <1>2, FS_Subset
<1>4. table \in [D \ {d} -> Share]
  BY <1>1, <1>2
<1>5. table \in ShareTables
  BY <1>3, <1>4 DEF ShareTables
<1>6. PICK a, b, p, q : /\ a = AmountsIn(shares) /\ b = AmountsIn(table)
                        /\ p = WorthsIn(shares) /\ q = WorthsIn(table)
  OBVIOUS
<1>7. IntOn(a, D) /\ IntOn(p, D)
  BY <1>1, <1>6, TablesFacts
<1>8. \A x \in D \ {d} : a[x] = b[x] /\ p[x] = q[x]
  BY <1>1, <1>3, <1>6 DEF AmountsIn, WorthsIn
<1>9. IntOn(a, D \ {d}) /\ IntOn(p, D \ {d})
  BY <1>7 DEF IntOn
<1>10. Total(a, D \ {d}) = Total(b, D \ {d}) /\ Total(p, D \ {d}) = Total(q, D \ {d})
  BY <1>3, <1>8, <1>9, TotalSame
<1>11. Total(a, D) = a[d] + Total(a, D \ {d}) /\ Total(p, D) = p[d] + Total(p, D \ {d})
  BY <1>1, <1>2, <1>7, TotalElement
<1>12. Total(a, D \ {d}) \in Int /\ Total(p, D \ {d}) \in Int
  BY <1>3, <1>9, TotalInt
<1>13. a[d] = shares[d].amount /\ p[d] = shares[d].amount + shares[d].rewards
  BY <1>6 DEF AmountsIn, WorthsIn
<1>14. a[d] \in Int /\ p[d] \in Int
  BY <1>1, <1>7 DEF IntOn
<1>15. Total(b, D \ {d}) = Total(a, D) - a[d] /\ Total(q, D \ {d}) = Total(p, D) - p[d]
  BY <1>10, <1>11, <1>12, <1>14
<1> QED
  BY <1>1, <1>3, <1>5, <1>6, <1>13, <1>15 DEF SharesTotal, SharesWorth

(* A pool with another total, other shares or other requests.               *)
PoolOf(pool, total, shares) == [pool EXCEPT !.total = total, !.shares = shares]

LEMMA PoolWith ==
  ASSUME NEW pool \in PoolRecord, NEW total \in Nat, NEW shares \in ShareTables, NEW new,
         new = PoolOf(pool, total, shares)
  PROVE  /\ new \in PoolRecord /\ new.total = total /\ new.shares = shares
         /\ new.requests = pool.requests
         /\ Worth(new) = SeqTotal(ReturnOf, pool.requests) + SharesWorth(shares)
<1>1. new \in PoolRecord
  BY DEF PoolRecord, PoolOf
<1>2. new.total = total /\ new.shares = shares /\ new.requests = pool.requests
  BY DEF PoolRecord, PoolOf
<1> QED
  BY <1>1, <1>2 DEF Worth

LEMMA PoolWithRequests ==
  ASSUME NEW pool, PoolSound(pool), NEW requests \in Seq(Undelegation), NEW new,
         new = [pool EXCEPT !.requests = requests]
  PROVE  /\ PoolSound(new) /\ new.requests = requests
         /\ Worth(new) = SeqTotal(ReturnOf, requests) + SharesWorth(pool.shares)
<1>1. pool \in PoolRecord
  BY DEF PoolSound
<1>2. new \in PoolRecord
  BY <1>1 DEF PoolRecord
<1>3. new.total = pool.total /\ new.shares = pool.shares /\ new.requests = requests
  BY <1>1 DEF PoolRecord
<1> QED
  BY <1>2, <1>3 DEF PoolSound, Worth

LEMMA PoolFacts ==
  ASSUME NEW pool, PoolSound(pool)
  PROVE  /\ pool \in PoolRecord /\ pool.total \in Nat /\ pool.shares \in ShareTables
         /\ pool.requests \in Seq(Undelegation) /\ Worth(pool) \in Nat
  BY WorthNat DEF PoolSound, PoolRecord

LEMMA AddedSound ==
  ASSUME NEW pool, PoolSound(pool), NEW d \in Delegators, NEW amount \in Nat, amount > 0,
         pool.total + amount =< MaxDelegated
  PROVE  PoolSound(Added(pool, d, amount)) /\ Worth(Added(pool, d, amount)) = Worth(pool) + amount
<1>1. /\ pool \in PoolRecord /\ pool.total \in Nat /\ pool.shares \in ShareTables
      /\ pool.total = SharesTotal(pool.shares) /\ NoneEmpty(pool.shares)
  BY PoolFacts DEF PoolSound
<1>2. PICK shares \in ShareTables : shares = pool.shares
  BY <1>1
<1>3. PICK old : old = IF d \in DOMAIN shares THEN shares[d] ELSE [amount |-> 0, rewards |-> 0]
  OBVIOUS
<1>4. old \in Share
  BY <1>3, TablesFacts DEF Share
<1>5. PICK share : share = [old EXCEPT !.amount = @ + amount]
  OBVIOUS
<1>6. share \in Share /\ share.amount = old.amount + amount /\ share.rewards = old.rewards
  BY <1>4, <1>5 DEF Share
<1>7. PICK table : table = [x \in DOMAIN shares \cup {d} |-> IF x = d THEN share ELSE shares[x]]
  OBVIOUS
<1>8. /\ table \in ShareTables
      /\ SharesTotal(table) = SharesTotal(shares) - old.amount + share.amount
      /\ SharesWorth(table) = SharesWorth(shares) - (old.amount + old.rewards)
                                + (share.amount + share.rewards)
  BY <1>3, <1>6, <1>7, SharePut
<1>9. PICK new : new = [pool EXCEPT !.total = pool.total + amount, !.shares = table]
  OBVIOUS
<1>10. Added(pool, d, amount) = new
  BY <1>2, <1>3, <1>5, <1>7, <1>9 DEF Added
<1>11. /\ new \in PoolRecord /\ new.total = pool.total + amount /\ new.shares = table
       /\ Worth(new) = SeqTotal(ReturnOf, pool.requests) + SharesWorth(table)
  <2>1. PICK total \in Nat : total = pool.total + amount
    BY <1>1
  <2>2. new = PoolOf(pool, total, table)
    BY <1>9, <2>1 DEF PoolOf
  <2>3. pool \in PoolRecord /\ table \in ShareTables
    BY <1>1, <1>8
  <2>4. /\ new \in PoolRecord /\ new.total = total /\ new.shares = table
        /\ Worth(new) = SeqTotal(ReturnOf, pool.requests) + SharesWorth(table)
    BY <2>3, <2>2, PoolWith
  <2> QED
    BY <2>1, <2>4
<1>12. old.amount \in Nat /\ old.rewards \in Nat
  BY <1>4 DEF Share
<1>13. SharesTotal(shares) \in Nat /\ SharesWorth(shares) \in Nat
  BY TablesFacts
<1>14. SharesTotal(table) = SharesTotal(shares) + amount
       /\ SharesWorth(table) = SharesWorth(shares) + amount
  BY <1>6, <1>8, <1>12, <1>13
<1>15. NoneEmpty(table)
  <2>1. share.amount > 0
    BY <1>6, <1>12
  <2> QED
    BY <1>1, <1>2, <1>7, <2>1 DEF NoneEmpty
<1>16. PoolSound(new)
  BY <1>1, <1>2, <1>11, <1>14, <1>15 DEF PoolSound
<1>17. Worth(new) = Worth(pool) + amount
  <2>1. /\ Worth(pool) = SeqTotal(ReturnOf, pool.requests) + SharesWorth(shares)
        /\ SeqTotal(ReturnOf, pool.requests) \in Nat
    BY <1>1, <1>2, WorthNat DEF Worth
  <2> QED
    BY <1>11, <1>13, <1>14, <2>1
<1> QED
  BY <1>10, <1>16, <1>17

(* What goes with an amount is a part of the rewards of the share.          *)
LEMMA RewardShareBound ==
  ASSUME NEW share \in Share, share.amount > 0, NEW amount \in Nat, amount =< share.amount
  PROVE  /\ RewardShare(share, amount) \in Nat /\ RewardShare(share, amount) =< share.rewards
         /\ amount = share.amount => RewardShare(share, amount) = share.rewards
<1>1. PICK a \in Nat, r \in Nat : a = share.amount /\ r = share.rewards
  BY DEF Share
<1>2. CASE amount = a
  BY <1>1, <1>2 DEF RewardShare
<1>3. CASE amount # a
  <2>1. PICK m \in Nat : m = r * amount
    OBVIOUS
  <2>2. m \div a \in Nat /\ (m \div a) * a =< m
    BY <1>1, DivisionBound
  <2>3. amount * r =< a * r
    BY <1>1, TimesMonotone
  <2>4. amount * r = m
    BY <2>1
  <2>5. PICK n \in Nat : n = r * a
    OBVIOUS
  <2>6. a * r = n
    BY <2>5
  <2>7. (m \div a) * a =< r * a
    BY <2>2, <2>3, <2>4, <2>5, <2>6
  <2>8. m \div a =< r
    BY <1>1, <2>2, <2>7, TimesCancels
  <2>9. RewardShare(share, amount) = m \div a
    BY <1>1, <1>3, <2>1 DEF RewardShare
  <2> QED
    BY <1>1, <1>3, <2>2, <2>8, <2>9
<1> QED
  BY <1>2, <1>3

LEMMA TakenOutSound ==
  ASSUME NEW pool, PoolSound(pool), NEW d \in DOMAIN pool.shares, NEW amount \in Nat,
         amount =< pool.shares[d].amount, NEW rewards,
         rewards = RewardShare(pool.shares[d], amount)
  PROVE  /\ PoolSound(TakenOut(pool, d, amount)) /\ rewards \in Nat
         /\ Worth(TakenOut(pool, d, amount)) = Worth(pool) - (amount + rewards)
         /\ TakenOut(pool, d, amount).requests = pool.requests
<1>1. /\ pool \in PoolRecord /\ pool.total \in Nat /\ pool.shares \in ShareTables
      /\ pool.total = SharesTotal(pool.shares) /\ NoneEmpty(pool.shares)
      /\ pool.total =< MaxDelegated
  BY PoolFacts DEF PoolSound
<1>2. PICK shares \in ShareTables : shares = pool.shares
  BY <1>1
<1>3. PICK old \in Share : old = shares[d]
  BY <1>2, TablesFacts
<1>4. old.amount \in Nat /\ old.rewards \in Nat /\ old.amount > 0 /\ amount =< old.amount
      /\ d \in Delegators
  BY <1>1, <1>2, <1>3, TablesFacts DEF Share, NoneEmpty
<1>5. /\ rewards \in Nat /\ rewards =< old.rewards /\ rewards = RewardShare(old, amount)
      /\ amount = old.amount => rewards = old.rewards
  BY <1>2, <1>3, <1>4, RewardShareBound
<1>6. PICK rest : rest = [amount |-> old.amount - amount, rewards |-> old.rewards - rewards]
  OBVIOUS
<1>7. rest \in Share /\ rest.amount = old.amount - amount /\ rest.rewards = old.rewards - rewards
  BY <1>4, <1>5, <1>6 DEF Share
<1>8. PICK table : table = [x \in {y \in DOMAIN shares : y # d \/ rest.amount > 0} |->
                              IF x = d THEN rest ELSE shares[x]]
  OBVIOUS
<1>9. SharesTotal(shares) \in Nat /\ SharesWorth(shares) \in Nat
  BY TablesFacts
<1>10. /\ table \in ShareTables /\ NoneEmpty(table)
       /\ SharesTotal(table) = SharesTotal(shares) - amount
       /\ SharesWorth(table) = SharesWorth(shares) - (amount + rewards)
  <2>1. CASE rest.amount > 0
    <3>1. table = [x \in DOMAIN shares \cup {d} |-> IF x = d THEN rest ELSE shares[x]]
      <4>1. {y \in DOMAIN shares : y # d \/ rest.amount > 0} = DOMAIN shares \cup {d}
        BY <1>2, <2>1
      <4> QED
        BY <1>8, <4>1
    <3>2. old = IF d \in DOMAIN shares THEN shares[d] ELSE [amount |-> 0, rewards |-> 0]
      BY <1>2, <1>3
    <3>3. /\ table \in ShareTables
          /\ SharesTotal(table) = SharesTotal(shares) - old.amount + rest.amount
          /\ SharesWorth(table) = SharesWorth(shares) - (old.amount + old.rewards)
                                    + (rest.amount + rest.rewards)
      BY <1>4, <1>7, <3>1, <3>2, SharePut
    <3>4. NoneEmpty(table)
      BY <1>1, <1>2, <2>1, <3>1 DEF NoneEmpty
    <3> QED
      BY <1>4, <1>5, <1>7, <1>9, <3>3, <3>4
  <2>2. CASE ~(rest.amount > 0)
    <3>1. amount = old.amount /\ rewards = old.rewards
      BY <1>4, <1>5, <1>7, <2>2
    <3>2. table = [x \in DOMAIN shares \ {d} |-> shares[x]]
      <4>1. {y \in DOMAIN shares : y # d \/ rest.amount > 0} = DOMAIN shares \ {d}
        BY <2>2
      <4> QED
        BY <1>8, <4>1
    <3>3. /\ table \in ShareTables
          /\ SharesTotal(table) = SharesTotal(shares) - old.amount
          /\ SharesWorth(table) = SharesWorth(shares) - (old.amount + old.rewards)
      BY <1>2, <1>3, <3>2, ShareRemoved
    <3>4. NoneEmpty(table)
      BY <1>1, <1>2, <3>2 DEF NoneEmpty
    <3> QED
      BY <3>1, <3>3, <3>4
  <2> QED
    BY <2>1, <2>2
<1>11. PICK new : new = [pool EXCEPT !.total = pool.total - amount, !.shares = table]
  OBVIOUS
<1>12. TakenOut(pool, d, amount) = new
  BY <1>2, <1>3, <1>5, <1>6, <1>8, <1>11 DEF TakenOut
<1>13. pool.total - amount \in Nat
  <2>1. SharesTotal(table) \in Nat
    BY <1>10, TablesFacts
  <2> QED
    BY <1>1, <1>2, <1>10, <2>1
<1>14. /\ new \in PoolRecord /\ new.total = pool.total - amount /\ new.shares = table
       /\ new.requests = pool.requests
       /\ Worth(new) = SeqTotal(ReturnOf, pool.requests) + SharesWorth(table)
  <2>1. PICK total \in Nat : total = pool.total - amount
    BY <1>13
  <2>2. new = PoolOf(pool, total, table)
    BY <1>11, <2>1 DEF PoolOf
  <2>3. pool \in PoolRecord /\ table \in ShareTables
    BY <1>1, <1>10
  <2>4. /\ new \in PoolRecord /\ new.total = total /\ new.shares = table
        /\ new.requests = pool.requests
        /\ Worth(new) = SeqTotal(ReturnOf, pool.requests) + SharesWorth(table)
    BY <2>3, <2>2, PoolWith
  <2> QED
    BY <2>1, <2>4
<1>15. PoolSound(new)
  <2>1. new.total =< MaxDelegated
    BY <1>1, <1>14, DelegationAssumption
  <2> QED
    BY <1>1, <1>2, <1>10, <1>14, <2>1 DEF PoolSound
<1>16. Worth(new) = Worth(pool) - (amount + rewards)
  <2>1. /\ Worth(pool) = SeqTotal(ReturnOf, pool.requests) + SharesWorth(shares)
        /\ SeqTotal(ReturnOf, pool.requests) \in Nat
    BY <1>1, <1>2, WorthNat DEF Worth
  <2> QED
    BY <1>5, <1>9, <1>10, <1>14, <2>1
<1> QED
  BY <1>5, <1>12, <1>14, <1>15, <1>16

-----------------------------------------------------------------------------
(* A pool is put in place of another, or is new.                            *)
PoolsWith(ps, v, pool) == [x \in DOMAIN ps \cup {v} |-> IF x = v THEN pool ELSE ps[x]]

LEMMA WorthsFacts ==
  ASSUME NEW ps, PoolsSound(ps)
  PROVE  /\ IsFiniteSet(DOMAIN ps) /\ NatOn(Worths(ps), DOMAIN ps) /\ IntOn(Worths(ps), DOMAIN ps)
         /\ \A v \in DOMAIN ps : Worths(ps)[v] = Worth(ps[v])
         /\ AllWorth(ps) \in Nat
<1>1. IsFiniteSet(DOMAIN ps)
  BY ValidatorsAssumption, FS_Subset DEF PoolsSound
<1>2. \A v \in DOMAIN ps : Worths(ps)[v] = Worth(ps[v]) /\ Worth(ps[v]) \in Nat
  BY PoolFacts DEF Worths, PoolsSound
<1>3. NatOn(Worths(ps), DOMAIN ps) /\ IntOn(Worths(ps), DOMAIN ps)
  BY <1>2 DEF NatOn, IntOn
<1> QED
  BY <1>1, <1>2, <1>3, TotalNat DEF AllWorth

LEMMA NewPoolSound == PoolSound(NewPool) /\ Worth(NewPool) = 0
<1>1. << >> \in [{} -> Share] /\ << >> \in Seq(Undelegation) /\ DOMAIN << >> = {}
  OBVIOUS
<1>2. PICK none : none = << >> /\ none \in [{} -> Share] /\ DOMAIN none = {}
  BY <1>1
<1>3. IsFiniteSet({})
  BY FS_EmptySet
<1>4. none \in ShareTables
  BY <1>2, <1>3 DEF ShareTables
<1>5. SharesTotal(none) = 0 /\ SharesWorth(none) = 0
  BY <1>2, TotalEmpty DEF SharesTotal, SharesWorth
<1>6. SeqTotal(ReturnOf, << >>) = 0
  BY SeqTotalEmpty
<1>7. PICK list \in Seq(Undelegation) : list = << >>
  BY <1>1
<1>8. PICK pool : pool = [total |-> 0, isActive |-> TRUE, isJailed |-> FALSE, shares |-> none,
                          requests |-> list]
  OBVIOUS
<1>9. pool \in PoolRecord /\ pool.total = 0 /\ pool.shares = none /\ pool.requests = list
  BY <1>4, <1>8 DEF PoolRecord
<1>10. NewPool = pool
  BY <1>2, <1>7, <1>8 DEF NewPool
<1>11. PoolSound(pool)
  BY <1>2, <1>5, <1>9, DelegationAssumption DEF PoolSound, NoneEmpty
<1>12. Worth(pool) = 0
  BY <1>5, <1>6, <1>7, <1>9 DEF Worth
<1> QED
  BY <1>10, <1>11, <1>12

LEMMA PoolPut ==
  ASSUME NEW ps, PoolsSound(ps), NEW v \in Validators, NEW pool, PoolSound(pool),
         NEW old, old = IF v \in DOMAIN ps THEN ps[v] ELSE NewPool
  PROVE  /\ PoolsSound(PoolsWith(ps, v, pool)) /\ PoolSound(old)
         /\ AllWorth(PoolsWith(ps, v, pool)) = AllWorth(ps) - Worth(old) + Worth(pool)
<1>1. PICK qs : qs = PoolsWith(ps, v, pool)
  OBVIOUS
<1>2. PICK D : D = DOMAIN ps
  OBVIOUS
<1>3. DOMAIN qs = D \cup {v} /\ qs[v] = pool /\ \A x \in D : x # v => qs[x] = ps[x]
  BY <1>1, <1>2 DEF PoolsWith
<1>4. PoolsSound(qs)
  BY <1>2, <1>3 DEF PoolsSound
<1>5. PICK g, h : g = Worths(ps) /\ h = Worths(qs)
  OBVIOUS
<1>6. IsFiniteSet(D) /\ IntOn(g, D)
  BY <1>2, <1>5, WorthsFacts
<1>7. Worth(pool) \in Nat
  BY PoolFacts
<1>8. h[v] = Worth(pool) /\ h[v] \in Int
  BY <1>3, <1>5, <1>7 DEF Worths
<1>9. \A x \in D : x # v => h[x] = g[x]
  BY <1>2, <1>3, <1>5 DEF Worths
<1>10. PoolSound(old)
  BY <1>2, NewPoolSound DEF PoolsSound
<1>11. Total(g, D) \in Int
  BY <1>6, TotalInt
<1>12. Total(h, D \cup {v}) = Total(g, D) - Worth(old) + h[v]
  <2>1. CASE v \in D
    <3>1. Total(h, D \cup {v}) = Total(g, D) - g[v] + h[v]
      BY <1>6, <1>8, <1>9, <2>1, TotalPut
    <3>2. g[v] = Worth(old)
      BY <1>2, <1>5, <2>1 DEF Worths
    <3> QED
      BY <3>1, <3>2
  <2>2. CASE v \notin D
    <3>1. Total(h, D \cup {v}) = Total(g, D) + h[v]
      BY <1>6, <1>8, <1>9, <2>2, TotalPut
    <3>2. Worth(old) = 0
      BY <1>2, <2>2, NewPoolSound
    <3> QED
      BY <1>8, <1>11, <3>1, <3>2
  <2> QED
    BY <2>1, <2>2
<1> QED
  BY <1>1, <1>2, <1>3, <1>4, <1>5, <1>8, <1>10, <1>12 DEF AllWorth

(* The pool of a validator, and what calls do with it.                      *)
LEMMA PoolOfValidator ==
  ASSUME PoolsSound(pools), NEW v
  PROVE  /\ PoolSound(Pool(v))
         /\ Pool(v) = IF v \in DOMAIN pools THEN pools[v] ELSE NewPool
  BY NewPoolSound DEF Pool, PoolsSound

LEMMA SetPoolSound ==
  ASSUME PoolsSound(pools), NEW v \in Validators, NEW pool, PoolSound(pool), SetPool(v, pool)
  PROVE  PoolsSound(pools)' /\ AllWorth(pools') = AllWorth(pools) - Worth(Pool(v)) + Worth(pool)
<1>1. pools' = PoolsWith(pools, v, pool)
  BY DEF SetPool, PoolsWith
<1>2. PICK ps : ps = pools
  OBVIOUS
<1>3. PICK old : old = Pool(v)
  OBVIOUS
<1>4. old = IF v \in DOMAIN ps THEN ps[v] ELSE NewPool
  BY <1>2, <1>3, PoolOfValidator
<1>5. PoolsSound(ps)
  BY <1>2
<1>6. /\ PoolsSound(PoolsWith(ps, v, pool))
      /\ AllWorth(PoolsWith(ps, v, pool)) = AllWorth(ps) - Worth(old) + Worth(pool)
  BY <1>4, <1>5, PoolPut
<1>7. PoolsSound(pools')
  BY <1>1, <1>2, <1>6
<1> QED
  BY <1>1, <1>2, <1>3, <1>6, <1>7 DEF PoolsSound

LEMMA DelegateKeeps ==
  ASSUME DelegationInv, NEW d \in Delegators, NEW v \in Validators, NEW amount \in Amounts,
         Delegate(d, v, amount)
  PROVE  DelegationInv'
<1>1. amount \in Nat /\ amount > 0
  BY DelegationAssumption DEF Delegate
<1>2. PICK pool : pool = Pool(v)
  OBVIOUS
<1>3. PoolSound(pool) /\ Worth(pool) \in Nat /\ AllWorth(pools) \in Nat
  BY <1>2, PoolOfValidator, PoolFacts, WorthsFacts DEF DelegationInv
<1>4. CASE Accepts(pool, amount)
  <2>1. SetPool(v, Added(pool, d, amount)) /\ funds' = funds + amount
    BY <1>2, <1>4 DEF Delegate
  <2>2. PoolSound(Added(pool, d, amount)) /\ Worth(Added(pool, d, amount)) = Worth(pool) + amount
    BY <1>1, <1>3, <1>4, AddedSound DEF Accepts
  <2>3. PoolsSound(pools)' /\ AllWorth(pools') = AllWorth(pools) - Worth(pool) + (Worth(pool) + amount)
    BY <1>2, <2>1, <2>2, SetPoolSound DEF DelegationInv
  <2>4. AllWorth(pools') =< funds' /\ funds' \in Int
    BY <1>1, <1>3, <2>1, <2>3 DEF DelegationInv
  <2> QED
    BY <2>3, <2>4 DEF DelegationInv, AllWorth, Worths, Worth
<1>5. CASE ~Accepts(pool, amount)
  <2>1. SetPool(v, pool) /\ funds' = funds
    BY <1>2, <1>5 DEF Delegate
  <2>2. PoolsSound(pools)' /\ AllWorth(pools') = AllWorth(pools) - Worth(pool) + Worth(pool)
    BY <1>2, <1>3, <2>1, SetPoolSound DEF DelegationInv
  <2>3. AllWorth(pools') =< funds' /\ funds' \in Int
    BY <1>3, <2>1, <2>2 DEF DelegationInv
  <2> QED
    BY <2>2, <2>3 DEF DelegationInv, AllWorth, Worths, Worth
<1> QED
  BY <1>4, <1>5

(* The sum of the worths and the pools, as the invariant needs them.        *)
LEMMA DelegationInvNext ==
  ASSUME PoolsSound(pools)', funds' \in Int, AllWorth(pools') =< funds'
  PROVE  DelegationInv'
  BY DEF DelegationInv, AllWorth, Worths, Worth

LEMMA SharePool ==
  ASSUME DelegationInv, NEW d, NEW v, NEW amount \in Nat, HasShare(d, v, amount)
  PROVE  /\ v \in DOMAIN pools /\ PoolSound(pools[v]) /\ Pool(v) = pools[v]
         /\ d \in DOMAIN pools[v].shares /\ amount =< pools[v].shares[d].amount
  BY DEF DelegationInv, PoolsSound, HasShare, Pool

LEMMA UndelegateKeeps ==
  ASSUME DelegationInv, NEW d \in Delegators, NEW v \in Validators, NEW amount \in Amounts,
         Undelegate(d, v, amount)
  PROVE  DelegationInv'
<1>1. amount \in Nat /\ HasShare(d, v, amount) /\ funds' = funds
  BY DelegationAssumption DEF Undelegate
<1>2. PICK pool : pool = pools[v]
  OBVIOUS
<1>3. /\ PoolSound(pool) /\ Pool(v) = pool /\ d \in DOMAIN pool.shares
      /\ amount =< pool.shares[d].amount
  BY <1>1, <1>2, SharePool
<1>4. PICK rewards : rewards = RewardShare(pool.shares[d], amount)
  OBVIOUS
<1>5. PICK taken : taken = TakenOut(pool, d, amount)
  OBVIOUS
<1>6. /\ PoolSound(taken) /\ rewards \in Nat /\ Worth(taken) = Worth(pool) - (amount + rewards)
      /\ taken.requests = pool.requests
  BY <1>1, <1>3, <1>4, <1>5, TakenOutSound
<1>7. PICK request : request = [amount |-> amount, unbonded |-> FALSE, rewards |-> rewards]
  OBVIOUS
<1>8. request \in Undelegation /\ request.amount = amount /\ request.rewards = rewards
  BY <1>1, <1>6, <1>7 DEF Undelegation
<1>9. PICK old \in Seq(Undelegation) : old = taken.requests
  BY <1>6, PoolFacts
<1>10. PICK longer : longer = Append(old, request)
  OBVIOUS
<1>11. longer \in Seq(Undelegation)
  BY <1>8, <1>10, AppendProperties
<1>12. SeqTotal(ReturnOf, longer) = SeqTotal(ReturnOf, old) + (amount + rewards)
  <2>1. SeqTotal(ReturnOf, longer) = SeqTotal(ReturnOf, old) + ReturnOf[request]
    BY <1>8, <1>10, ReturnsFacts, SeqTotalAppend
  <2>2. ReturnOf[request] = amount + rewards
    BY <1>8 DEF ReturnOf
  <2> QED
    BY <2>1, <2>2
<1>13. PICK new : new = [taken EXCEPT !.requests = longer]
  OBVIOUS
<1>14. /\ PoolSound(new)
       /\ Worth(new) = SeqTotal(ReturnOf, longer) + SharesWorth(taken.shares)
  BY <1>6, <1>11, <1>13, PoolWithRequests
<1>15. Worth(new) = Worth(pool)
  <2>1. /\ Worth(taken) = SeqTotal(ReturnOf, old) + SharesWorth(taken.shares)
        /\ SeqTotal(ReturnOf, old) \in Nat /\ SharesWorth(taken.shares) \in Nat
    BY <1>6, <1>9, WorthNat DEF Worth, PoolSound
  <2>2. Worth(pool) \in Nat
    BY <1>3, PoolFacts
  <2> QED
    BY <1>1, <1>6, <1>12, <1>14, <2>1, <2>2
<1>16. SetPool(v, new)
  <2>1. SetPool(v, [taken EXCEPT !.requests = Append(@, request)])
    BY <1>2, <1>4, <1>5, <1>7 DEF Undelegate
  <2> QED
    BY <1>9, <1>10, <1>13, <2>1
<1>17. PoolsSound(pools)' /\ AllWorth(pools') = AllWorth(pools) - Worth(pool) + Worth(new)
  BY <1>3, <1>14, <1>16, SetPoolSound DEF DelegationInv
<1>18. AllWorth(pools') = AllWorth(pools)
  <2>1. AllWorth(pools) \in Nat /\ Worth(pool) \in Nat
    BY <1>3, PoolFacts, WorthsFacts DEF DelegationInv
  <2> QED
    BY <1>15, <1>17, <2>1
<1> QED
  BY <1>1, <1>17, <1>18, DelegationInvNext DEF DelegationInv

(* Whatever the second pool says, what left the first is at most what       *)
(* arrives.                                                                 *)
LEMMA RedelegateKeeps ==
  ASSUME DelegationInv, NEW d \in Delegators, NEW from \in Validators, NEW to \in Validators,
         NEW amount \in Amounts, Redelegate(d, from, to, amount)
  PROVE  DelegationInv'
<1>1. amount \in Nat /\ HasShare(d, from, amount) /\ funds' = funds
  BY DelegationAssumption DEF Redelegate
<1>2. PICK pool : pool = pools[from]
  OBVIOUS
<1>3. /\ PoolSound(pool) /\ from \in DOMAIN pools /\ d \in DOMAIN pool.shares
      /\ amount =< pool.shares[d].amount
  BY <1>1, <1>2, SharePool
<1>4. PICK rewards : rewards = RewardShare(pool.shares[d], amount)
  OBVIOUS
<1>5. PICK taken : taken = TakenOut(pool, d, amount)
  OBVIOUS
<1>6. PoolSound(taken) /\ rewards \in Nat /\ Worth(taken) = Worth(pool) - (amount + rewards)
  BY <1>1, <1>3, <1>4, <1>5, TakenOutSound
<1>7. PICK moved \in Nat : moved = amount + rewards
  BY <1>1, <1>6
<1>8. PICK left : left = [pools EXCEPT ![from] = taken]
  OBVIOUS
<1>9. PICK ps : ps = pools
  OBVIOUS
<1>10. left = PoolsWith(ps, from, taken)
  BY <1>3, <1>8, <1>9 DEF PoolsWith
<1>11. PoolsSound(left) /\ AllWorth(left) = AllWorth(ps) - Worth(pool) + Worth(taken)
  <2>1. PoolsSound(ps) /\ pool = IF from \in DOMAIN ps THEN ps[from] ELSE NewPool
    BY <1>2, <1>3, <1>9 DEF DelegationInv
  <2> QED
    BY <1>6, <1>10, <2>1, PoolPut
<1>12. AllWorth(ps) \in Nat /\ AllWorth(ps) =< funds /\ Worth(pool) \in Nat
       /\ AllWorth(left) = AllWorth(ps) - moved /\ AllWorth(left) \in Nat
  <2>1. AllWorth(ps) \in Nat /\ AllWorth(ps) =< funds /\ Worth(pool) \in Nat
    BY <1>3, <1>9, PoolFacts, WorthsFacts DEF DelegationInv
  <2>2. AllWorth(left) \in Nat
    BY <1>11, WorthsFacts
  <2> QED
    BY <1>6, <1>7, <1>11, <2>1, <2>2
<1>13. PICK goal : goal = IF to \in DOMAIN left THEN left[to] ELSE NewPool
  OBVIOUS
<1>14. PoolSound(goal) /\ Worth(goal) \in Nat
  BY <1>11, <1>13, NewPoolSound, PoolFacts DEF PoolsSound
<1>15. pools' = IF moved < MinDelegation THEN left
                ELSE PoolsWith(left, to, IF Accepts(goal, moved) THEN Added(goal, d, moved) ELSE goal)
  <2>1. pools' = IF moved < MinDelegation THEN left
                 ELSE [x \in DOMAIN left \cup {to} |->
                         IF x # to THEN left[x]
                         ELSE IF Accepts(goal, moved) THEN Added(goal, d, moved) ELSE goal]
    BY <1>2, <1>4, <1>5, <1>7, <1>8, <1>13 DEF Redelegate
  <2> QED
    BY <2>1 DEF PoolsWith
<1>16. PoolsSound(pools') /\ AllWorth(pools') =< AllWorth(ps)
  <2>1. CASE moved < MinDelegation
    <3>1. pools' = left
      BY <1>15, <2>1
    <3>2. AllWorth(left) =< AllWorth(ps)
      BY <1>12
    <3> QED
      BY <1>11, <3>1, <3>2
  <2>2. CASE ~(moved < MinDelegation) /\ Accepts(goal, moved)
    <3>1. PICK new : new = Added(goal, d, moved)
      OBVIOUS
    <3>2. moved > 0 /\ goal.total + moved =< MaxDelegated
      BY <2>2, DelegationAssumption DEF Accepts
    <3>3. PoolSound(new) /\ Worth(new) = Worth(goal) + moved
      BY <1>14, <3>1, <3>2, AddedSound
    <3>4. pools' = PoolsWith(left, to, new)
      BY <1>15, <2>2, <3>1
    <3>5. /\ PoolsSound(PoolsWith(left, to, new))
          /\ AllWorth(PoolsWith(left, to, new)) = AllWorth(left) - Worth(goal) + Worth(new)
      BY <1>11, <1>13, <3>3, PoolPut
    <3>6. AllWorth(left) - Worth(goal) + Worth(new) = AllWorth(ps)
      BY <1>12, <1>14, <3>3
    <3> QED
      BY <1>12, <3>4, <3>5, <3>6
  <2>3. CASE ~(moved < MinDelegation) /\ ~Accepts(goal, moved)
    <3>1. pools' = PoolsWith(left, to, goal)
      BY <1>15, <2>3
    <3>2. /\ PoolsSound(PoolsWith(left, to, goal))
          /\ AllWorth(PoolsWith(left, to, goal)) = AllWorth(left) - Worth(goal) + Worth(goal)
      BY <1>11, <1>13, <1>14, PoolPut
    <3>3. AllWorth(left) - Worth(goal) + Worth(goal) =< AllWorth(ps)
      BY <1>12, <1>14
    <3> QED
      BY <3>1, <3>2, <3>3
  <2> QED
    BY <2>1, <2>2, <2>3
<1>17. AllWorth(pools') \in Nat
  BY <1>16, WorthsFacts
<1>18. AllWorth(pools') =< funds' /\ funds' \in Int
  BY <1>1, <1>12, <1>16, <1>17 DEF DelegationInv
<1>19. PoolsSound(pools)'
  BY <1>16 DEF PoolsSound
<1> QED
  BY <1>18, <1>19, DelegationInvNext

(* A request's period ends: what it returns stays.                          *)
LEMMA ReturnPeriodEnds ==
  ASSUME NEW list \in Seq(Undelegation), NEW i \in DOMAIN list
  PROVE  /\ [list EXCEPT ![i].unbonded = TRUE] \in Seq(Undelegation)
         /\ SeqTotal(ReturnOf, [list EXCEPT ![i].unbonded = TRUE]) = SeqTotal(ReturnOf, list)
<1> DEFINE other == [list EXCEPT ![i].unbonded = TRUE]
<1>1. list[i] \in Undelegation
  OBVIOUS
<1>2. PICK r : r = [list[i] EXCEPT !.unbonded = TRUE]
  OBVIOUS
<1>3. r \in Undelegation /\ r.amount = list[i].amount /\ r.rewards = list[i].rewards
  BY <1>1, <1>2 DEF Undelegation
<1>4. other = [list EXCEPT ![i] = r]
  BY <1>2
<1> HIDE DEF other
<1>5. other \in Seq(Undelegation) /\ Len(other) = Len(list) /\ DOMAIN other = DOMAIN list
  <2>1. DOMAIN list = 1..Len(list) /\ Len(list) \in Nat /\ list \in [1..Len(list) -> Undelegation]
    OBVIOUS
  <2>2. other \in [1..Len(list) -> Undelegation]
    BY <1>3, <1>4, <2>1
  <2> QED
    BY <2>1, <2>2
<1>6. \A j \in 1..Len(list) : ReturnOf[other[j]] = ReturnOf[list[j]]
  <2> SUFFICES ASSUME NEW j \in 1..Len(list) PROVE ReturnOf[other[j]] = ReturnOf[list[j]]
    OBVIOUS
  <2>1. CASE j = i
    <3>1. other[j] = r /\ list[j] = list[i]
      BY <1>4, <2>1
    <3>2. PICK old \in Undelegation : old = list[i]
      BY <1>1
    <3>3. r.amount = old.amount /\ r.rewards = old.rewards /\ r \in Undelegation
      BY <1>3, <3>2
    <3>4. ReturnOf[r] = r.amount + r.rewards /\ ReturnOf[old] = old.amount + old.rewards
      BY <3>3 DEF ReturnOf
    <3> QED
      BY <3>1, <3>2, <3>3, <3>4
  <2>2. CASE j # i
    BY <1>4, <2>2
  <2> QED
    BY <2>1, <2>2
<1>7. SeqTotal(ReturnOf, other) = SeqTotal(ReturnOf, list)
  BY <1>5, <1>6, ReturnsFacts, SeqTotalAlike
<1> QED
  BY <1>5, <1>7 DEF other

LEMMA UndelegationPeriodKeeps ==
  ASSUME DelegationInv, NEW v \in Validators, UndelegationPeriodEnds(v)
  PROVE  DelegationInv'
<1>1. v \in DOMAIN pools /\ funds' = funds
  BY DEF UndelegationPeriodEnds
<1>2. PICK i \in DOMAIN pools[v].requests : pools' = [pools EXCEPT ![v].requests[i].unbonded = TRUE]
  BY DEF UndelegationPeriodEnds
<1>3. PICK pool : pool = pools[v] /\ pool = Pool(v)
  BY <1>1 DEF Pool
<1>4. PoolSound(pool)
  BY <1>1, <1>3 DEF DelegationInv, PoolsSound
<1>5. PICK list \in Seq(Undelegation) : list = pool.requests
  BY <1>4, PoolFacts
<1>6. PICK other : other = [list EXCEPT ![i].unbonded = TRUE]
  OBVIOUS
<1>7. other \in Seq(Undelegation) /\ SeqTotal(ReturnOf, other) = SeqTotal(ReturnOf, list)
  BY <1>2, <1>3, <1>5, <1>6, ReturnPeriodEnds
<1>8. PICK new : new = [pool EXCEPT !.requests = other]
  OBVIOUS
<1>9. PoolSound(new) /\ Worth(new) = SeqTotal(ReturnOf, other) + SharesWorth(pool.shares)
  BY <1>4, <1>7, <1>8, PoolWithRequests
<1>10. Worth(new) = Worth(pool)
  BY <1>5, <1>7, <1>9 DEF Worth
<1>11. SetPool(v, new)
  <2>1. DOMAIN pools \cup {v} = DOMAIN pools
    BY <1>1
  <2>2. pools' = [pools EXCEPT ![v] = new]
    BY <1>2, <1>3, <1>5, <1>6, <1>8
  <2> QED
    BY <2>1, <2>2 DEF SetPool
<1>12. PoolsSound(pools)' /\ AllWorth(pools') = AllWorth(pools) - Worth(pool) + Worth(new)
  BY <1>3, <1>9, <1>11, SetPoolSound DEF DelegationInv
<1>13. AllWorth(pools') = AllWorth(pools)
  <2>1. AllWorth(pools) \in Nat /\ Worth(pool) \in Nat
    BY <1>4, PoolFacts, WorthsFacts DEF DelegationInv
  <2> QED
    BY <1>10, <1>12, <2>1
<1> QED
  BY <1>1, <1>12, <1>13, DelegationInvNext DEF DelegationInv

-----------------------------------------------------------------------------
(* What the requests return is their sum.                                   *)
LEMMA ReturnIsSum ==
  ASSUME NEW list \in Seq(Undelegation) PROVE Return(list) = SeqTotal(ReturnOf, list)
<1> DEFINE body(it) == [s \in SUBSET (DOMAIN list) |->
                          IF s = {} THEN 0
                          ELSE LET x == Max(s) IN it[s \ {x}] + (list[x].amount + list[x].rewards)]
           body2(it) == [s \in SUBSET (DOMAIN list) |->
                           IF s = {} THEN 0
                           ELSE LET x == Max(s) IN it[s \ {x}] + ReturnOf[list[x]]]
<1>1. Return(list) = (CHOOSE it : it = body(it))[DOMAIN list]
  BY DEF Return, FoldLeft, MapThenFoldSet
<1>2. SeqTotal(ReturnOf, list) = (CHOOSE it : it = body2(it))[DOMAIN list]
  BY DEF SeqTotal, FoldLeft, MapThenFoldSet
<1>3. \A it : body(it) = body2(it)
  <2> SUFFICES ASSUME NEW it, NEW s \in SUBSET (DOMAIN list), s # {}
               PROVE  it[s \ {Max(s)}] + (list[Max(s)].amount + list[Max(s)].rewards)
                        = it[s \ {Max(s)}] + ReturnOf[list[Max(s)]]
    OBVIOUS
  <2>1. Max(s) \in s
    <3>1. s \in SUBSET Int /\ IsFiniteSet(DOMAIN list)
      BY FS_Interval
    <3>2. IsFiniteSet(s)
      BY <3>1, FS_Subset
    <3> QED
      BY <3>1, <3>2, MaxElement
  <2>2. list[Max(s)] \in Undelegation
    BY <2>1
  <2> QED
    BY <2>2 DEF ReturnOf
<1> HIDE DEF body, body2
<1> QED
  BY <1>1, <1>2, <1>3

DueWorths(ps) == [v \in DOMAIN ps |-> SeqTotal(ReturnOf, Due(ps[v].requests))]
PaidOut(ps) == [v \in DOMAIN ps |-> [ps[v] EXCEPT !.requests = Running(@)]]

LEMMA ReturnsSum ==
  ASSUME PoolsSound(pools)
  PROVE  MapThenSumSet(LAMBDA v : Return(Due(pools[v].requests)), DOMAIN pools)
           = Total(DueWorths(pools), DOMAIN pools)
<1> DEFINE D == DOMAIN pools
           body(it) == [s \in SUBSET D |->
                          IF s = {} THEN 0
                          ELSE LET x == CHOOSE x \in s : TRUE
                               IN  Return(Due(pools[x].requests)) + it[s \ {x}]]
           body2(it) == [s \in SUBSET D |->
                           IF s = {} THEN 0
                           ELSE LET x == CHOOSE x \in s : TRUE
                                IN  DueWorths(pools)[x] + it[s \ {x}]]
<1>1. MapThenSumSet(LAMBDA v : Return(Due(pools[v].requests)), D) = (CHOOSE it : it = body(it))[D]
  BY DEF MapThenSumSet, MapThenFoldSet
<1>2. Total(DueWorths(pools), D) = (CHOOSE it : it = body2(it))[D]
  BY DEF Total, MapThenSumSet, MapThenFoldSet
<1>3. \A x \in D : Return(Due(pools[x].requests)) = DueWorths(pools)[x]
  <2> SUFFICES ASSUME NEW x \in D PROVE Return(Due(pools[x].requests)) = DueWorths(pools)[x]
    OBVIOUS
  <2>1. PICK list \in Seq(Undelegation) : list = pools[x].requests
    BY PoolFacts DEF PoolsSound
  <2>2. Due(list) \in Seq(Undelegation)
    BY ReturnsFacts, RequestsSplit DEF Undelegation
  <2> QED
    BY <2>1, <2>2, ReturnIsSum DEF DueWorths
<1>4. \A it : body(it) = body2(it)
  <2> SUFFICES ASSUME NEW it, NEW s \in SUBSET D, s # {}
               PROVE  Return(Due(pools[CHOOSE x \in s : TRUE].requests))
                        = DueWorths(pools)[CHOOSE x \in s : TRUE]
    OBVIOUS
  <2>1. (CHOOSE x \in s : TRUE) \in D
    OBVIOUS
  <2> QED
    BY <1>3, <2>1
<1> HIDE DEF body, body2
<1> QED
  BY <1>1, <1>2, <1>4

(* What is paid out was owed, and the running requests stay.                *)
LEMMA SettledPool ==
  ASSUME NEW pool, PoolSound(pool), NEW new, new = [pool EXCEPT !.requests = Running(@)]
  PROVE  /\ PoolSound(new) /\ SeqTotal(ReturnOf, Due(pool.requests)) \in Int
         /\ Worth(new) = Worth(pool) - SeqTotal(ReturnOf, Due(pool.requests))
<1>1. PICK list \in Seq(Undelegation) : list = pool.requests
  BY PoolFacts
<1>2. PICK rest : rest = Running(list)
  OBVIOUS
<1>3. PICK due, all, kept : /\ due = SeqTotal(ReturnOf, Due(list))
                            /\ all = SeqTotal(ReturnOf, list) /\ kept = SeqTotal(ReturnOf, rest)
  OBVIOUS
<1>4. /\ rest \in Seq(Undelegation) /\ due \in Int /\ kept \in Int /\ all = due + kept
  BY <1>2, <1>3, ReturnsFacts, RequestsSplit DEF Undelegation
<1>5. new = [pool EXCEPT !.requests = rest]
  BY <1>1, <1>2
<1>6. PoolSound(new) /\ Worth(new) = kept + SharesWorth(pool.shares)
  BY <1>3, <1>4, <1>5, PoolWithRequests
<1>7. PICK shares \in Nat : shares = SharesWorth(pool.shares)
  BY WorthNat DEF PoolSound
<1>8. Worth(pool) = all + shares
  BY <1>1, <1>3, <1>7 DEF Worth
<1>9. Worth(new) = Worth(pool) - due
  BY <1>4, <1>6, <1>7, <1>8
<1> QED
  BY <1>1, <1>3, <1>4, <1>6, <1>9

LEMMA ProcessUndelegationsKeeps ==
  ASSUME DelegationInv, ProcessUndelegations
  PROVE  DelegationInv'
<1>0. PoolsSound(pools) /\ funds \in Int /\ AllWorth(pools) =< funds
  BY DEF DelegationInv
<1>1. pools' = PaidOut(pools) /\ funds' = funds - Total(DueWorths(pools), DOMAIN pools)
  BY <1>0, ReturnsSum DEF ProcessUndelegations, PaidOut
<1>2. PICK ps, qs : ps = pools /\ qs = pools'
  OBVIOUS
<1>3. PICK D : D = DOMAIN ps
  OBVIOUS
<1>4. DOMAIN qs = D /\ \A v \in D : qs[v] = [ps[v] EXCEPT !.requests = Running(@)]
  BY <1>1, <1>2, <1>3 DEF PaidOut
<1>5. ASSUME NEW v \in D
      PROVE  /\ PoolSound(qs[v]) /\ DueWorths(ps)[v] \in Int
             /\ Worth(qs[v]) = Worth(ps[v]) - DueWorths(ps)[v]
  <2>1. PoolSound(ps[v])
    BY <1>0, <1>2, <1>3 DEF PoolsSound
  <2>2. DueWorths(ps)[v] = SeqTotal(ReturnOf, Due(ps[v].requests))
    BY <1>3 DEF DueWorths
  <2> QED
    BY <1>4, <2>1, <2>2, SettledPool
<1>6. PoolsSound(qs)
  BY <1>0, <1>2, <1>3, <1>4, <1>5 DEF PoolsSound
<1>7. PICK f, d, h : f = Worths(ps) /\ d = DueWorths(ps) /\ h = Worths(qs)
  OBVIOUS
<1>8. IsFiniteSet(D) /\ IntOn(f, D) /\ \A v \in D : f[v] = Worth(ps[v])
  BY <1>0, <1>2, <1>3, <1>7, WorthsFacts
<1>9. \A v \in D : h[v] = Worth(qs[v])
  BY <1>4, <1>6, <1>7, WorthsFacts
<1>10. IntOn(d, D)
  BY <1>5, <1>7 DEF IntOn
<1>11. \A v \in D : h[v] = f[v] - d[v]
  BY <1>5, <1>7, <1>8, <1>9
<1>12. Total(h, D) = Total(f, D) - Total(d, D)
  BY <1>8, <1>10, <1>11, TotalMinus
<1>13. AllWorth(qs) = AllWorth(ps) - Total(d, D)
  BY <1>3, <1>4, <1>7, <1>12 DEF AllWorth
<1>14. Total(d, D) \in Int /\ AllWorth(ps) \in Nat
  BY <1>0, <1>2, <1>8, <1>10, TotalInt, WorthsFacts
<1>15. funds' = funds - Total(d, D)
  BY <1>1, <1>2, <1>3, <1>7
<1>16. funds' \in Int /\ AllWorth(qs) =< funds'
  BY <1>0, <1>2, <1>13, <1>14, <1>15
<1>17. PoolsSound(pools)'
  BY <1>2, <1>6 DEF PoolsSound
<1> QED
  BY <1>2, <1>16, <1>17, DelegationInvNext

-----------------------------------------------------------------------------
(* What a pool's shares are granted: together at most the rewards, whatever *)
(* each division cuts off.                                                  *)
GrantsIn(pool, rewards) ==
  [d \in DOMAIN pool.shares |-> (rewards * pool.shares[d].amount) \div pool.total]
SharesGranted(pool, rewards) ==
  [d \in DOMAIN pool.shares |->
     [amount |-> pool.shares[d].amount,
      rewards |-> pool.shares[d].rewards + GrantsIn(pool, rewards)[d]]]

LEMMA GrantsFit ==
  ASSUME NEW pool, PoolSound(pool), pool.total > 0, NEW rewards \in Nat, NEW grants,
         grants = GrantsIn(pool, rewards)
  PROVE  /\ NatOn(grants, DOMAIN pool.shares)
         /\ Total(grants, DOMAIN pool.shares) \in Nat
         /\ Total(grants, DOMAIN pool.shares) =< rewards
<1>1. PICK sum \in Nat \ {0} : sum = pool.total
  BY PoolFacts
<1>2. PICK shares \in ShareTables : shares = pool.shares /\ sum = SharesTotal(shares)
  BY <1>1, PoolFacts DEF PoolSound
<1>3. PICK D : D = DOMAIN shares
  OBVIOUS
<1>4. PICK g : g = AmountsIn(shares)
  OBVIOUS
<1>5. IsFiniteSet(D) /\ NatOn(g, D) /\ sum = Total(g, D)
  BY <1>2, <1>3, <1>4, TablesFacts DEF SharesTotal
<1>6. ASSUME NEW d \in D
      PROVE  grants[d] \in Nat /\ grants[d] * sum =< rewards * g[d]
  <2>1. PICK amount \in Nat : amount = shares[d].amount /\ g[d] = amount
    BY <1>3, <1>4, TablesFacts DEF AmountsIn, Share
  <2>2. PICK whole \in Nat : whole = rewards * amount
    OBVIOUS
  <2>3. grants[d] = whole \div sum
    BY <1>1, <1>2, <1>3, <2>1, <2>2 DEF GrantsIn
  <2>4. whole \div sum \in Nat /\ (whole \div sum) * sum =< whole
    BY DivisionBound
  <2> QED
    BY <2>1, <2>2, <2>3, <2>4
<1>7. NatOn(grants, D)
  BY <1>6 DEF NatOn
<1>8. Total(grants, D) \in Nat /\ Total(grants, D) =< rewards
  BY <1>5, <1>6, <1>7, SharesFit
<1> QED
  BY <1>2, <1>3, <1>7, <1>8

LEMMA GrantedSound ==
  ASSUME NEW pool, PoolSound(pool), pool.total > 0, NEW rewards \in Nat, NEW new,
         new = [pool EXCEPT !.shares = SharesGranted(pool, rewards)]
  PROVE  PoolSound(new) /\ Worth(new) \in Nat /\ Worth(new) =< Worth(pool) + rewards
<1>1. /\ pool \in PoolRecord /\ pool.total \in Nat /\ pool.total =< MaxDelegated
      /\ pool.total = SharesTotal(pool.shares) /\ NoneEmpty(pool.shares)
  BY PoolFacts DEF PoolSound
<1>2. PICK shares \in ShareTables : shares = pool.shares
  BY PoolFacts
<1>3. PICK grants : grants = GrantsIn(pool, rewards)
  OBVIOUS
<1>4. PICK table : table = SharesGranted(pool, rewards)
  OBVIOUS
<1>5. PICK D : D = DOMAIN shares
  OBVIOUS
<1>6. IsFiniteSet(D) /\ D \subseteq Delegators
  BY <1>5, TablesFacts
<1>7. NatOn(grants, D) /\ Total(grants, D) \in Nat /\ Total(grants, D) =< rewards
  BY <1>2, <1>3, <1>5, GrantsFit
<1>8. /\ DOMAIN table = D
      /\ \A d \in D : table[d] = [amount |-> shares[d].amount,
                                  rewards |-> shares[d].rewards + grants[d]]
  BY <1>2, <1>3, <1>4, <1>5 DEF SharesGranted
<1>9. ASSUME NEW d \in D
      PROVE  /\ table[d] \in Share /\ table[d].amount = shares[d].amount
             /\ table[d].rewards = shares[d].rewards + grants[d]
  <2>1. PICK share \in Share : share = shares[d]
    BY <1>5, TablesFacts
  <2>2. PICK r \in Nat : r = share.rewards + grants[d]
    BY <1>7 DEF Share, NatOn
  <2>3. table[d] = [amount |-> share.amount, rewards |-> r]
    BY <1>8, <2>1, <2>2
  <2> QED
    BY <2>1, <2>2, <2>3 DEF Share
<1>10. table \in ShareTables
  <2>1. table \in [D -> Share]
    <3>1. table = [d \in DOMAIN table |-> table[d]]
      BY <1>4 DEF SharesGranted
    <3> QED
      BY <1>8, <1>9, <3>1
  <2> QED
    BY <1>6, <2>1 DEF ShareTables
<1>11. PICK f, h, p, q : /\ f = AmountsIn(shares) /\ h = AmountsIn(table)
                         /\ p = WorthsIn(shares) /\ q = WorthsIn(table)
  OBVIOUS
<1>12. /\ IntOn(f, D) /\ IntOn(p, D) /\ IntOn(q, D) /\ IntOn(grants, D)
  BY <1>5, <1>7, <1>8, <1>10, <1>11, TablesFacts DEF NatOn, IntOn
<1>13. ASSUME NEW d \in D PROVE f[d] = h[d] /\ p[d] = q[d] - grants[d]
  <2>1. PICK a \in Nat, r \in Nat : a = shares[d].amount /\ r = shares[d].rewards
    BY <1>5, TablesFacts DEF Share
  <2>2. f[d] = a /\ h[d] = a
    BY <1>5, <1>8, <1>9, <1>11, <2>1 DEF AmountsIn
  <2>3. p[d] = a + r /\ q[d] = a + (r + grants[d])
    BY <1>5, <1>8, <1>9, <1>11, <2>1 DEF WorthsIn
  <2>4. grants[d] \in Nat
    BY <1>7 DEF NatOn
  <2> QED
    BY <2>1, <2>2, <2>3, <2>4
<1>14. Total(f, D) = Total(h, D)
  BY <1>6, <1>12, <1>13, TotalSame
<1>15. Total(p, D) = Total(q, D) - Total(grants, D)
  BY <1>6, <1>12, <1>13, TotalMinus
<1>16. SharesTotal(table) = SharesTotal(shares)
  BY <1>5, <1>8, <1>11, <1>14 DEF SharesTotal
<1>17. SharesWorth(table) = SharesWorth(shares) + Total(grants, D)
  <2>1. SharesWorth(table) = Total(q, D) /\ SharesWorth(shares) = Total(p, D)
    BY <1>5, <1>8, <1>11 DEF SharesWorth
  <2>2. Total(q, D) \in Int /\ Total(p, D) \in Int
    BY <1>6, <1>12, TotalInt
  <2> QED
    BY <1>7, <1>15, <2>1, <2>2
<1>18. new = [pool EXCEPT !.shares = table]
  BY <1>4
<1>19. /\ new \in PoolRecord /\ new.total = pool.total /\ new.shares = table
       /\ new.requests = pool.requests
  <2> USE DEF PoolRecord
  <2>1. new \in PoolRecord
    BY <1>1, <1>10, <1>18
  <2>2. new.total = pool.total /\ new.shares = table
    BY <1>1, <1>18
  <2>3. new.requests = pool.requests
    BY <1>1, <1>18
  <2> QED
    BY <2>1, <2>2, <2>3
<1>20. NoneEmpty(table)
  BY <1>1, <1>2, <1>5, <1>8, <1>9 DEF NoneEmpty
<1>21. PoolSound(new)
  BY <1>1, <1>2, <1>16, <1>19, <1>20 DEF PoolSound
<1>22. PICK b \in Nat, w \in Nat : b = SeqTotal(ReturnOf, pool.requests) /\ w = SharesWorth(shares)
  BY <1>1, <1>2, WorthNat
<1>23. Worth(pool) = b + w /\ Worth(new) = b + (w + Total(grants, D))
  BY <1>2, <1>17, <1>19, <1>22 DEF Worth
<1> QED
  BY <1>7, <1>21, <1>22, <1>23

LEMMA DistributeRewardsKeeps ==
  ASSUME DelegationInv, NEW v \in Validators, NEW rewards \in PoolRewards,
         DistributeRewards(v, rewards)
  PROVE  DelegationInv'
<1>1. v \in DOMAIN pools /\ funds' = funds + rewards /\ pools[v].total > 0 /\ rewards \in Nat
  BY DelegationAssumption DEF DistributeRewards
<1>2. PICK pool : pool = pools[v] /\ pool = Pool(v)
  BY <1>1 DEF Pool
<1>3. PoolSound(pool) /\ Worth(pool) \in Nat
  BY <1>1, <1>2, PoolFacts DEF DelegationInv, PoolsSound
<1>4. PICK new : new = [pool EXCEPT !.shares = SharesGranted(pool, rewards)]
  OBVIOUS
<1>5. PoolSound(new) /\ Worth(new) \in Nat /\ Worth(new) =< Worth(pool) + rewards
  BY <1>1, <1>2, <1>3, <1>4, GrantedSound
<1>6. SetPool(v, new)
  <2>1. DOMAIN pools \cup {v} = DOMAIN pools
    BY <1>1
  <2>2. pools' = [pools EXCEPT ![v].shares = SharesGranted(pool, rewards)]
    <3>1. SharesGranted(pool, rewards)
            = [d \in DOMAIN pools[v].shares |->
                 [amount |-> pools[v].shares[d].amount,
                  rewards |-> pools[v].shares[d].rewards
                                + (rewards * pools[v].shares[d].amount) \div pools[v].total]]
      BY <1>2 DEF SharesGranted, GrantsIn
    <3> QED
      BY <3>1 DEF DistributeRewards
  <2>3. pools' = [pools EXCEPT ![v] = new]
    BY <1>2, <1>4, <2>2
  <2> QED
    BY <2>1, <2>3 DEF SetPool
<1>7. PoolsSound(pools)' /\ AllWorth(pools') = AllWorth(pools) - Worth(pool) + Worth(new)
  BY <1>2, <1>5, <1>6, SetPoolSound DEF DelegationInv
<1>8. AllWorth(pools') =< funds' /\ funds' \in Int
  <2>1. AllWorth(pools) \in Nat /\ funds \in Int /\ AllWorth(pools) =< funds
    BY WorthsFacts DEF DelegationInv
  <2> QED
    BY <1>1, <1>3, <1>5, <1>7, <2>1
<1> QED
  BY <1>7, <1>8, DelegationInvNext

LEMMA FlagKeeps ==
  ASSUME DelegationInv, NEW v \in Validators, v \in DOMAIN pools, NEW new,
         new = [pools[v] EXCEPT !.isActive = new.isActive, !.isJailed = new.isJailed],
         new.isActive \in BOOLEAN, new.isJailed \in BOOLEAN,
         pools' = [pools EXCEPT ![v] = new], funds' = funds
  PROVE  DelegationInv'
<1>0. PICK active \in BOOLEAN, isJailed \in BOOLEAN :
        active = new.isActive /\ isJailed = new.isJailed
  OBVIOUS
<1>1. PICK pool : pool = pools[v]
  OBVIOUS
<1>2. PoolSound(pool) /\ pool = Pool(v) /\ Worth(pool) \in Nat
  BY <1>1, PoolFacts DEF DelegationInv, PoolsSound, Pool
<1>3. pool \in PoolRecord
  BY <1>2 DEF PoolSound
<1>4. new = [pool EXCEPT !.isActive = active, !.isJailed = isJailed]
  BY <1>0, <1>1
<1>5. new \in PoolRecord
  BY <1>3, <1>4 DEF PoolRecord
<1>6. new.total = pool.total
  BY <1>3, <1>4 DEF PoolRecord
<1>7. new.shares = pool.shares
  BY <1>3, <1>4 DEF PoolRecord
<1>8. new.requests = pool.requests
  BY <1>3, <1>4 DEF PoolRecord
<1>9. PoolSound(new)
  BY <1>2, <1>5, <1>6, <1>7 DEF PoolSound
<1>10. Worth(new) = Worth(pool)
  BY <1>7, <1>8 DEF Worth
<1>11. SetPool(v, new)
  BY DEF SetPool
<1>12. PoolsSound(pools)' /\ AllWorth(pools') = AllWorth(pools) - Worth(pool) + Worth(new)
  BY <1>2, <1>9, <1>11, SetPoolSound DEF DelegationInv
<1>13. AllWorth(pools) \in Nat /\ AllWorth(pools) =< funds /\ funds \in Int
  BY WorthsFacts DEF DelegationInv
<1>14. AllWorth(pools') =< funds' /\ funds' \in Int
  BY <1>2, <1>10, <1>12, <1>13
<1> QED
  BY <1>12, <1>14, DelegationInvNext

LEMMA FlagsKeep ==
  ASSUME DelegationInv, NEW v \in Validators, NEW flag \in BOOLEAN,
         SetValidatorActive(v, flag) \/ SetValidatorJailed(v, flag)
  PROVE  DelegationInv'
<1>1. v \in DOMAIN pools /\ funds' = funds
  BY DEF SetValidatorActive, SetValidatorJailed
<1>2. PICK pool \in PoolRecord : pool = pools[v]
  BY <1>1, PoolFacts DEF DelegationInv, PoolsSound
<1>3. pool.isActive \in BOOLEAN /\ pool.isJailed \in BOOLEAN
  BY DEF PoolRecord
<1>4. CASE SetValidatorActive(v, flag)
  <2>1. PICK new : new = [pool EXCEPT !.isActive = flag]
    OBVIOUS
  <2>2. pools' = [pools EXCEPT ![v] = new]
    BY <1>2, <1>4, <2>1 DEF SetValidatorActive
  <2>3. new.isActive = flag /\ new.isJailed = pool.isJailed
    BY <2>1 DEF PoolRecord
  <2>4. new = [pool EXCEPT !.isActive = new.isActive, !.isJailed = new.isJailed]
    BY <2>1, <2>3 DEF PoolRecord
  <2> QED
    BY <1>1, <1>2, <1>3, <2>2, <2>3, <2>4, FlagKeeps
<1>5. CASE SetValidatorJailed(v, flag)
  <2>1. PICK new : new = [pool EXCEPT !.isJailed = flag]
    OBVIOUS
  <2>2. pools' = [pools EXCEPT ![v] = new]
    BY <1>2, <1>5, <2>1 DEF SetValidatorJailed
  <2>3. new.isJailed = flag /\ new.isActive = pool.isActive
    BY <2>1 DEF PoolRecord
  <2>4. new = [pool EXCEPT !.isActive = new.isActive, !.isJailed = new.isJailed]
    BY <2>1, <2>3 DEF PoolRecord
  <2> QED
    BY <1>1, <1>2, <1>3, <2>2, <2>3, <2>4, FlagKeeps
<1> QED
  BY <1>4, <1>5

(* The initial state, and every step.                                       *)
LEMMA DelegationInitInv == DelegationInit => DelegationInv
<1> SUFFICES ASSUME DelegationInit PROVE DelegationInv
  OBVIOUS
<1>1. DOMAIN pools = {} /\ funds = 0
  BY DEF DelegationInit
<1>2. AllWorth(pools) = 0
  BY <1>1, TotalEmpty DEF AllWorth
<1> QED
  BY <1>1, <1>2 DEF DelegationInv, PoolsSound

LEMMA DelegationNextInv == DelegationInv /\ [DelegationNext]_delegationVars => DelegationInv'
<1> SUFFICES ASSUME DelegationInv, [DelegationNext]_delegationVars PROVE DelegationInv'
  OBVIOUS
<1>1. ASSUME NEW d \in Delegators, NEW v \in Validators, NEW amount \in Amounts,
             Delegate(d, v, amount)
      PROVE  DelegationInv'
  BY <1>1, DelegateKeeps
<1>2. ASSUME NEW d \in Delegators, NEW v \in Validators, NEW amount \in Amounts,
             Undelegate(d, v, amount)
      PROVE  DelegationInv'
  BY <1>2, UndelegateKeeps
<1>3. ASSUME NEW d \in Delegators, NEW from \in Validators, NEW to \in Validators,
             NEW amount \in Amounts, Redelegate(d, from, to, amount)
      PROVE  DelegationInv'
  BY <1>3, RedelegateKeeps
<1>4. ASSUME NEW v \in Validators, UndelegationPeriodEnds(v)
      PROVE  DelegationInv'
  BY <1>4, UndelegationPeriodKeeps
<1>5. ASSUME ProcessUndelegations
      PROVE  DelegationInv'
  BY <1>5, ProcessUndelegationsKeeps
<1>6. ASSUME NEW v \in Validators, NEW rewards \in PoolRewards, DistributeRewards(v, rewards)
      PROVE  DelegationInv'
  BY <1>6, DistributeRewardsKeeps
<1>7. ASSUME NEW v \in Validators, NEW flag \in BOOLEAN,
             SetValidatorActive(v, flag) \/ SetValidatorJailed(v, flag)
      PROVE  DelegationInv'
  BY <1>7, FlagsKeep
<1>8. ASSUME UNCHANGED delegationVars
      PROVE  DelegationInv'
  BY <1>8 DEF delegationVars, DelegationInv, PoolsSound, AllWorth, Worths, Worth
<1> QED
  BY <1>1, <1>2, <1>3, <1>4, <1>5, <1>6, <1>7, <1>8 DEF DelegationNext

LEMMA DelegationInductive == DelegationSpec => []DelegationInv
  BY DelegationInitInv, DelegationNextInv, PTL DEF DelegationSpec

-----------------------------------------------------------------------------
(* The sums of the invariant are those of the properties.                   *)
LEMMA PoolTotalIsSum ==
  ASSUME NEW v PROVE PoolTotal(v) = SharesTotal(pools[v].shares)
<1> DEFINE shares == pools[v].shares
           D == DOMAIN shares
           body(it) == [s \in SUBSET D |->
                          IF s = {} THEN 0
                          ELSE LET x == CHOOSE x \in s : TRUE IN shares[x].amount + it[s \ {x}]]
           body2(it) == [s \in SUBSET D |->
                           IF s = {} THEN 0
                           ELSE LET x == CHOOSE x \in s : TRUE
                                IN  AmountsIn(shares)[x] + it[s \ {x}]]
<1>1. PoolTotal(v) = (CHOOSE it : it = body(it))[D]
  BY DEF PoolTotal, MapThenSumSet, MapThenFoldSet
<1>2. SharesTotal(shares) = (CHOOSE it : it = body2(it))[D]
  BY DEF SharesTotal, Total, MapThenSumSet, MapThenFoldSet
<1>3. \A it : body(it) = body2(it)
  <2> SUFFICES ASSUME NEW it, NEW s \in SUBSET D, s # {}
               PROVE  shares[CHOOSE x \in s : TRUE].amount = AmountsIn(shares)[CHOOSE x \in s : TRUE]
    OBVIOUS
  <2>1. (CHOOSE x \in s : TRUE) \in D
    OBVIOUS
  <2> QED
    BY <2>1 DEF AmountsIn
<1> HIDE DEF body, body2
<1> QED
  BY <1>1, <1>2, <1>3

LEMMA SharesWorthIsSum ==
  ASSUME NEW pool
  PROVE  MapThenSumSet(LAMBDA d : pool.shares[d].amount + pool.shares[d].rewards, DOMAIN pool.shares)
           = SharesWorth(pool.shares)
<1> DEFINE D == DOMAIN pool.shares
           body(it) == [s \in SUBSET D |->
                          IF s = {} THEN 0
                          ELSE LET x == CHOOSE x \in s : TRUE
                               IN  (pool.shares[x].amount + pool.shares[x].rewards) + it[s \ {x}]]
           body2(it) == [s \in SUBSET D |->
                           IF s = {} THEN 0
                           ELSE LET x == CHOOSE x \in s : TRUE
                                IN  WorthsIn(pool.shares)[x] + it[s \ {x}]]
<1>1. MapThenSumSet(LAMBDA d : pool.shares[d].amount + pool.shares[d].rewards, D)
        = (CHOOSE it : it = body(it))[D]
  BY DEF MapThenSumSet, MapThenFoldSet
<1>2. SharesWorth(pool.shares) = (CHOOSE it : it = body2(it))[D]
  BY DEF SharesWorth, Total, MapThenSumSet, MapThenFoldSet
<1>3. \A it : body(it) = body2(it)
  <2> SUFFICES ASSUME NEW it, NEW s \in SUBSET D, s # {}
               PROVE  pool.shares[CHOOSE x \in s : TRUE].amount
                          + pool.shares[CHOOSE x \in s : TRUE].rewards
                        = WorthsIn(pool.shares)[CHOOSE x \in s : TRUE]
    OBVIOUS
  <2>1. (CHOOSE x \in s : TRUE) \in D
    OBVIOUS
  <2> QED
    BY <2>1 DEF WorthsIn
<1> HIDE DEF body, body2
<1> QED
  BY <1>1, <1>2, <1>3

LEMMA ValuesSum ==
  ASSUME PoolsSound(pools)
  PROVE  MapThenSumSet(LAMBDA v : Value(pools[v]), DOMAIN pools) = AllWorth(pools)
<1> DEFINE D == DOMAIN pools
           body(it) == [s \in SUBSET D |->
                          IF s = {} THEN 0
                          ELSE LET x == CHOOSE x \in s : TRUE IN Value(pools[x]) + it[s \ {x}]]
           body2(it) == [s \in SUBSET D |->
                           IF s = {} THEN 0
                           ELSE LET x == CHOOSE x \in s : TRUE
                                IN  Worths(pools)[x] + it[s \ {x}]]
<1>1. MapThenSumSet(LAMBDA v : Value(pools[v]), D) = (CHOOSE it : it = body(it))[D]
  BY DEF MapThenSumSet, MapThenFoldSet
<1>2. AllWorth(pools) = (CHOOSE it : it = body2(it))[D]
  BY DEF AllWorth, Total, MapThenSumSet, MapThenFoldSet
<1>3. \A x \in D : Value(pools[x]) = Worths(pools)[x]
  <2> SUFFICES ASSUME NEW x \in D PROVE Value(pools[x]) = Worths(pools)[x]
    OBVIOUS
  <2>1. pools[x].requests \in Seq(Undelegation)
    BY PoolFacts DEF PoolsSound
  <2> QED
    BY <2>1, ReturnIsSum, SharesWorthIsSum DEF Value, Worths, Worth
<1>4. \A it : body(it) = body2(it)
  <2> SUFFICES ASSUME NEW it, NEW s \in SUBSET D, s # {}
               PROVE  Value(pools[CHOOSE x \in s : TRUE]) = Worths(pools)[CHOOSE x \in s : TRUE]
    OBVIOUS
  <2>1. (CHOOSE x \in s : TRUE) \in D
    OBVIOUS
  <2> QED
    BY <1>3, <2>1
<1> HIDE DEF body, body2
<1> QED
  BY <1>1, <1>2, <1>4

(* For any delegators, amounts, limits and rewards, through partial and     *)
(* failing moves between pools: every pool's total is the sum of its        *)
(* shares, none of which is empty, and within the limit.                    *)
THEOREM PoolsAlwaysAddUp == DelegationSpec => []PoolsAddUp
<1>1. DelegationInv => PoolsAddUp
  BY PoolTotalIsSum DEF DelegationInv, PoolsSound, PoolSound, NoneEmpty, PoolsAddUp
<1> QED
  BY <1>1, DelegationInductive, PTL

(* Whatever the divisions cut off, the pools never owe the delegators more  *)
(* than what was paid in and granted, less what was paid out.               *)
THEOREM ValueIsNotCreated == DelegationSpec => []NoValueCreated
<1>1. DelegationInv => NoValueCreated
  BY ValuesSum DEF DelegationInv, NoValueCreated
<1> QED
  BY <1>1, DelegationInductive, PTL
=============================================================================
