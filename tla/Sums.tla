-------------------------------- MODULE Sums ---------------------------------
(***************************************************************************)
(* Sums over finite sets and over sequences, as the models take them with  *)
(* MapThenSumSet and FoldLeft, for every set and every summand.  Both are  *)
(* recursive functions on the subsets of a set; that such a function       *)
(* exists, and that its value does not depend on the order in which it     *)
(* takes the elements, is shown by a subset that is minimal among those    *)
(* for which it fails.                                                     *)
(***************************************************************************)
EXTENDS FiniteSetsExt, SequencesExt, FiniteSetTheorems, TLAPS

(* The sum of g over the elements of S, and over those of a sequence. *)
Total(g, S) == MapThenSumSet(LAMBDA x : g[x], S)
SeqTotal(g, list) == FoldLeft(LAMBDA sum, x : sum + g[x], 0, list)

(* The recursive function: pick says which element of a set is taken first. *)
SumsUp(it, g, pick, S) ==
  it = [s \in SUBSET S |-> IF s = {} THEN 0 ELSE g[pick[s]] + it[s \ {pick[s]}]]
Picks(pick, S) == \A s \in SUBSET S : s # {} => pick[s] \in s
IntOn(g, S) == \A x \in S : g[x] \in Int
NatOn(g, S) == \A x \in S : g[x] \in Nat

(* A sequence in which no element is repeated. *)
NoRepeat(list) == \A i \in 1..Len(list), j \in 1..Len(list) : list[i] = list[j] => i = j

-----------------------------------------------------------------------------
(* Among subsets of a finite set there is a minimal one. *)
LEMMA MinimalSubset ==
  ASSUME NEW S, IsFiniteSet(S), NEW F \in SUBSET (SUBSET S), F # {}
  PROVE  \E T \in F : \A U \in F : U \subseteq T => U = T
<1>1. FiniteSubsetsOf(S) = SUBSET S
  BY FS_FiniteSubsetsOfFinite
<1>2. IsWellFoundedOn(StrictSubsetOrdering(S), SUBSET S)
  BY <1>1, FS_StrictSubsetOrderingWellFounded
<1>3. \E T \in F : \A U \in F : <<U, T>> \notin StrictSubsetOrdering(S)
  BY <1>2, WFMin
<1> QED
  BY <1>3 DEF StrictSubsetOrdering

(* Induction over the subsets of a finite set, for a set of subsets. *)
LEMMA SubsetInduction ==
  ASSUME NEW S, IsFiniteSet(S), NEW F, {} \in F,
         \A T \in SUBSET S : \A x \in T : T \ {x} \in F => T \in F
  PROVE  \A T \in SUBSET S : T \in F
<1>1. SUFFICES ASSUME {T \in SUBSET S : T \notin F} # {} PROVE FALSE
  OBVIOUS
<1>2. PICK T \in SUBSET S : T \notin F /\ \A U \in SUBSET T : U # T => U \in F
  <2> DEFINE G == {T \in SUBSET S : T \notin F}
  <2>1. \E T \in G : \A U \in G : U \subseteq T => U = T
    <3>1. G \in SUBSET (SUBSET S) /\ G # {}
      BY <1>1
    <3> HIDE DEF G
    <3> QED
      BY <3>1, MinimalSubset
  <2> QED
    BY <2>1
<1>3. PICK x \in T : TRUE
  BY <1>2
<1>4. T \ {x} \in SUBSET T /\ T \ {x} # T
  BY <1>3
<1>5. T \ {x} \in F
  BY <1>2, <1>4
<1> QED
  BY <1>2, <1>3, <1>5

(* Images of finite sets are finite. *)
LEMMA FiniteImage ==
  ASSUME NEW S, IsFiniteSet(S), NEW f
  PROVE  IsFiniteSet({f[x] : x \in S})
<1> DEFINE Image(T) == {f[x] : x \in T}
           F == {T \in SUBSET S : IsFiniteSet(Image(T))}
<1>1. {} \in F
  BY FS_EmptySet
<1>2. ASSUME NEW T \in SUBSET S, NEW x \in T, T \ {x} \in F
      PROVE  T \in F
  <2>1. Image(T) = Image(T \ {x}) \cup {f[x]}
    OBVIOUS
  <2>2. IsFiniteSet(Image(T \ {x}))
    BY <1>2
  <2>3. PICK I, y : I = Image(T \ {x}) /\ y = f[x]
    OBVIOUS
  <2>4. IsFiniteSet(I \cup {y})
    <3>1. IsFiniteSet(I)
      BY <2>2, <2>3
    <3> QED
      BY <3>1, FS_AddElement
  <2> QED
    BY <2>1, <2>3, <2>4
<1>3. \A T \in SUBSET S : T \in F
  <2> HIDE DEF F
  <2> QED
    BY <1>1, <1>2, SubsetInduction
<1> QED
  BY <1>3

(* A finite set of integers has a largest one. *)
LEMMA MaxElement ==
  ASSUME NEW S \in SUBSET Int, IsFiniteSet(S), S # {}
  PROVE  Max(S) \in S /\ \A y \in S : Max(S) >= y
<1> DEFINE F == {T \in SUBSET S : T # {} => \E x \in T : \A y \in T : x >= y}
<1>1. {} \in F
  OBVIOUS
<1>2. ASSUME NEW T \in SUBSET S, NEW x \in T, T \ {x} \in F
      PROVE  T \in F
  <2>1. CASE T = {x}
    BY <2>1
  <2>2. CASE T # {x}
    <3>1. PICK z \in T \ {x} : \A y \in T \ {x} : z >= y
      BY <1>2, <2>2
    <3>2. x \in Int /\ z \in Int /\ T \subseteq Int
      OBVIOUS
    <3>3. CASE x >= z
      BY <3>1, <3>2, <3>3
    <3>4. CASE z >= x
      BY <3>1, <3>2, <3>4
    <3> QED
      BY <3>2, <3>3, <3>4
  <2> QED
    BY <2>1, <2>2
<1>3. \A T \in SUBSET S : T \in F
  <2> HIDE DEF F
  <2> QED
    BY <1>1, <1>2, SubsetInduction
<1> QED
  BY <1>3 DEF Max

(* Two such functions agree where both are defined and pick alike. *)
LEMMA SumUnique ==
  ASSUME NEW S, IsFiniteSet(S), NEW g, NEW pick, Picks(pick, S), NEW T \in SUBSET S,
         NEW a, SumsUp(a, g, pick, S), NEW b, SumsUp(b, g, pick, T)
  PROVE  \A s \in SUBSET T : a[s] = b[s]
<1> DEFINE F == {s \in SUBSET T : a[s] # b[s]}
<1>1. SUFFICES ASSUME F # {} PROVE FALSE
  OBVIOUS
<1>2. IsFiniteSet(T) /\ F \in SUBSET (SUBSET T)
  BY FS_Subset
<1>3. PICK s \in F : \A u \in F : u \subseteq s => u = s
  <2> HIDE DEF F
  <2> QED
    BY <1>1, <1>2, MinimalSubset
<1>4. a[s] = IF s = {} THEN 0 ELSE g[pick[s]] + a[s \ {pick[s]}]
  BY DEF SumsUp
<1>5. b[s] = IF s = {} THEN 0 ELSE g[pick[s]] + b[s \ {pick[s]}]
  BY DEF SumsUp
<1>6. s # {}
  BY <1>4, <1>5
<1>7. pick[s] \in s
  BY <1>6 DEF Picks
<1>8. a[s \ {pick[s]}] = b[s \ {pick[s]}]
  BY <1>3, <1>7
<1> QED
  BY <1>4, <1>5, <1>8

(* There is one. *)
LEMMA SumExists ==
  ASSUME NEW S, IsFiniteSet(S), NEW g, NEW pick, Picks(pick, S)
  PROVE  \E it : SumsUp(it, g, pick, S)
<1> DEFINE F == {T \in SUBSET S : ~\E it : SumsUp(it, g, pick, T)}
<1>1. SUFFICES ASSUME F # {} PROVE FALSE
  OBVIOUS
<1>2. PICK T \in F : \A U \in F : U \subseteq T => U = T
  <2>1. F \in SUBSET (SUBSET S)
    OBVIOUS
  <2> HIDE DEF F
  <2> QED
    BY <1>1, <2>1, MinimalSubset
<1> DEFINE below(s) == CHOOSE it : SumsUp(it, g, pick, s)
<1>3. \A s \in SUBSET T : s # T => SumsUp(below(s), g, pick, s)
  BY <1>2
<1> DEFINE value(s) == IF s = {} THEN 0
                       ELSE g[pick[s]] + below(s \ {pick[s]})[s \ {pick[s]}]
           it == [s \in SUBSET T |-> value(s)]
<1>4. ASSUME NEW s \in SUBSET T, s # {}
      PROVE  it[s \ {pick[s]}] = below(s \ {pick[s]})[s \ {pick[s]}]
  <2> DEFINE r == s \ {pick[s]}
  <2>1. pick[s] \in s /\ r \in SUBSET T /\ r # T
    BY <1>4 DEF Picks
  <2>2. SumsUp(below(r), g, pick, r)
    BY <1>3, <2>1
  <2>3. below(r)[r] = IF r = {} THEN 0 ELSE g[pick[r]] + below(r)[r \ {pick[r]}]
    <3> HIDE DEF below, r
    <3> QED
      BY <2>2 DEF SumsUp
  <2>4. ASSUME r # {} PROVE below(r)[r \ {pick[r]}] = below(r \ {pick[r]})[r \ {pick[r]}]
    <3> DEFINE q == r \ {pick[r]}
    <3>1. pick[r] \in r /\ q \in SUBSET T /\ q # T /\ q \in SUBSET r
      BY <2>1, <2>4 DEF Picks
    <3>2. SumsUp(below(q), g, pick, q)
      BY <1>3, <3>1
    <3>3. IsFiniteSet(r) /\ Picks(pick, r)
      BY <1>2, <2>1, FS_Subset DEF Picks
    <3> HIDE DEF below, q, r
    <3>4. below(r)[q] = below(q)[q]
      BY <2>2, <3>1, <3>2, <3>3, SumUnique
    <3> QED
      BY <3>4 DEF q
  <2>5. it[r] = value(r)
    BY <2>1
  <2> HIDE DEF below, it
  <2> QED
    BY <2>3, <2>4, <2>5
<1>5. SumsUp(it, g, pick, T)
  <2> HIDE DEF below
  <2> QED
    BY <1>4 DEF SumsUp
<1> HIDE DEF it
<1> QED
  BY <1>2, <1>5

(* Every element of a set may be the one that is taken first. *)
LEMMA SumAnyOrder ==
  ASSUME NEW S, IsFiniteSet(S), NEW g, IntOn(g, S), NEW pick, Picks(pick, S),
         NEW it, SumsUp(it, g, pick, S)
  PROVE  /\ it[{}] = 0
         /\ \A s \in SUBSET S : it[s] \in Int
         /\ \A s \in SUBSET S : \A x \in s : it[s] = g[x] + it[s \ {x}]
<1> DEFINE F == {s \in SUBSET S : /\ it[s] \in Int
                                  /\ \A x \in s : it[s] = g[x] + it[s \ {x}]}
<1>1. it[{}] = 0
  BY DEF SumsUp
<1>2. {} \in F
  BY <1>1
<1>3. ASSUME NEW s \in SUBSET S, s # {}, \A u \in SUBSET s : u # s => u \in F
      PROVE  s \in F
  <2> DEFINE y == pick[s]
  <2>1. y \in s /\ it[s] = g[y] + it[s \ {y}] /\ g[y] \in Int
    BY <1>3 DEF SumsUp, Picks, IntOn
  <2> HIDE DEF y
  <2>2. s \ {y} \in F
    BY <1>3, <2>1
  <2>3. it[s] \in Int
    BY <2>1, <2>2
  <2>4. ASSUME NEW x \in s, x # y
        PROVE  it[s] = g[x] + it[s \ {x}]
    <3>1. it[s \ {y}] = g[x] + it[(s \ {y}) \ {x}]
      BY <2>2, <2>4
    <3>2. s \ {x} \in F /\ y \in s \ {x}
      BY <1>3, <2>1, <2>4
    <3>3. it[s \ {x}] = g[y] + it[(s \ {x}) \ {y}]
      BY <3>2
    <3>4. (s \ {x}) \ {y} = (s \ {y}) \ {x} /\ (s \ {x}) \ {y} \in F
      BY <1>3, <2>1, <2>4
    <3>5. g[x] \in Int /\ it[(s \ {x}) \ {y}] \in Int
      BY <3>4 DEF IntOn
    <3> DEFINE z == it[(s \ {x}) \ {y}]
    <3>6. it[s] = g[y] + (g[x] + z) /\ it[s \ {x}] = g[y] + z
      BY <2>1, <3>1, <3>3, <3>4
    <3>7. z \in Int /\ g[x] \in Int /\ g[y] \in Int
      BY <2>1, <3>5
    <3> HIDE DEF z
    <3>8. g[y] + (g[x] + z) = g[x] + (g[y] + z)
      BY <3>7
    <3> QED
      BY <3>6, <3>8
  <2> QED
    BY <2>1, <2>3, <2>4
<1>4. \A s \in SUBSET S : s \in F
  <2> DEFINE G == {s \in SUBSET S : s \notin F}
  <2>1. SUFFICES ASSUME G # {} PROVE FALSE
    OBVIOUS
  <2>2. PICK s \in G : \A u \in G : u \subseteq s => u = s
    <3>1. G \in SUBSET (SUBSET S)
      OBVIOUS
    <3> HIDE DEF G
    <3> QED
      BY <2>1, <3>1, MinimalSubset
  <2> HIDE DEF F
  <2> QED
    BY <1>2, <1>3, <2>2
<1> QED
  BY <1>1, <1>4

(* The order in which the elements are taken does not matter. *)
LEMMA SumsAgree ==
  ASSUME NEW S, IsFiniteSet(S), NEW g, NEW h, IntOn(g, S), \A x \in S : g[x] = h[x],
         NEW p, Picks(p, S), NEW a, SumsUp(a, g, p, S),
         NEW q, Picks(q, S), NEW b, SumsUp(b, h, q, S)
  PROVE  a[S] = b[S]
<1> DEFINE F == {s \in SUBSET S : a[s] = b[s]}
<1>1. IntOn(h, S)
  BY DEF IntOn
<1>2. /\ a[{}] = 0 /\ b[{}] = 0
      /\ \A s \in SUBSET S : \A x \in s : a[s] = g[x] + a[s \ {x}] /\ b[s] = h[x] + b[s \ {x}]
  BY <1>1, SumAnyOrder
<1>3. {} \in F /\ \A s \in SUBSET S : \A x \in s : s \ {x} \in F => s \in F
  BY <1>2
<1>4. \A s \in SUBSET S : s \in F
  <2> HIDE DEF F
  <2> QED
    BY <1>3, SubsetInduction
<1> QED
  BY <1>4

-----------------------------------------------------------------------------
(* MapThenSumSet is such a sum. *)
LEMMA TotalIsSum ==
  ASSUME NEW S, IsFiniteSet(S), NEW g
  PROVE  LET pick == [s \in SUBSET S |-> CHOOSE x \in s : TRUE]
         IN  Picks(pick, S) /\ \E it : SumsUp(it, g, pick, S) /\ Total(g, S) = it[S]
<1> DEFINE pick == [s \in SUBSET S |-> CHOOSE x \in s : TRUE]
           body(it) == [s \in SUBSET S |->
                          IF s = {} THEN 0
                          ELSE LET x == CHOOSE x \in s : TRUE IN g[x] + it[s \ {x}]]
           iter == CHOOSE it : it = body(it)
<1>1. Total(g, S) = iter[S]
  BY DEF Total, MapThenSumSet, MapThenFoldSet
<1>2. Picks(pick, S)
  BY DEF Picks
<1>3. \A it : SumsUp(it, g, pick, S) <=> it = body(it)
  BY DEF SumsUp
<1>4. \E it : SumsUp(it, g, pick, S)
  <2> HIDE DEF pick
  <2> QED
    BY <1>2, SumExists
<1>5. SumsUp(iter, g, pick, S)
  <2>1. \E it : it = body(it)
    <3>1. PICK it : SumsUp(it, g, pick, S)
      BY <1>4
    <3>2. it = body(it)
      BY <1>3, <3>1
    <3> HIDE DEF body
    <3> QED
      BY <3>2
  <2>2. iter = body(iter)
    <3> HIDE DEF body
    <3> QED
      BY <2>1
  <2> HIDE DEF iter, body
  <2> QED
    BY <1>3, <2>2
<1> QED
  BY <1>1, <1>2, <1>5

(* Any sum in any order is the total. *)
LEMMA SumIsTotal ==
  ASSUME NEW S, IsFiniteSet(S), NEW g, IntOn(g, S),
         NEW pick, Picks(pick, S), NEW it, SumsUp(it, g, pick, S)
  PROVE  it[S] = Total(g, S)
<1>1. PICK q, b : Picks(q, S) /\ SumsUp(b, g, q, S) /\ Total(g, S) = b[S]
  BY TotalIsSum
<1> QED
  BY <1>1, SumsAgree

(* The empty sum, and the sum with one element taken out.                   *)
THEOREM TotalEmpty == \A g : Total(g, {}) = 0
<1> SUFFICES ASSUME NEW g PROVE Total(g, {}) = 0
  OBVIOUS
<1>1. PICK q, b : SumsUp(b, g, q, {}) /\ Total(g, {}) = b[{}]
  BY TotalIsSum, FS_EmptySet
<1> QED
  BY <1>1 DEF SumsUp

THEOREM TotalElement ==
  ASSUME NEW S, IsFiniteSet(S), NEW g, IntOn(g, S), NEW x \in S
  PROVE  Total(g, S) = g[x] + Total(g, S \ {x})
<1>1. PICK q, b : Picks(q, S) /\ SumsUp(b, g, q, S) /\ Total(g, S) = b[S]
  BY TotalIsSum
<1>2. Total(g, S) = g[x] + b[S \ {x}]
  BY <1>1, SumAnyOrder
<1>3. /\ IsFiniteSet(S \ {x}) /\ Picks(q, S \ {x}) /\ IntOn(g, S \ {x})
  BY <1>1, FS_Subset DEF Picks, IntOn
<1>4. PICK c : SumsUp(c, g, q, S \ {x})
  BY <1>3, SumExists
<1>5. c[S \ {x}] = Total(g, S \ {x})
  BY <1>3, <1>4, SumIsTotal
<1>6. b[S \ {x}] = c[S \ {x}]
  BY <1>1, <1>3, <1>4, SumUnique
<1> QED
  BY <1>2, <1>5, <1>6

THEOREM TotalInt ==
  ASSUME NEW S, IsFiniteSet(S), NEW g, IntOn(g, S)
  PROVE  Total(g, S) \in Int
<1>1. PICK q, b : Picks(q, S) /\ SumsUp(b, g, q, S) /\ Total(g, S) = b[S]
  BY TotalIsSum
<1> QED
  BY <1>1, SumAnyOrder

(* A sum that is described in any way, if it is one when there is one.      *)
LEMMA ChosenSum ==
  ASSUME NEW S, IsFiniteSet(S), NEW g, IntOn(g, S), NEW pick, Picks(pick, S),
         NEW it, (\E i : SumsUp(i, g, pick, S)) => SumsUp(it, g, pick, S)
  PROVE  it[S] = Total(g, S)
<1>1. \E i : SumsUp(i, g, pick, S)
  BY SumExists
<1> QED
  BY <1>1, SumIsTotal

(* The sum over a set depends on the summands of that set alone.            *)
THEOREM TotalSame ==
  ASSUME NEW S, IsFiniteSet(S), NEW g, NEW h, IntOn(g, S), \A x \in S : g[x] = h[x]
  PROVE  Total(g, S) = Total(h, S)
<1>1. PICK p, a : Picks(p, S) /\ SumsUp(a, g, p, S) /\ Total(g, S) = a[S]
  BY TotalIsSum
<1>2. PICK q, b : Picks(q, S) /\ SumsUp(b, h, q, S) /\ Total(h, S) = b[S]
  BY TotalIsSum
<1> QED
  BY <1>1, <1>2, SumsAgree

(* The sum over a set with one more element. *)
THEOREM TotalAdd ==
  ASSUME NEW S, IsFiniteSet(S), NEW g, NEW x, x \notin S, IntOn(g, S \cup {x})
  PROVE  Total(g, S \cup {x}) = g[x] + Total(g, S)
<1>1. IsFiniteSet(S \cup {x})
  BY FS_AddElement
<1>2. Total(g, S \cup {x}) = g[x] + Total(g, (S \cup {x}) \ {x})
  BY <1>1, TotalElement
<1>3. (S \cup {x}) \ {x} = S
  OBVIOUS
<1> QED
  BY <1>2, <1>3

(* The sum when one summand changes. *)
THEOREM TotalChange ==
  ASSUME NEW S, IsFiniteSet(S), NEW g, NEW h, IntOn(g, S), IntOn(h, S), NEW x \in S,
         \A y \in S \ {x} : g[y] = h[y]
  PROVE  Total(h, S) = Total(g, S) - g[x] + h[x]
<1>1. IsFiniteSet(S \ {x}) /\ IntOn(g, S \ {x}) /\ g[x] \in Int /\ h[x] \in Int
  BY FS_Subset DEF IntOn
<1>2. Total(g, S \ {x}) = Total(h, S \ {x}) /\ Total(g, S \ {x}) \in Int
  BY <1>1, TotalSame, TotalInt
<1>3. /\ Total(g, S) = g[x] + Total(g, S \ {x})
      /\ Total(h, S) = h[x] + Total(h, S \ {x})
  BY TotalElement
<1> QED
  BY <1>1, <1>2, <1>3

(* A sum of natural numbers is one. *)
THEOREM TotalNat ==
  ASSUME NEW S, IsFiniteSet(S), NEW g, NatOn(g, S)
  PROVE  Total(g, S) \in Nat
<1> DEFINE F == {T \in SUBSET S : Total(g, T) \in Nat}
<1>1. {} \in F
  BY TotalEmpty
<1>2. ASSUME NEW T \in SUBSET S, NEW x \in T, T \ {x} \in F
      PROVE  T \in F
  <2>1. IsFiniteSet(T) /\ IntOn(g, T) /\ g[x] \in Nat
    BY FS_Subset DEF NatOn, IntOn
  <2>2. Total(g, T) = g[x] + Total(g, T \ {x})
    BY <2>1, TotalElement
  <2> QED
    BY <1>2, <2>1, <2>2
<1>3. \A T \in SUBSET S : T \in F
  <2> HIDE DEF F
  <2> QED
    BY <1>1, <1>2, SubsetInduction
<1> QED
  BY <1>3

(* The sum over a set is that over two parts. *)
THEOREM TotalSplit ==
  ASSUME NEW S, IsFiniteSet(S), NEW g, IntOn(g, S), NEW A
  PROVE  Total(g, S) = Total(g, S \cap A) + Total(g, S \ A)
<1> DEFINE F == {T \in SUBSET S : Total(g, T) = Total(g, T \cap A) + Total(g, T \ A)}
<1>1. {} \in F
  BY TotalEmpty, {} \cap A = {}, {} \ A = {}
<1>2. ASSUME NEW T \in SUBSET S, NEW x \in T, T \ {x} \in F
      PROVE  T \in F
  <2>1. /\ IsFiniteSet(T) /\ IsFiniteSet(T \cap A) /\ IsFiniteSet(T \ A)
        /\ IsFiniteSet((T \ {x}) \cap A) /\ IsFiniteSet((T \ {x}) \ A)
    BY FS_Subset
  <2>2. /\ IntOn(g, T) /\ IntOn(g, T \cap A) /\ IntOn(g, T \ A) /\ g[x] \in Int
        /\ IntOn(g, (T \ {x}) \cap A) /\ IntOn(g, (T \ {x}) \ A)
    BY DEF IntOn
  <2>3. Total(g, T) = g[x] + Total(g, T \ {x})
    BY <2>1, <2>2, TotalElement
  <2> DEFINE a == Total(g, (T \ {x}) \cap A)
             b == Total(g, (T \ {x}) \ A)
  <2>4. a \in Int /\ b \in Int
    BY <2>1, <2>2, TotalInt
  <2>5. CASE x \in A
    <3>1. (T \ {x}) \cap A = (T \cap A) \ {x} /\ (T \ {x}) \ A = T \ A /\ x \in T \cap A
      BY <2>5
    <3>2. Total(g, T \cap A) = g[x] + Total(g, (T \cap A) \ {x})
      BY <2>1, <2>2, <3>1, TotalElement
    <3>3. Total(g, T) = g[x] + (a + b) /\ Total(g, T \cap A) = g[x] + a /\ Total(g, T \ A) = b
      BY <1>2, <2>3, <3>1, <3>2
    <3> HIDE DEF a, b
    <3>4. Total(g, T) = Total(g, T \cap A) + Total(g, T \ A)
      BY <2>2, <2>4, <3>3
    <3> QED
      BY <3>4
  <2>6. CASE x \notin A
    <3>1. (T \ {x}) \cap A = T \cap A /\ (T \ {x}) \ A = (T \ A) \ {x} /\ x \in T \ A
      BY <2>6
    <3>2. Total(g, T \ A) = g[x] + Total(g, (T \ A) \ {x})
      BY <2>1, <2>2, <3>1, TotalElement
    <3>3. Total(g, T) = g[x] + (a + b) /\ Total(g, T \cap A) = a /\ Total(g, T \ A) = g[x] + b
      BY <1>2, <2>3, <3>1, <3>2
    <3> HIDE DEF a, b
    <3>4. Total(g, T) = Total(g, T \cap A) + Total(g, T \ A)
      BY <2>2, <2>4, <3>3
    <3> QED
      BY <3>4
  <2> QED
    BY <2>5, <2>6
<1>3. \A T \in SUBSET S : T \in F
  <2> HIDE DEF F
  <2> QED
    BY <1>1, <1>2, SubsetInduction
<1> QED
  BY <1>3

(* A larger set has no smaller sum. *)
THEOREM TotalMonotone ==
  ASSUME NEW S, IsFiniteSet(S), NEW g, NatOn(g, S), NEW T \in SUBSET S
  PROVE  Total(g, T) \in Nat /\ Total(g, S) \in Nat /\ Total(g, T) =< Total(g, S)
<1>1. /\ IsFiniteSet(T) /\ IsFiniteSet(S \ T) /\ S \cap T = T
      /\ NatOn(g, T) /\ NatOn(g, S \ T) /\ IntOn(g, S)
  BY FS_Subset DEF NatOn, IntOn
<1>2. Total(g, S) = Total(g, T) + Total(g, S \ T)
  BY <1>1, TotalSplit
<1>3. Total(g, T) \in Nat /\ Total(g, S \ T) \in Nat
  BY <1>1, TotalNat
<1> QED
  BY <1>2, <1>3

(* Larger summands have no smaller sum. *)
THEOREM TotalOrdered ==
  ASSUME NEW S, IsFiniteSet(S), NEW g, NEW h, IntOn(g, S), IntOn(h, S),
         \A x \in S : g[x] =< h[x]
  PROVE  Total(g, S) =< Total(h, S)
<1> DEFINE F == {T \in SUBSET S : Total(g, T) =< Total(h, T)}
<1>1. {} \in F
  BY TotalEmpty
<1>2. ASSUME NEW T \in SUBSET S, NEW x \in T, T \ {x} \in F
      PROVE  T \in F
  <2>1. /\ IsFiniteSet(T) /\ IsFiniteSet(T \ {x})
        /\ IntOn(g, T) /\ IntOn(h, T) /\ IntOn(g, T \ {x}) /\ IntOn(h, T \ {x})
        /\ g[x] \in Int /\ h[x] \in Int /\ g[x] =< h[x]
    BY FS_Subset DEF IntOn
  <2>2. /\ Total(g, T) = g[x] + Total(g, T \ {x})
        /\ Total(h, T) = h[x] + Total(h, T \ {x})
    BY <2>1, TotalElement
  <2>3. Total(g, T \ {x}) \in Int /\ Total(h, T \ {x}) \in Int
    BY <2>1, TotalInt
  <2> QED
    BY <1>2, <2>1, <2>2, <2>3
<1>3. \A T \in SUBSET S : T \in F
  <2> HIDE DEF F
  <2> QED
    BY <1>1, <1>2, SubsetInduction
<1> QED
  BY <1>3

(* A sum over one set by an index from another, one to one.                 *)
THEOREM TotalReindexed ==
  ASSUME NEW S, IsFiniteSet(S), NEW g, NEW f, NEW h,
         \A x \in S : h[x] = g[f[x]] /\ g[f[x]] \in Int,
         \A x \in S, y \in S : f[x] = f[y] => x = y
  PROVE  Total(h, S) = Total(g, {f[x] : x \in S})
<1> DEFINE Image(T) == {f[x] : x \in T}
           F == {T \in SUBSET S : Total(h, T) = Total(g, Image(T))}
<1>1. {} \in F
  <2>1. Image({}) = {}
    OBVIOUS
  <2> HIDE DEF Image
  <2> QED
    BY <2>1, TotalEmpty
<1>2. ASSUME NEW T \in SUBSET S, NEW x \in T, T \ {x} \in F
      PROVE  T \in F
  <2>1. Image(T) \ {f[x]} = Image(T \ {x}) /\ f[x] \in Image(T)
    OBVIOUS
  <2>2. IntOn(g, Image(T)) /\ IntOn(h, T)
    BY DEF IntOn
  <2>3. IsFiniteSet(T) /\ IsFiniteSet(Image(T))
    BY FS_Subset, FiniteImage DEF Image
  <2> HIDE DEF Image
  <2>4. Total(h, T) = h[x] + Total(h, T \ {x})
    BY <2>2, <2>3, TotalElement
  <2>5. Total(g, Image(T)) = g[f[x]] + Total(g, Image(T \ {x}))
    BY <2>1, <2>2, <2>3, TotalElement
  <2> QED
    BY <1>2, <2>4, <2>5
<1>3. \A T \in SUBSET S : T \in F
  <2> HIDE DEF F
  <2> QED
    BY <1>1, <1>2, SubsetInduction
<1> QED
  BY <1>3

-----------------------------------------------------------------------------
(* The sum over a sequence takes the indices from the last to the first.    *)
Along(g, list) == [i \in 1..Len(list) |-> g[list[i]]]

LEMMA SeqTotalIsTotal ==
  ASSUME NEW S, NEW list \in Seq(S), NEW g, IntOn(g, S)
  PROVE  /\ SeqTotal(g, list) = Total(Along(g, list), 1..Len(list))
         /\ IntOn(Along(g, list), 1..Len(list))
<1>n. PICK n \in Nat : n = Len(list)
  OBVIOUS
<1>i. PICK I : I = 1..n
  OBVIOUS
<1>0. n = Len(list) /\ I = 1..n
  BY <1>n, <1>i
<1> DEFINE h == Along(g, list)
           pick == [s \in SUBSET (I) |-> Max(s)]
           body(it) == [s \in SUBSET (I) |->
                          IF s = {} THEN 0
                          ELSE LET i == Max(s) IN it[s \ {i}] + g[list[i]]]
           iter == CHOOSE it : it = body(it)
<1>1. DOMAIN list = I /\ IsFiniteSet(I)
  BY <1>0, FS_Interval
<1>2. SeqTotal(g, list) = iter[I]
  BY <1>1 DEF SeqTotal, FoldLeft, MapThenFoldSet
<1>3. Picks(pick, I)
  <2> SUFFICES ASSUME NEW s \in SUBSET (I), s # {} PROVE Max(s) \in s
    BY DEF Picks
  <2>1. IsFiniteSet(s)
    BY <1>1, FS_Subset
  <2>2. s \in SUBSET Int
    BY <1>0
  <2> QED
    BY <2>1, <2>2, MaxElement
<1>4. IntOn(h, I)
  BY <1>0, <1>1 DEF IntOn, Along
<1>5. PICK a : SumsUp(a, h, pick, I)
  <2> HIDE DEF pick, h
  <2> QED
    BY <1>1, <1>3, SumExists
<1>6. /\ a[{}] = 0 /\ \A s \in SUBSET (I) : a[s] \in Int
      /\ a = [s \in SUBSET (I) |-> IF s = {} THEN 0 ELSE h[pick[s]] + a[s \ {pick[s]}]]
  <2> HIDE DEF pick, h
  <2>1. a[{}] = 0 /\ \A s \in SUBSET I : a[s] \in Int
    BY <1>1, <1>3, <1>4, <1>5, SumAnyOrder
  <2>2. a = [s \in SUBSET I |-> IF s = {} THEN 0 ELSE h[pick[s]] + a[s \ {pick[s]}]]
    BY <1>5 DEF SumsUp
  <2> QED
    BY <2>1, <2>2
<1>7. ASSUME NEW s \in SUBSET (I), s # {}
      PROVE  /\ h[pick[s]] + a[s \ {pick[s]}] = a[s \ {Max(s)}] + g[list[Max(s)]]
             /\ pick[s] = Max(s) /\ Max(s) \in s
  <2>1. pick[s] = Max(s) /\ Max(s) \in I /\ Max(s) \in s
    BY <1>3, <1>7 DEF Picks
  <2>2. h[Max(s)] = g[list[Max(s)]]
    BY <1>0, <2>1 DEF Along
  <2>3. h[Max(s)] \in Int /\ a[s \ {Max(s)}] \in Int
    BY <1>4, <1>6, <2>1 DEF IntOn
  <2> HIDE DEF h, pick
  <2> QED
    BY <2>1, <2>2, <2>3
<1>8. a = body(a)
  <2> HIDE DEF pick, h
  <2> QED
    BY <1>6, <1>7
<1>9. iter = body(iter)
  <2> HIDE DEF body
  <2> QED
    BY <1>8
<1>10. iter[I] = a[I]
  <2> DEFINE F == {s \in SUBSET (I) : iter[s] # a[s]}
  <2>1. SUFFICES ASSUME F # {} PROVE FALSE
    BY DEF iter
  <2>2. PICK s \in F : \A u \in F : u \subseteq s => u = s
    <3>1. F \in SUBSET (SUBSET (I))
      OBVIOUS
    <3> HIDE DEF F
    <3> QED
      BY <1>1, <2>1, <3>1, MinimalSubset
  <2>3. iter[s] = IF s = {} THEN 0 ELSE iter[s \ {Max(s)}] + g[list[Max(s)]]
    <3> HIDE DEF iter
    <3> QED
      BY <1>9
  <2>4. a[s] = IF s = {} THEN 0 ELSE a[s \ {Max(s)}] + g[list[Max(s)]]
    BY <1>8
  <2> HIDE DEF iter, pick
  <2>5. s # {}
    BY <2>3, <2>4
  <2>6. Max(s) \in s
    BY <1>7, <2>5
  <2>7. iter[s \ {Max(s)}] = a[s \ {Max(s)}]
    BY <2>2, <2>6
  <2> QED
    BY <2>3, <2>4, <2>7
<1>11. a[I] = Total(h, I)
  <2> HIDE DEF pick, h
  <2> QED
    BY <1>1, <1>3, <1>4, <1>5, SumIsTotal
<1> HIDE DEF iter
<1> QED
  BY <1>0, <1>2, <1>4, <1>10, <1>11

(* The empty sequence adds up to nothing, and an appended element adds its  *)
(* own value.                                                               *)
THEOREM SeqTotalEmpty == \A g : SeqTotal(g, << >>) = 0
<1> SUFFICES ASSUME NEW g PROVE SeqTotal(g, << >>) = 0
  OBVIOUS
<1>1. << >> \in Seq({}) /\ IntOn(g, {}) /\ 1..Len(<< >>) = {}
  BY DEF IntOn
<1>2. SeqTotal(g, << >>) = Total(Along(g, << >>), 1..Len(<< >>))
  BY <1>1, SeqTotalIsTotal
<1> QED
  BY <1>1, <1>2, TotalEmpty

THEOREM SeqTotalAppend ==
  ASSUME NEW S, NEW list \in Seq(S), NEW g, IntOn(g, S), NEW x \in S
  PROVE  SeqTotal(g, Append(list, x)) = SeqTotal(g, list) + g[x]
<1> DEFINE longer == Append(list, x)
<1>0. PICK n \in Nat : n = Len(list)
  OBVIOUS
<1>1. /\ longer \in Seq(S) /\ Len(longer) = n + 1 /\ longer[n + 1] = x
      /\ \A i \in 1..n : longer[i] = list[i]
  BY <1>0
<1> HIDE DEF longer
<1>2. /\ SeqTotal(g, longer) = Total(Along(g, longer), 1..(n + 1))
      /\ IntOn(Along(g, longer), 1..(n + 1))
  BY <1>1, SeqTotalIsTotal
<1>3. /\ SeqTotal(g, list) = Total(Along(g, list), 1..n)
      /\ IntOn(Along(g, list), 1..n)
  BY <1>0, SeqTotalIsTotal
<1>4. /\ IsFiniteSet(1..n) /\ IsFiniteSet(1..(n + 1))
      /\ n + 1 \in 1..(n + 1) /\ (1..(n + 1)) \ {n + 1} = 1..n
  <2>1. n + 1 \in 1..(n + 1) /\ (1..(n + 1)) \ {n + 1} = 1..n
    OBVIOUS
  <2>2. 1 \in Int /\ n \in Int /\ n + 1 \in Int
    OBVIOUS
  <2>3. IsFiniteSet(1..n) /\ IsFiniteSet(1..(n + 1))
    BY <2>2, FS_Interval
  <2> QED
    BY <2>1, <2>3
<1>5. /\ Along(g, longer)[n + 1] = g[x]
      /\ \A i \in 1..n : Along(g, list)[i] = Along(g, longer)[i]
  BY <1>0, <1>1 DEF Along
<1>6. Total(Along(g, longer), 1..(n + 1)) = g[x] + Total(Along(g, longer), 1..n)
  BY <1>2, <1>4, <1>5, TotalElement
<1>7. Total(Along(g, list), 1..n) = Total(Along(g, longer), 1..n)
  BY <1>3, <1>4, <1>5, TotalSame
<1>8. g[x] \in Int /\ Total(Along(g, list), 1..n) \in Int
  BY <1>3, <1>4, TotalInt DEF IntOn
<1> QED
  BY <1>2, <1>3, <1>6, <1>7, <1>8 DEF longer

(* The sum over a sequence of natural numbers is one.                       *)
THEOREM SeqTotalNat ==
  ASSUME NEW S, NEW list \in Seq(S), NEW g, NatOn(g, S)
  PROVE  SeqTotal(g, list) \in Nat
<1>1. IntOn(g, S)
  BY DEF NatOn, IntOn
<1>2. SeqTotal(g, list) = Total(Along(g, list), 1..Len(list))
  BY <1>1, SeqTotalIsTotal
<1>3. IsFiniteSet(1..Len(list))
  BY FS_Interval
<1>4. NatOn(Along(g, list), 1..Len(list))
  BY DEF NatOn, Along
<1> QED
  BY <1>2, <1>3, <1>4, TotalNat

(* A sequence without duplicates adds up to the sum over its elements.      *)
THEOREM SeqTotalDistinct ==
  ASSUME NEW S, NEW list \in Seq(S), NEW g, IntOn(g, S), NoRepeat(list)
  PROVE  SeqTotal(g, list) = Total(g, ToSet(list))
<1>1. SeqTotal(g, list) = Total(Along(g, list), 1..Len(list))
  BY SeqTotalIsTotal
<1>2. ToSet(list) = {list[i] : i \in 1..Len(list)}
  BY DEF ToSet
<1>3. IsFiniteSet(1..Len(list))
  BY FS_Interval
<1>4. \A i \in 1..Len(list) : Along(g, list)[i] = g[list[i]] /\ g[list[i]] \in Int
  BY DEF Along, IntOn
<1> QED
  BY <1>1, <1>2, <1>3, <1>4, TotalReindexed DEF NoRepeat

(* The sums over two sequences of the same length, element by element.      *)
THEOREM SeqTotalSame ==
  ASSUME NEW S, NEW list \in Seq(S), NEW g, NEW h, IntOn(g, S),
         \A i \in 1..Len(list) : g[list[i]] = h[list[i]], IntOn(h, S)
  PROVE  SeqTotal(g, list) = SeqTotal(h, list)
<1>1. /\ SeqTotal(g, list) = Total(Along(g, list), 1..Len(list))
      /\ SeqTotal(h, list) = Total(Along(h, list), 1..Len(list))
      /\ IntOn(Along(g, list), 1..Len(list))
  BY SeqTotalIsTotal
<1>2. \A i \in 1..Len(list) : Along(g, list)[i] = Along(h, list)[i]
  BY DEF Along
<1>3. IsFiniteSet(1..Len(list))
  BY FS_Interval
<1> QED
  BY <1>1, <1>2, <1>3, TotalSame

(* Appending an element adds it to the elements, and repeats none if it is  *)
(* a new one.                                                               *)
THEOREM AppendElements ==
  ASSUME NEW S, NEW list \in Seq(S), NEW x \in S
  PROVE  /\ Append(list, x) \in Seq(S)
         /\ ToSet(list) \subseteq S
         /\ ToSet(Append(list, x)) = ToSet(list) \cup {x}
         /\ NoRepeat(list) /\ x \notin ToSet(list) => NoRepeat(Append(list, x))
<1> DEFINE longer == Append(list, x)
<1>0. PICK n \in Nat : n = Len(list)
  OBVIOUS
<1>1. /\ longer \in Seq(S) /\ Len(longer) = n + 1 /\ longer[n + 1] = x
      /\ \A i \in 1..n : longer[i] = list[i]
  BY <1>0
<1> HIDE DEF longer
<1>2. ToSet(list) = {list[i] : i \in 1..n} /\ ToSet(list) \subseteq S
  BY <1>0 DEF ToSet
<1>3. ToSet(longer) = {longer[i] : i \in 1..(n + 1)}
  BY <1>1 DEF ToSet
<1>4. \A i \in 1..(n + 1) : i \in 1..n \/ i = n + 1
  OBVIOUS
<1>5. \A i \in 1..n : i \in 1..(n + 1) /\ i # n + 1
  OBVIOUS
<1>6. n + 1 \in 1..(n + 1)
  OBVIOUS
<1>7. ToSet(longer) = ToSet(list) \cup {x}
  BY <1>1, <1>2, <1>3, <1>4, <1>5, <1>6
<1>8. ASSUME NoRepeat(list), x \notin ToSet(list)
      PROVE  NoRepeat(longer)
  <2>1. \A i \in 1..n : longer[i] # x
    BY <1>1, <1>2, <1>8
  <2> QED
    BY <1>0, <1>1, <1>4, <1>8, <2>1 DEF NoRepeat
<1> QED
  BY <1>1, <1>2, <1>7, <1>8 DEF longer

(* The sum of differences is the difference of the sums.                    *)
THEOREM TotalMinus ==
  ASSUME NEW S, IsFiniteSet(S), NEW f, NEW d, NEW h, IntOn(f, S), IntOn(d, S),
         \A x \in S : h[x] = f[x] - d[x]
  PROVE  Total(h, S) = Total(f, S) - Total(d, S)
<1> DEFINE F == {T \in SUBSET S : Total(h, T) = Total(f, T) - Total(d, T)}
<1>0. IntOn(h, S)
  BY DEF IntOn
<1>1. {} \in F
  <2>1. Total(h, {}) = 0 /\ Total(f, {}) = 0 /\ Total(d, {}) = 0
    BY TotalEmpty
  <2> QED
    BY <2>1
<1>2. ASSUME NEW T \in SUBSET S, NEW x \in T, T \ {x} \in F
      PROVE  T \in F
  <2>1. IsFiniteSet(T) /\ IsFiniteSet(T \ {x})
    BY FS_Subset
  <2>2. /\ IntOn(h, T) /\ IntOn(f, T) /\ IntOn(d, T)
        /\ IntOn(h, T \ {x}) /\ IntOn(f, T \ {x}) /\ IntOn(d, T \ {x})
    BY <1>0 DEF IntOn
  <2>3. /\ Total(h, T) = h[x] + Total(h, T \ {x})
        /\ Total(f, T) = f[x] + Total(f, T \ {x})
        /\ Total(d, T) = d[x] + Total(d, T \ {x})
    BY <2>1, <2>2, TotalElement
  <2>4. PICK a \in Int, b \in Int, p \in Int, q \in Int :
          a = f[x] /\ b = d[x] /\ p = Total(f, T \ {x}) /\ q = Total(d, T \ {x})
    BY <2>1, <2>2, TotalInt DEF IntOn
  <2>5. h[x] = a - b /\ Total(h, T \ {x}) = p - q
    BY <1>2, <2>4
  <2>6. (a - b) + (p - q) = (a + p) - (b + q)
    OBVIOUS
  <2> QED
    BY <2>3, <2>4, <2>5, <2>6
<1>3. \A T \in SUBSET S : T \in F
  <2> HIDE DEF F
  <2> QED
    BY <1>1, <1>2, SubsetInduction
<1> QED
  BY <1>3

(* The sum when one element gets a new summand, or is new.                  *)
THEOREM TotalPut ==
  ASSUME NEW S, IsFiniteSet(S), NEW g, IntOn(g, S), NEW x, NEW h, h[x] \in Int,
         \A y \in S : y # x => h[y] = g[y]
  PROVE  /\ IntOn(h, S \cup {x})
         /\ x \in S => Total(h, S \cup {x}) = Total(g, S) - g[x] + h[x]
         /\ x \notin S => Total(h, S \cup {x}) = Total(g, S) + h[x]
<1>1. IntOn(h, S \cup {x})
  BY DEF IntOn
<1>2. CASE x \in S
  <2>1. S \cup {x} = S /\ IntOn(h, S) /\ \A y \in S \ {x} : g[y] = h[y]
    BY <1>1, <1>2 DEF IntOn
  <2>2. Total(h, S) = Total(g, S) - g[x] + h[x]
    BY <1>2, <2>1, TotalChange
  <2>3. Total(g, S) \in Int /\ g[x] \in Int
    BY <1>2, TotalInt DEF IntOn
  <2> QED
    BY <1>1, <1>2, <2>1, <2>2, <2>3
<1>3. CASE x \notin S
  <2>1. Total(h, S \cup {x}) = h[x] + Total(h, S)
    BY <1>1, <1>3, TotalAdd
  <2>2. Total(g, S) = Total(h, S)
    BY <1>3, TotalSame
  <2>3. Total(g, S) \in Int
    BY TotalInt
  <2> QED
    BY <1>1, <1>3, <2>1, <2>2, <2>3
<1> QED
  BY <1>2, <1>3

(* Sequences whose elements have the same summands in the same places.      *)
THEOREM SeqTotalAlike ==
  ASSUME NEW S, NEW list \in Seq(S), NEW other \in Seq(S), NEW g, IntOn(g, S),
         Len(other) = Len(list), \A i \in 1..Len(list) : g[other[i]] = g[list[i]]
  PROVE  SeqTotal(g, other) = SeqTotal(g, list)
<1>1. /\ SeqTotal(g, list) = Total(Along(g, list), 1..Len(list))
      /\ SeqTotal(g, other) = Total(Along(g, other), 1..Len(other))
      /\ IntOn(Along(g, list), 1..Len(list))
  BY SeqTotalIsTotal
<1>2. \A i \in 1..Len(list) : Along(g, list)[i] = Along(g, other)[i]
  BY DEF Along
<1>3. IsFiniteSet(1..Len(list))
  BY FS_Interval
<1>4. Total(Along(g, list), 1..Len(list)) = Total(Along(g, other), 1..Len(list))
  BY <1>1, <1>2, <1>3, TotalSame
<1> QED
  BY <1>1, <1>4

(* What whole-number division keeps, for any divisor.                       *)
THEOREM DivisionBound ==
  ASSUME NEW a \in Nat, NEW s \in Nat \ {0}
  PROVE  a \div s \in Nat /\ (a \div s) * s =< a
<1>1. a \div s \in Nat
  OBVIOUS
<1>2. (a \div s) * s =< a
  OBVIOUS
<1> QED
  BY <1>1, <1>2

THEOREM TimesMonotone ==
  ASSUME NEW a \in Nat, NEW b \in Nat, a =< b, NEW c \in Nat
  PROVE  a * c \in Nat /\ b * c \in Nat /\ a * c =< b * c
<1>1. PICK d \in Nat : b = a + d
  <2>1. b - a \in Nat /\ b = a + (b - a)
    OBVIOUS
  <2> QED
    BY <2>1
<1>2. PICK m \in Nat, n \in Nat : m = a * c /\ n = d * c
  OBVIOUS
<1>3. b * c = m + n
  BY <1>1, <1>2
<1> QED
  BY <1>2, <1>3

THEOREM TimesCancels ==
  ASSUME NEW a \in Nat, NEW b \in Nat, NEW c \in Nat \ {0}, a * c =< b * c
  PROVE  a =< b
<1> SUFFICES ASSUME b < a PROVE FALSE
  OBVIOUS
<1>1. b + 1 =< a /\ b + 1 \in Nat
  OBVIOUS
<1>2. (b + 1) * c =< a * c
  BY <1>1, TimesMonotone
<1>3. PICK n \in Nat : n = b * c
  OBVIOUS
<1>4. (b + 1) * c = n + c
  BY <1>3
<1>5. PICK m \in Nat : m = a * c
  OBVIOUS
<1> QED
  BY <1>2, <1>3, <1>4, <1>5

(* Shares of a whole in proportion to g, none rounded up: together no more. *)
THEOREM SharesFit ==
  ASSUME NEW S, IsFiniteSet(S), NEW g, NatOn(g, S), NEW h, NatOn(h, S),
         NEW whole \in Nat, NEW sum \in Nat \ {0}, sum = Total(g, S),
         \A x \in S : h[x] * sum =< whole * g[x]
  PROVE  Total(h, S) \in Nat /\ Total(h, S) =< whole
<1> DEFINE Fits(T) == Total(h, T) * sum =< whole * Total(g, T)
           F == {T \in SUBSET S : Fits(T)}
<1>1. {} \in F
  <2>1. Total(h, {}) = 0 /\ Total(g, {}) = 0
    BY TotalEmpty
  <2>2. 0 * sum = 0 /\ whole * 0 = 0
    OBVIOUS
  <2> QED
    BY <2>1, <2>2
<1>2. ASSUME NEW T \in SUBSET S, NEW x \in T, T \ {x} \in F
      PROVE  T \in F
  <2>1. IsFiniteSet(T) /\ IsFiniteSet(T \ {x})
    BY FS_Subset
  <2>2. NatOn(h, T) /\ NatOn(h, T \ {x}) /\ NatOn(g, T) /\ NatOn(g, T \ {x})
    BY DEF NatOn
  <2>3. IntOn(h, T) /\ IntOn(g, T)
    BY DEF NatOn, IntOn
  <2>4. PICK a \in Nat, b \in Nat : a = Total(h, T \ {x}) /\ b = Total(g, T \ {x})
    BY <2>1, <2>2, TotalNat
  <2>5. PICK c \in Nat, d \in Nat : c = h[x] /\ d = g[x]
    BY DEF NatOn
  <2>6. Total(h, T) = c + a /\ Total(g, T) = d + b
    BY <2>1, <2>3, <2>4, <2>5, TotalElement
  <2>7. a * sum =< whole * b
    BY <1>2, <2>4
  <2>8. c * sum =< whole * d
    BY <2>5
  <2>9. PICK p \in Nat, r \in Nat : p = a * sum /\ r = c * sum
    OBVIOUS
  <2>10. PICK q \in Nat, t \in Nat : q = whole * b /\ t = whole * d
    OBVIOUS
  <2>11. (c + a) * sum = r + p
    BY <2>9
  <2>12. whole * (d + b) = t + q
    BY <2>10
  <2>13. (c + a) * sum =< whole * (d + b)
    BY <2>7, <2>8, <2>9, <2>10, <2>11, <2>12
  <2> QED
    BY <2>6, <2>13
<1>3. \A T \in SUBSET S : T \in F
  <2> HIDE DEF F
  <2> QED
    BY <1>1, <1>2, SubsetInduction
<1>4. Total(h, S) * sum =< whole * sum
  BY <1>3
<1>5. Total(h, S) \in Nat
  BY TotalNat
<1> QED
  BY <1>4, <1>5, TimesCancels

(* Summands that are zero outside of a subset. *)
THEOREM TotalOutside ==
  ASSUME NEW S, IsFiniteSet(S), NEW g, IntOn(g, S), NEW D \in SUBSET S,
         \A x \in S \ D : g[x] = 0
  PROVE  Total(g, S) = Total(g, D)
<1>0. PICK R : R = S \ D
  OBVIOUS
<1> DEFINE F == {T \in SUBSET R : Total(g, D \cup T) = Total(g, D)}
<1>1. {} \in F
  BY D \cup {} = D
<1>2. ASSUME NEW T \in SUBSET R, NEW x \in T, T \ {x} \in F
      PROVE  T \in F
  <2>1. IsFiniteSet(D \cup T) /\ IntOn(g, D \cup T)
    BY <1>0, FS_Subset DEF IntOn
  <2>2. (D \cup T) \ {x} = D \cup (T \ {x}) /\ x \in D \cup T
    BY <1>0
  <2>3. Total(g, D \cup T) = g[x] + Total(g, D \cup (T \ {x}))
    BY <2>1, <2>2, TotalElement
  <2>4. IsFiniteSet(D) /\ IntOn(g, D)
    BY FS_Subset DEF IntOn
  <2>5. Total(g, D) \in Int
    BY <2>4, TotalInt
  <2>6. g[x] = 0 /\ Total(g, D \cup (T \ {x})) = Total(g, D)
    BY <1>0, <1>2
  <2> QED
    BY <2>3, <2>5, <2>6
<1>3. IsFiniteSet(R)
  BY <1>0, FS_Subset
<1>4. \A T \in SUBSET R : T \in F
  <2> HIDE DEF F
  <2> QED
    BY <1>1, <1>2, <1>3, SubsetInduction
<1>5. Total(g, D \cup (S \ D)) = Total(g, D) /\ D \cup (S \ D) = S
  BY <1>0, <1>4
<1> QED
  BY <1>5
=============================================================================
