---------------------------- MODULE EnergyProofs ----------------------------
(***************************************************************************)
(* Proofs about EnergyCoverage and EnergyReaders, for any messages of any  *)
(* devices, any bounds on times and rows, and any order in which rows      *)
(* arrive: Evaluate returns the longest prefix of a period that the rows   *)
(* prove, and coverage, dashboard and bill agree about the rows.           *)
(*                                                                         *)
(* The loops of the code are folds; each is proved as the sequence of its  *)
(* turns, by an invariant of the turns.                                    *)
(***************************************************************************)
EXTENDS EnergyReaders, FiniteSetTheorems, WellFoundedInduction, TLAPS

-----------------------------------------------------------------------------
(* Loops *)

\* A set of numbers has a least one.  What a loop computes is proved with it: the
\* first turn that breaks the claim is not there.
LEMMA LeastNumber ==
  ASSUME NEW S, S \subseteq Nat, S # {}
  PROVE  \E m \in S : \A k \in S : m <= k
  <1> DEFINE R == OpToRel(<, Nat)
  <1>1. IsWellFoundedOn(R, Nat)
    BY NatLessThanWellFounded
  <1>2. \A x, y \in Nat : <<y, x>> \in R <=> y < x
    BY DEF OpToRel
  <1> HIDE DEF R
  <1>3. PICK x \in S : \A y \in S : ~(<<y, x>> \in R)
    BY <1>1, WFMin
  <1>4. ASSUME NEW y \in S PROVE x <= y
    <2>1. x \in Nat /\ y \in Nat
      OBVIOUS
    <2>2. ~(y < x)
      BY <2>1, <1>2, <1>3
    <2> QED BY <2>1, <2>2
  <1> QED BY <1>4

\* FoldLeft takes the greatest index first.
LEMMA MaxOfSet ==
  ASSUME NEW n \in Nat, NEW s \in SUBSET (1..n), s # {}
  PROVE  Max(s) \in s /\ \A y \in s : y <= Max(s)
  <1> DEFINE B == {m \in Nat : \A y \in s : y <= m}
  <1>1. n \in B
    OBVIOUS
  <1>2. PICK b \in B : \A k \in B : b <= k
    <2> HIDE DEF B
    <2>1. B \subseteq Nat
      BY DEF B
    <2> QED BY <1>1, <2>1, LeastNumber
  <1>3. b \in s
    <2>1. SUFFICES ASSUME b \notin s PROVE FALSE
      OBVIOUS
    <2>2. b \in Nat /\ b > 0
      <3>1. PICK y \in s : TRUE
        OBVIOUS
      <3>2. y \in Nat /\ y >= 1 /\ y <= b /\ b \in Nat
        BY <1>2
      <3> QED BY <3>2
    <2>3. b - 1 \in B
      BY <2>1, <2>2
    <2> QED BY <2>3, <1>2
  <1>4. \E x \in s : \A y \in s : x >= y
    BY <1>2, <1>3
  <1>5. Max(s) \in s /\ \A y \in s : Max(s) >= y
    BY <1>4, Zenon DEF Max
  <1> QED BY <1>5

\* Of the first i indices it is the last.
LEMMA MaxOfInterval ==
  ASSUME NEW i \in Nat, i >= 1
  PROVE  Max(1..i) = i
  <1>1. i \in 1..i
    OBVIOUS
  <1>2. 1..i # {}
    BY <1>1
  <1>3. Max(1..i) \in 1..i /\ i <= Max(1..i)
    BY <1>1, <1>2, MaxOfSet
  <1> QED BY <1>3

\* The turns of a loop over n elements, each a function of the value so far.
TurnFunctions(V, n) == [1..n -> [V -> V]]

\* The value g[s] after the elements with the indices in s, as a fold defines it.
IsTurns(g, V, base, n, f) ==
    /\ g \in [SUBSET (1..n) -> V]
    /\ \A s \in SUBSET (1..n) :
          g[s] = IF s = {} THEN base ELSE f[Max(s)][g[s \ {Max(s)}]]

\* There are such values.
LEMMA TurnsExist ==
  ASSUME NEW V, NEW base \in V, NEW n \in Nat, NEW f \in TurnFunctions(V, n)
  PROVE  \E g : IsTurns(g, V, base, n, f)
  <1> USE DEF TurnFunctions
  <1> DEFINE P(m) == \E g \in [SUBSET (1..m) -> V] : \A s \in SUBSET (1..m) :
                        g[s] = IF s = {} THEN base ELSE f[Max(s)][g[s \ {Max(s)}]]
             Bad == {m \in 0..n : ~P(m)}
  <1>1. P(0)
    <2> DEFINE g == [s \in SUBSET (1..0) |-> base]
    <2>1. SUBSET (1..0) = {{}}
      OBVIOUS
    <2>2. g \in [SUBSET (1..0) -> V]
      OBVIOUS
    <2>3. \A s \in SUBSET (1..0) :
             g[s] = IF s = {} THEN base ELSE f[Max(s)][g[s \ {Max(s)}]]
      BY <2>1
    <2> HIDE DEF g
    <2> QED BY <2>2, <2>3
  <1>2. ASSUME NEW m \in 1..n, P(m - 1) PROVE P(m)
    <2>1. PICK g \in [SUBSET (1..(m - 1)) -> V] : \A s \in SUBSET (1..(m - 1)) :
             g[s] = IF s = {} THEN base ELSE f[Max(s)][g[s \ {Max(s)}]]
      BY <1>2
    <2> DEFINE h == [s \in SUBSET (1..m) |-> IF m \in s THEN f[m][g[s \ {m}]] ELSE g[s]]
    <2>2. \A s \in SUBSET (1..m) : /\ s \ {m} \in SUBSET (1..(m - 1))
                                   /\ m \notin s => s \in SUBSET (1..(m - 1))
      OBVIOUS
    <2>3. h \in [SUBSET (1..m) -> V]
      BY <2>1, <2>2
    <2>4. ASSUME NEW s \in SUBSET (1..m)
          PROVE  h[s] = IF s = {} THEN base ELSE f[Max(s)][h[s \ {Max(s)}]]
      <3>1. CASE m \in s
        <4>1. Max(s) = m
          <5>1. m \in Nat
            OBVIOUS
          <5>2. Max(s) \in s /\ m <= Max(s)
            BY <3>1, <5>1, MaxOfSet
          <5>3. Max(s) \in 1..m
            BY <5>2
          <5> QED BY <5>1, <5>2, <5>3
        <4>2. h[s] = f[m][g[s \ {m}]]
          BY <3>1
        <4>3. s \ {m} \in SUBSET (1..m) /\ m \notin s \ {m}
          OBVIOUS
        <4>4. h[s \ {m}] = g[s \ {m}]
          BY <4>3
        <4> HIDE DEF h
        <4> QED BY <4>1, <4>2, <4>4, <3>1
      <3>2. CASE m \notin s
        <4>1. h[s] = g[s] /\ s \in SUBSET (1..(m - 1))
          BY <3>2, <2>2
        <4>2. CASE s = {}
          BY <4>1, <4>2, <2>1
        <4>3. CASE s # {}
          <5>1. Max(s) \in s
            BY <4>3, MaxOfSet, m \in Nat
          <5>2. s \ {Max(s)} \in SUBSET (1..m) /\ m \notin s \ {Max(s)}
            BY <3>2
          <5>3. h[s \ {Max(s)}] = g[s \ {Max(s)}]
            BY <5>2
          <5> HIDE DEF h
          <5> QED BY <4>1, <4>3, <5>3, <2>1
        <4> QED BY <4>2, <4>3
      <3> QED BY <3>1, <3>2
    <2> HIDE DEF h
    <2> QED BY <2>3, <2>4
  <1> HIDE DEF P
  <1>3. Bad = {}
    <2>1. SUFFICES ASSUME Bad # {} PROVE FALSE
      OBVIOUS
    <2>2. PICK m \in Bad : \A k \in Bad : m <= k
      <3> HIDE DEF Bad
      <3>1. Bad \subseteq Nat
        BY DEF Bad
      <3> QED BY <2>1, <3>1, LeastNumber
    <2>3. m \in 1..n /\ ~P(m)
      BY <2>2, <1>1
    <2>4. P(m - 1)
      BY <2>2, <2>3
    <2> QED BY <2>3, <2>4, <1>2
  <1>4. P(n)
    BY <1>3
  <1> QED BY <1>4 DEF P, IsTurns

\* A non-empty family of subsets of a finite set has a smallest one.
LEMMA LeastSet ==
  ASSUME NEW S, IsFiniteSet(S), NEW F, F \subseteq SUBSET S, F # {}
  PROVE  \E s \in F : \A u \in F : Cardinality(s) <= Cardinality(u)
  <1> DEFINE C == {Cardinality(s) : s \in F}
  <1>1. C \subseteq Nat
    <2>1. ASSUME NEW s \in F PROVE Cardinality(s) \in Nat
      <3>1. s \in SUBSET S
        OBVIOUS
      <3>2. IsFiniteSet(s)
        BY <3>1, FS_Subset
      <3> QED BY <3>2, FS_CardinalityType
    <2> QED BY <2>1
  <1>2. C # {}
    OBVIOUS
  <1>3. PICK m \in C : \A k \in C : m <= k
    <2> HIDE DEF C
    <2> QED BY <1>1, <1>2, LeastNumber
  <1>4. PICK s \in F : Cardinality(s) = m
    OBVIOUS
  <1> QED BY <1>3, <1>4

-----------------------------------------------------------------------------
(* Sorting *)

\* A strict total order on the elements of a set, as a set of pairs.
IsOrder(S, R) ==
    /\ \A x \in S : <<x, x>> \notin R
    /\ \A x, y, z \in S : <<x, y>> \in R /\ <<y, z>> \in R => <<x, z>> \in R
    /\ \A x, y \in S : x = y \/ <<x, y>> \in R \/ <<y, x>> \in R

\* q lists the elements of S in the order R.
Lists(q, S, R) ==
    /\ q \in [1..Cardinality(S) -> S]
    /\ \A x \in S : \E i \in 1..Cardinality(S) : q[i] = x
    /\ \A i, j \in 1..Cardinality(S) : i < j => <<q[i], q[j]>> \in R

\* The elements before one are fewer than those before a later one.
LEMMA RankGrows ==
  ASSUME NEW S, IsFiniteSet(S), NEW R, IsOrder(S, R), NEW x \in S, NEW y \in S,
         <<x, y>> \in R
  PROVE  Cardinality({z \in S : <<z, x>> \in R}) < Cardinality({z \in S : <<z, y>> \in R})
  <1> DEFINE A == {z \in S : <<z, x>> \in R}
             B == {z \in S : <<z, y>> \in R}
  <1>1. A \in SUBSET B
    BY DEF IsOrder
  <1>2. x \in B /\ x \notin A
    BY DEF IsOrder
  <1>3. B \in SUBSET S
    OBVIOUS
  <1> HIDE DEF A, B
  <1>4. IsFiniteSet(B)
    BY <1>3, FS_Subset
  <1>5. Cardinality(A) <= Cardinality(B) /\ Cardinality(A) # Cardinality(B) /\ IsFiniteSet(A)
    BY <1>1, <1>2, <1>4, FS_Subset
  <1>6. Cardinality(A) \in Nat /\ Cardinality(B) \in Nat
    BY <1>4, <1>5, FS_CardinalityType
  <1> QED BY <1>5, <1>6 DEF A, B

\* An element takes the place that the number of elements before it says.
LEMMA SortedByLists ==
  ASSUME NEW S, IsFiniteSet(S), NEW R, IsOrder(S, R)
  PROVE  Lists(SortedBy(S, R), S, R)
  <1> DEFINE n == Cardinality(S)
             Rank(x) == Cardinality({y \in S : <<y, x>> \in R})
             f == [x \in S |-> Rank(x)]
             q == SortedBy(S, R)
  <1>1. n \in Nat
    BY FS_CardinalityType
  <1>2. ASSUME NEW x \in S PROVE Rank(x) \in 0..(n - 1)
    <2> DEFINE A == {y \in S : <<y, x>> \in R}
    <2>1. A \in SUBSET S /\ A # S
      BY DEF IsOrder
    <2> HIDE DEF A
    <2>2. IsFiniteSet(A) /\ Cardinality(A) <= n /\ Cardinality(A) # n
      BY <2>1, FS_Subset
    <2>3. Cardinality(A) \in Nat
      BY <2>2, FS_CardinalityType
    <2>4. Cardinality(A) \in 0..(n - 1)
      <3> HIDE DEF n
      <3> QED BY <1>1, <2>2, <2>3
    <2> QED BY <2>4 DEF A
  <1>3. ASSUME NEW x \in S, NEW y \in S, <<x, y>> \in R PROVE Rank(x) < Rank(y)
    BY <1>3, RankGrows
  <1> HIDE DEF Rank, n
  <1>4. ASSUME NEW x \in S, NEW y \in S, Rank(x) = Rank(y) PROVE x = y
    <2>1. Rank(x) \in Int
      BY <1>1, <1>2
    <2>2. ~(Rank(x) < Rank(y)) /\ ~(Rank(y) < Rank(x))
      BY <1>4, <2>1
    <2>3. <<x, y>> \notin R /\ <<y, x>> \notin R
      BY <1>3, <2>2
    <2> QED BY <2>3 DEF IsOrder
  <1>5. f \in Injection(S, 0..(n - 1))
    BY <1>2, <1>4 DEF Injection, IsInjective
  <1>6. IsFiniteSet(0..(n - 1)) /\ Cardinality(0..(n - 1)) = n
    <2>1. 0 \in Int /\ n - 1 \in Int
      BY <1>1
    <2>2. IsFiniteSet(0..(n - 1)) /\ Cardinality(0..(n - 1)) = IF 0 > n - 1 THEN 0 ELSE (n - 1) - 0 + 1
      BY <2>1, FS_Interval
    <2> QED BY <1>1, <2>2
  <1>7. f \in Surjection(S, 0..(n - 1))
    <2> HIDE DEF f
    <2> QED BY <1>5, <1>6, FS_Injection DEF n
  <1>8. ASSUME NEW k \in 1..n PROVE q[k] \in S /\ Rank(q[k]) = k - 1
    <2>1. k - 1 \in 0..(n - 1)
      BY <1>1
    <2>2. \E x \in S : Rank(x) = k - 1
      BY <1>7, <2>1 DEF Surjection
    <2>3. q[k] = CHOOSE x \in S : Rank(x) = k - 1
      BY DEF SortedBy, Rank, n
    <2> HIDE DEF q
    <2> QED BY <2>2, <2>3
  <1>9. q \in [1..n -> S]
    <2>1. q = [k \in 1..n |-> CHOOSE x \in S : Rank(x) = k - 1]
      BY DEF SortedBy, Rank, n
    <2>2. \A k \in 1..n : (CHOOSE x \in S : Rank(x) = k - 1) \in S
      <3> HIDE DEF q
      <3> QED BY <1>8, <2>1
    <2> HIDE DEF q
    <2> QED BY <2>1, <2>2
  <1> HIDE DEF q
  <1>10. ASSUME NEW x \in S PROVE \E i \in 1..n : q[i] = x
    <2>1. Rank(x) + 1 \in 1..n
      BY <1>1, <1>2
    <2>2. Rank(q[Rank(x) + 1]) = Rank(x) /\ q[Rank(x) + 1] \in S
      <3>1. Rank(x) \in Int
        BY <1>1, <1>2
      <3> QED BY <1>8, <2>1, <3>1
    <2> QED BY <1>4, <2>1, <2>2
  <1>11. ASSUME NEW i \in 1..n, NEW j \in 1..n, i < j PROVE <<q[i], q[j]>> \in R
    <2>1. /\ q[i] \in S /\ q[j] \in S /\ Rank(q[i]) = i - 1 /\ Rank(q[j]) = j - 1
      BY <1>8
    <2>2. ~(Rank(q[j]) < Rank(q[i])) /\ Rank(q[i]) # Rank(q[j])
      BY <1>1, <1>11, <2>1
    <2>3. q[i] # q[j] /\ <<q[j], q[i]>> \notin R
      BY <1>3, <2>1, <2>2
    <2> QED BY <2>1, <2>3 DEF IsOrder
  <1> QED BY <1>9, <1>10, <1>11 DEF Lists, q, n

-----------------------------------------------------------------------------
(* Sums of energy *)

\* The sum over each subset of S, taking away one element at a time.
IsSums(g, S) ==
    /\ g \in [SUBSET S -> Nat]
    /\ \A s \in SUBSET S :
          g[s] = IF s = {} THEN 0
                 ELSE (CHOOSE x \in s : TRUE).kwh + g[s \ {CHOOSE x \in s : TRUE}]

\* Rows, evidence or observations with their energy.
Metered(S) == IsFiniteSet(S) /\ \A x \in S : x.kwh \in Nat

\* The energy of a set of them.
KwhSum(S) == MapThenSumSet(LAMBDA x : x.kwh, S)

\* The recursion of MapThenSumSet has a solution.
LEMMA SumsExist ==
  ASSUME NEW S, Metered(S)
  PROVE  \E g : IsSums(g, S)
  <1> DEFINE Small(m) == {s \in SUBSET S : Cardinality(s) <= m}
             Pick(s) == CHOOSE x \in s : TRUE
             P(m) == \E g \in [Small(m) -> Nat] : \A s \in Small(m) :
                        g[s] = IF s = {} THEN 0 ELSE Pick(s).kwh + g[s \ {Pick(s)}]
             n == Cardinality(S)
             Bad == {m \in 0..n : ~P(m)}
  <1>0. n \in Nat
    BY FS_CardinalityType DEF Metered
  <1>1. ASSUME NEW s \in SUBSET S PROVE IsFiniteSet(s) /\ Cardinality(s) \in Nat /\ Cardinality(s) <= n
    <2>1. IsFiniteSet(s) /\ Cardinality(s) <= n
      BY FS_Subset DEF Metered
    <2> QED BY <2>1, FS_CardinalityType
  <1>2. ASSUME NEW s \in SUBSET S, s # {}
        PROVE  /\ Pick(s) \in s /\ s \ {Pick(s)} \in SUBSET S
               /\ Cardinality(s \ {Pick(s)}) = Cardinality(s) - 1
               /\ Cardinality(s) >= 1
    <2>1. Pick(s) \in s
      BY <1>2
    <2> HIDE DEF Pick
    <2>2. Cardinality(s \ {Pick(s)}) = Cardinality(s) - 1
      BY <1>1, <2>1, FS_RemoveElement
    <2>3. Cardinality(s) # 0
      BY <1>1, <1>2, FS_EmptySet
    <2>4. Cardinality(s) >= 1
      BY <1>1, <2>3
    <2> QED BY <2>1, <2>2, <2>4
  <1> HIDE DEF Pick, n
  <1>3. P(0)
    <2> DEFINE g == [s \in Small(0) |-> 0]
    <2>1. ASSUME NEW s \in Small(0) PROVE s = {}
      <3>1. s \in SUBSET S /\ Cardinality(s) <= 0
        OBVIOUS
      <3>2. Cardinality(s) = 0
        BY <1>1, <3>1
      <3> QED BY <1>1, <3>1, <3>2, FS_EmptySet
    <2>2. g \in [Small(0) -> Nat]
      OBVIOUS
    <2>3. \A s \in Small(0) : g[s] = IF s = {} THEN 0 ELSE Pick(s).kwh + g[s \ {Pick(s)}]
      <3> HIDE DEF Small
      <3> QED BY <2>1
    <2> HIDE DEF g, Small
    <2> QED BY <2>2, <2>3
  <1>4. ASSUME NEW m \in 1..n, P(m - 1) PROVE P(m)
    <2>1. PICK g \in [Small(m - 1) -> Nat] : \A s \in Small(m - 1) :
             g[s] = IF s = {} THEN 0 ELSE Pick(s).kwh + g[s \ {Pick(s)}]
      BY <1>4
    <2> DEFINE h == [s \in Small(m) |-> IF s = {} THEN 0 ELSE Pick(s).kwh + g[s \ {Pick(s)}]]
    <2>2. ASSUME NEW s \in Small(m), s # {} PROVE s \ {Pick(s)} \in Small(m - 1) /\ Pick(s).kwh \in Nat
      <3>1. s \in SUBSET S /\ Cardinality(s) <= m
        OBVIOUS
      <3>2. Cardinality(s) - 1 <= m - 1
        BY <1>0, <1>1, <3>1
      <3>3. Pick(s) \in S
        BY <1>2, <2>2, <3>1
      <3> QED BY <1>2, <2>2, <3>1, <3>2, <3>3 DEF Metered
    <2>3. h \in [Small(m) -> Nat]
      <3>1. ASSUME NEW s \in Small(m) PROVE h[s] \in Nat
        <4>1. CASE s = {}
          BY <4>1
        <4>2. CASE s # {}
          <5>1. h[s] = Pick(s).kwh + g[s \ {Pick(s)}]
            BY <4>2
          <5>2. g[s \ {Pick(s)}] \in Nat /\ Pick(s).kwh \in Nat
            BY <2>1, <2>2, <4>2
          <5> HIDE DEF h
          <5> QED BY <5>1, <5>2
        <4> QED BY <4>1, <4>2
      <3> HIDE DEF Small
      <3> QED BY <3>1
    <2>4. ASSUME NEW s \in Small(m - 1) PROVE s \in Small(m) /\ h[s] = g[s]
      <3>1. s \in SUBSET S /\ Cardinality(s) <= m - 1
        OBVIOUS
      <3>2. s \in Small(m)
        BY <1>0, <1>1, <3>1
      <3> HIDE DEF Small
      <3> QED BY <2>1, <3>2
    <2>5. \A s \in Small(m) : h[s] = IF s = {} THEN 0 ELSE Pick(s).kwh + h[s \ {Pick(s)}]
      <3> HIDE DEF Small
      <3> QED BY <2>2, <2>4
    <2> HIDE DEF h, Small
    <2> QED BY <2>3, <2>5
  <1>5. Bad = {}
    <2> HIDE DEF P
    <2>1. SUFFICES ASSUME Bad # {} PROVE FALSE
      OBVIOUS
    <2>2. PICK m \in Bad : \A k \in Bad : m <= k
      <3> HIDE DEF Bad
      <3>1. Bad \subseteq Nat
        BY <1>0 DEF Bad
      <3> QED BY <2>1, <3>1, LeastNumber
    <2>3. m \in 1..n /\ ~P(m)
      BY <1>0, <1>3, <2>2
    <2>4. P(m - 1)
      BY <1>0, <2>2, <2>3
    <2> QED BY <1>4, <2>3, <2>4
  <1>6. P(n)
    <2> HIDE DEF P
    <2> QED BY <1>0, <1>5
  <1>7. Small(n) = SUBSET S
    BY <1>1
  <1>8. PICK g \in [Small(n) -> Nat] : \A s \in Small(n) :
             g[s] = IF s = {} THEN 0 ELSE Pick(s).kwh + g[s \ {Pick(s)}]
    BY <1>6
  <1> HIDE DEF Small
  <1>9. IsSums(g, S)
    BY <1>7, <1>8 DEF IsSums, Pick
  <1> QED BY <1>9

\* The sum over a set is one of those.
LEMMA SumOfSums ==
  ASSUME NEW S, Metered(S)
  PROVE  \E g : IsSums(g, S) /\ KwhSum(S) = g[S]
  <1> DEFINE Turn(g) == [s \in SUBSET S |->
                 IF s = {} THEN 0
                 ELSE (CHOOSE x \in s : TRUE).kwh + g[s \ {CHOOSE x \in s : TRUE}]]
             iter == CHOOSE g : g = Turn(g)
  <1>1. KwhSum(S) = iter[S]
    BY DEF KwhSum, MapThenSumSet, MapThenFoldSet
  <1>2. PICK g : IsSums(g, S)
    BY SumsExist
  <1>3. g = Turn(g)
    BY <1>2 DEF IsSums
  <1>4. iter = Turn(iter)
    <2> HIDE DEF Turn
    <2> QED BY <1>3, Zenon
  <1> HIDE DEF iter
  <1> DEFINE Bad == {s \in SUBSET S : iter[s] # g[s]}
  <1>5. Bad = {}
    <2>1. SUFFICES ASSUME Bad # {} PROVE FALSE
      OBVIOUS
    <2>2. PICK s \in Bad : \A u \in Bad : Cardinality(s) <= Cardinality(u)
      <3> HIDE DEF Bad
      <3>1. Bad \subseteq SUBSET S
        BY DEF Bad
      <3> QED BY <2>1, <3>1, LeastSet DEF Metered
    <2>3. s \in SUBSET S /\ iter[s] # g[s] /\ IsFiniteSet(s)
      BY <2>2, FS_Subset DEF Metered
    <2>4. s # {}
      BY <1>3, <1>4, <2>3
    <2> DEFINE c == CHOOSE x \in s : TRUE
    <2>5. c \in s
      BY <2>4
    <2>6. iter[s] = c.kwh + iter[s \ {c}]
      BY <1>4, <2>3, <2>4
    <2>7. g[s] = c.kwh + g[s \ {c}]
      BY <1>3, <2>3, <2>4
    <2> HIDE DEF c
    <2>8. s \ {c} \in SUBSET S /\ Cardinality(s \ {c}) = Cardinality(s) - 1 /\ Cardinality(s) \in Nat
      BY <2>3, <2>5, FS_RemoveElement, FS_CardinalityType
    <2>9. s \ {c} \notin Bad
      <3> HIDE DEF Bad
      <3> QED BY <2>2, <2>8
    <2> QED BY <2>3, <2>6, <2>7, <2>8, <2>9
  <1>6. iter[S] = g[S]
    BY <1>5
  <1> QED BY <1>1, <1>2, <1>6

\* Two ways of adding up agree where both are defined.
LEMMA SumsAgree ==
  ASSUME NEW S, Metered(S), NEW A \in SUBSET S, NEW g, IsSums(g, S), NEW h, IsSums(h, A)
  PROVE  g[A] = h[A]
  <1> DEFINE Bad == {s \in SUBSET A : g[s] # h[s]}
  <1>0. IsFiniteSet(A)
    BY FS_Subset DEF Metered
  <1>1. Bad = {}
    <2>1. SUFFICES ASSUME Bad # {} PROVE FALSE
      OBVIOUS
    <2>2. PICK s \in Bad : \A u \in Bad : Cardinality(s) <= Cardinality(u)
      <3> HIDE DEF Bad
      <3>1. Bad \subseteq SUBSET A
        BY DEF Bad
      <3> QED BY <1>0, <2>1, <3>1, LeastSet
    <2>3. s \in SUBSET A /\ s \in SUBSET S /\ g[s] # h[s] /\ IsFiniteSet(s)
      BY <1>0, <2>2, FS_Subset
    <2>4. s # {}
      BY <2>3 DEF IsSums
    <2> DEFINE c == CHOOSE x \in s : TRUE
    <2>5. c \in s
      BY <2>4
    <2>6. g[s] = c.kwh + g[s \ {c}]
      BY <2>3, <2>4 DEF IsSums
    <2>7. h[s] = c.kwh + h[s \ {c}]
      BY <2>3, <2>4 DEF IsSums
    <2> HIDE DEF c
    <2>8. s \ {c} \in SUBSET A /\ Cardinality(s \ {c}) = Cardinality(s) - 1 /\ Cardinality(s) \in Nat
      BY <2>3, <2>5, FS_RemoveElement, FS_CardinalityType
    <2>9. s \ {c} \notin Bad
      <3> HIDE DEF Bad
      <3> QED BY <2>2, <2>8
    <2> QED BY <2>3, <2>6, <2>7, <2>8, <2>9
  <1> QED BY <1>1

\* The sum over a set: nothing of an empty one, else an element and the rest.
LEMMA SumTakesOne ==
  ASSUME NEW S, Metered(S)
  PROVE  /\ KwhSum(S) \in Nat
         /\ S = {} => KwhSum(S) = 0
         /\ S # {} => \E c \in S : KwhSum(S) = c.kwh + KwhSum(S \ {c})
  <1>1. PICK g : IsSums(g, S) /\ KwhSum(S) = g[S]
    BY SumOfSums
  <1>2. S \in SUBSET S
    OBVIOUS
  <1>3. KwhSum(S) \in Nat
    BY <1>1, <1>2 DEF IsSums
  <1>4. ASSUME S = {} PROVE KwhSum(S) = 0
    BY <1>1, <1>2, <1>4 DEF IsSums
  <1>5. ASSUME S # {} PROVE \E c \in S : KwhSum(S) = c.kwh + KwhSum(S \ {c})
    <2> DEFINE c == CHOOSE x \in S : TRUE
    <2>1. c \in S
      BY <1>5
    <2>2. g[S] = c.kwh + g[S \ {c}]
      BY <1>1, <1>2, <1>5 DEF IsSums
    <2> HIDE DEF c
    <2>3. S \ {c} \in SUBSET S /\ Metered(S \ {c})
      BY FS_RemoveElement DEF Metered
    <2>4. PICK h : IsSums(h, S \ {c}) /\ KwhSum(S \ {c}) = h[S \ {c}]
      BY <2>3, SumOfSums
    <2>5. g[S \ {c}] = h[S \ {c}]
      BY <1>1, <2>3, <2>4, SumsAgree
    <2> QED BY <1>1, <2>1, <2>2, <2>4, <2>5
  <1> QED BY <1>3, <1>4, <1>5

\* So has every part of them.
LEMMA SubsetMetered ==
  ASSUME NEW S, Metered(S), NEW A \in SUBSET S
  PROVE  Metered(A)
  BY FS_Subset DEF Metered

\* It does not matter which element.
LEMMA SumTakesAny ==
  ASSUME NEW S, Metered(S), NEW y \in S
  PROVE  KwhSum(S) = y.kwh + KwhSum(S \ {y})
  <1> DEFINE Bad == {s \in SUBSET S : \E x \in s : KwhSum(s) # x.kwh + KwhSum(s \ {x})}
  <1>1. Bad = {}
    <2>1. SUFFICES ASSUME Bad # {} PROVE FALSE
      OBVIOUS
    <2>2. PICK s \in Bad : \A u \in Bad : Cardinality(s) <= Cardinality(u)
      <3> HIDE DEF Bad
      <3>1. Bad \subseteq SUBSET S
        BY DEF Bad
      <3> QED BY <2>1, <3>1, LeastSet DEF Metered
    <2>3. PICK x \in s : KwhSum(s) # x.kwh + KwhSum(s \ {x})
      BY <2>2
    <2>4. s \in SUBSET S /\ Metered(s) /\ IsFiniteSet(s)
      BY <2>2, SubsetMetered DEF Metered
    <2>5. PICK c \in s : KwhSum(s) = c.kwh + KwhSum(s \ {c})
      BY <2>3, <2>4, SumTakesOne
    <2>6. c # x
      BY <2>3, <2>5
    <2>7. ASSUME NEW z \in s PROVE s \ {z} \in SUBSET S /\ s \ {z} \notin Bad
      <3>1. Cardinality(s \ {z}) = Cardinality(s) - 1 /\ Cardinality(s) \in Nat
        BY <2>4, FS_RemoveElement, FS_CardinalityType
      <3> HIDE DEF Bad
      <3> QED BY <2>2, <2>4, <3>1
    <2>8. KwhSum(s \ {c}) = x.kwh + KwhSum((s \ {c}) \ {x})
      BY <2>6, <2>7
    <2>9. KwhSum(s \ {x}) = c.kwh + KwhSum((s \ {x}) \ {c})
      BY <2>6, <2>7
    <2>10. (s \ {c}) \ {x} = (s \ {x}) \ {c}
      OBVIOUS
    <2>11. x.kwh \in Nat /\ c.kwh \in Nat
      BY <2>4 DEF Metered
    <2>12. KwhSum((s \ {x}) \ {c}) \in Nat
      <3>1. (s \ {x}) \ {c} \in SUBSET S
        BY <2>4
      <3>2. Metered((s \ {x}) \ {c})
        BY <3>1, SubsetMetered
      <3> QED BY <3>2, SumTakesOne
    <2>13. \A a, b, k \in Nat : a + (b + k) = b + (a + k)
      OBVIOUS
    <2>14. KwhSum(s) = c.kwh + (x.kwh + KwhSum((s \ {x}) \ {c}))
      BY <2>5, <2>8, <2>10
    <2> QED BY <2>3, <2>9, <2>11, <2>12, <2>13, <2>14
  <1>2. S \notin Bad
    BY <1>1
  <1> QED BY <1>2

\* Fewer readings do not have more energy.
LEMMA SumOfSubset ==
  ASSUME NEW S, Metered(S), NEW A \in SUBSET S
  PROVE  KwhSum(A) <= KwhSum(S)
  <1> DEFINE Bad == {s \in SUBSET S : \E a \in SUBSET s : ~(KwhSum(a) <= KwhSum(s))}
  <1>1. Bad = {}
    <2>1. SUFFICES ASSUME Bad # {} PROVE FALSE
      OBVIOUS
    <2>2. PICK s \in Bad : \A u \in Bad : Cardinality(s) <= Cardinality(u)
      <3> HIDE DEF Bad
      <3>1. Bad \subseteq SUBSET S
        BY DEF Bad
      <3> QED BY <2>1, <3>1, LeastSet DEF Metered
    <2>3. PICK a \in SUBSET s : ~(KwhSum(a) <= KwhSum(s))
      BY <2>2
    <2>4. s \in SUBSET S /\ a \in SUBSET S /\ Metered(s) /\ Metered(a) /\ IsFiniteSet(s)
      BY <2>2, <2>3, SubsetMetered DEF Metered
    <2>5. KwhSum(a) \in Nat /\ KwhSum(s) \in Nat
      BY <2>4, SumTakesOne
    <2>6. PICK y \in s : y \notin a
      BY <2>3, <2>5
    <2>7. s \ {y} \in SUBSET S /\ a \in SUBSET (s \ {y}) /\ Metered(s \ {y})
      BY <2>4, <2>6, SubsetMetered
    <2>8. Cardinality(s \ {y}) = Cardinality(s) - 1 /\ Cardinality(s) \in Nat
      BY <2>4, FS_RemoveElement, FS_CardinalityType
    <2>9. s \ {y} \notin Bad
      <3> HIDE DEF Bad
      <3> QED BY <2>2, <2>8
    <2>10. KwhSum(a) <= KwhSum(s \ {y})
      BY <2>7, <2>9
    <2>11. KwhSum(s) = y.kwh + KwhSum(s \ {y}) /\ y.kwh \in Nat /\ KwhSum(s \ {y}) \in Nat
      BY <2>4, <2>7, SumTakesAny, SumTakesOne DEF Metered
    <2> QED BY <2>3, <2>5, <2>10, <2>11
  <1>2. S \notin Bad
    BY <1>1
  <1> QED BY <1>2

\* f gives each reading of S another with the same energy.
Renames(f, S) ==
    /\ \A x, y \in S : f[x] = f[y] => x = y
    /\ \A x \in S : f[x].kwh = x.kwh

\* The same energy under other names.
LEMMA SumOfImage ==
  ASSUME NEW S, Metered(S), NEW f, Renames(f, S)
  PROVE  /\ KwhSum({f[x] : x \in S}) = KwhSum(S)
         /\ Metered({f[x] : x \in S})
  <1> DEFINE Image(s) == {f[x] : x \in s}
             Bad == {s \in SUBSET S : ~(Metered(Image(s)) /\ KwhSum(Image(s)) = KwhSum(s))}
  <1>1. Bad = {}
    <2>1. SUFFICES ASSUME Bad # {} PROVE FALSE
      OBVIOUS
    <2>2. PICK s \in Bad : \A u \in Bad : Cardinality(s) <= Cardinality(u)
      <3> HIDE DEF Bad
      <3>1. Bad \subseteq SUBSET S
        BY DEF Bad
      <3> QED BY <2>1, <3>1, LeastSet DEF Metered
    <2>3. s \in SUBSET S /\ Metered(s) /\ IsFiniteSet(s)
      BY <2>2, SubsetMetered DEF Metered
    <2>4. CASE s = {}
      <3>1. Image(s) = {}
        BY <2>4
      <3>2. Metered({})
        BY FS_EmptySet DEF Metered
      <3> QED BY <2>2, <2>4, <3>1, <3>2
    <2>5. ASSUME NEW y \in s PROVE FALSE
      <3>1. s \ {y} \in SUBSET S /\ Cardinality(s \ {y}) = Cardinality(s) - 1 /\ Cardinality(s) \in Nat
        BY <2>3, FS_RemoveElement, FS_CardinalityType
      <3>2. s \ {y} \notin Bad
        <4> HIDE DEF Bad
        <4> QED BY <2>2, <3>1
      <3>3. Metered(Image(s \ {y})) /\ KwhSum(Image(s \ {y})) = KwhSum(s \ {y})
        BY <3>1, <3>2
      <3>4. Image(s) = Image(s \ {y}) \cup {f[y]}
        OBVIOUS
      <3>5. f[y] \notin Image(s \ {y}) /\ f[y].kwh = y.kwh /\ y.kwh \in Nat
        BY <2>3 DEF Renames, Metered
      <3>6. Image(s) \ {f[y]} = Image(s \ {y})
        BY <3>4, <3>5
      <3> HIDE DEF Image
      <3>7. Metered(Image(s))
        <4> HIDE DEF Bad
        <4>a. IsFiniteSet(Image(s \ {y}))
          BY <3>3 DEF Metered
        <4>b. IsFiniteSet(Image(s \ {y}) \cup {f[y]})
          BY <4>a, FS_AddElement
        <4>1. IsFiniteSet(Image(s))
          BY <3>4, <4>b
        <4>2. \A x \in Image(s) : x.kwh \in Nat
          BY <3>3, <3>4, <3>5 DEF Metered
        <4> QED BY <4>1, <4>2 DEF Metered
      <3>8. KwhSum(Image(s)) = f[y].kwh + KwhSum(Image(s) \ {f[y]})
        <4>1. f[y] \in Image(s)
          BY <3>4
        <4> QED BY <3>7, <4>1, SumTakesAny
      <3>9. KwhSum(s) = y.kwh + KwhSum(s \ {y})
        BY <2>3, SumTakesAny
      <3> QED BY <2>2, <3>3, <3>5, <3>6, <3>7, <3>8, <3>9
    <2> QED BY <2>4, <2>5
  <1>2. S \notin Bad
    BY <1>1
  <1> QED BY <1>2

-----------------------------------------------------------------------------
(* Folds *)

\* FoldLeft as a function on sets of indices: a step of the loop is f, as long as
\* the value before it is one of V.
IsLoop(h, V, base, n, f) ==
    /\ h[{}] = base
    /\ \A s \in SUBSET (1..n) :
          s # {} /\ h[s \ {Max(s)}] \in V => h[s] = f[Max(s)][h[s \ {Max(s)}]]

\* The values of a loop, turn by turn.
IsTrace(acc, V, base, n, f) ==
    /\ acc \in [0..n -> V]
    /\ acc[0] = base
    /\ \A i \in 1..n : acc[i] = f[i][acc[i - 1]]

\* The loop ends with the last value of such a trace.
HasTrace(h, V, base, n, f) ==
    \E acc : IsTrace(acc, V, base, n, f) /\ h[1..n] = acc[n]

\* A fold is the last of its turns, if no turn leaves V.
LEMMA LoopTrace ==
  ASSUME NEW V, NEW base \in V, NEW n \in Nat, NEW f \in TurnFunctions(V, n),
         NEW h, IsLoop(h, V, base, n, f)
  PROVE  HasTrace(h, V, base, n, f)
  <1> DEFINE acc == [k \in 0..n |-> h[1..k]]
             Bad == {k \in 0..n : acc[k] \notin V}
  <1>1. acc[0] = base
    <2>1. 1..0 = {} /\ 0 \in 0..n
      OBVIOUS
    <2> QED BY <2>1 DEF IsLoop
  <1>2. ASSUME NEW i \in 1..n, acc[i - 1] \in V PROVE acc[i] = f[i][acc[i - 1]] /\ acc[i] \in V
    <2>1. 1..i \in SUBSET (1..n) /\ i \in 1..i /\ (1..i) \ {i} = 1..(i - 1)
      OBVIOUS
    <2>2. Max(1..i) = i
      BY MaxOfInterval
    <2>3. acc[i] = h[1..i] /\ acc[i - 1] = h[1..(i - 1)]
      OBVIOUS
    <2> HIDE DEF acc
    <2>4. h[1..i] = f[i][h[1..(i - 1)]]
      BY <1>2, <2>1, <2>2, <2>3 DEF IsLoop
    <2>5. f[i][acc[i - 1]] \in V
      BY <1>2 DEF TurnFunctions
    <2> QED BY <2>3, <2>4, <2>5
  <1>3. Bad = {}
    <2>1. SUFFICES ASSUME Bad # {} PROVE FALSE
      OBVIOUS
    <2>2. PICK k \in Bad : \A j \in Bad : k <= j
      <3>1. Bad \subseteq Nat
        OBVIOUS
      <3> HIDE DEF Bad
      <3> QED BY <2>1, <3>1, LeastNumber
    <2> HIDE DEF acc
    <2>3. k \in 1..n
      BY <2>2, <1>1
    <2>4. acc[k - 1] \in V
      BY <2>2, <2>3
    <2> QED BY <1>2, <2>2, <2>3, <2>4
  <1>4. acc[n] = h[1..n] /\ acc = [k \in 0..n |-> acc[k]]
    OBVIOUS
  <1> HIDE DEF acc
  <1>5. \A i \in 1..n : i - 1 \in 0..n
    OBVIOUS
  <1>6. \A i \in 1..n : acc[i] = f[i][acc[i - 1]]
    BY <1>2, <1>3, <1>5
  <1>7. acc \in [0..n -> V]
    BY <1>3, <1>4
  <1> QED BY <1>1, <1>4, <1>6, <1>7 DEF IsTrace, HasTrace

\* The first of some indices.
LEMMA MinOfSet ==
  ASSUME NEW s, s \subseteq Nat, s # {}
  PROVE  Min(s) \in s /\ \A y \in s : Min(s) <= y
  <1>1. \E x \in s : \A y \in s : x <= y
    BY LeastNumber
  <1>2. Min(s) \in s /\ \A y \in s : Min(s) <= y
    BY <1>1, Zenon DEF Min
  <1> QED BY <1>2

\* The energy that Evaluate adds up.
KwhFold(p) == FoldLeft(LAMBDA sum, e : sum + e.kwh, 0, p)

\* The sum over proven intervals, one after the other.
LEMMA KwhTrace ==
  ASSUME NEW E, \A e \in E : e.kwh \in Nat, NEW p \in Seq(E)
  PROVE  \E acc \in [0..Len(p) -> Nat] :
            /\ acc[0] = 0
            /\ \A i \in 1..Len(p) : acc[i] = acc[i - 1] + p[i].kwh
            /\ KwhFold(p) = acc[Len(p)]
  <1> DEFINE n == Len(p)
             Turn(g) == [s \in SUBSET DOMAIN p |->
                            IF s = {} THEN 0 ELSE g[s \ {Max(s)}] + p[Max(s)].kwh]
             iter == CHOOSE g : g = Turn(g)
             f == [i \in 1..n |-> [v \in Nat |-> v + p[i].kwh]]
  <1>1. KwhFold(p) = iter[DOMAIN p]
    BY DEF KwhFold, FoldLeft, MapThenFoldSet
  <1>2. n \in Nat /\ DOMAIN p = 1..n /\ \A i \in 1..n : p[i].kwh \in Nat
    OBVIOUS
  <1> HIDE DEF n
  <1>3. f \in TurnFunctions(Nat, n)
    BY <1>2 DEF TurnFunctions
  <1>4. PICK g : IsTurns(g, Nat, 0, n, f)
    <2> HIDE DEF f
    <2> QED BY <1>2, <1>3, TurnsExist
  <1>5. \A s \in SUBSET (1..n) : s # {} => Max(s) \in 1..n /\ s \ {Max(s)} \in SUBSET (1..n)
    BY <1>2, MaxOfSet
  <1>6. g = Turn(g)
    <2>1. ASSUME NEW s \in SUBSET (1..n), s # {}
          PROVE  g[s] = g[s \ {Max(s)}] + p[Max(s)].kwh
      BY <1>2, <1>4, <1>5, <2>1 DEF IsTurns
    <2> HIDE DEF f
    <2> QED BY <1>2, <1>4, <2>1 DEF IsTurns
  <1>7. iter = Turn(iter)
    <2> HIDE DEF Turn
    <2> QED BY <1>6, Zenon
  <1> HIDE DEF iter
  <1>8. IsLoop(iter, Nat, 0, n, f)
    <2>1. iter[{}] = 0
      BY <1>7
    <2>2. ASSUME NEW s \in SUBSET (1..n), s # {}, iter[s \ {Max(s)}] \in Nat
          PROVE  iter[s] = f[Max(s)][iter[s \ {Max(s)}]]
      <3>1. iter[s] = iter[s \ {Max(s)}] + p[Max(s)].kwh
        BY <1>2, <1>7, <2>2
      <3> QED BY <1>5, <2>2, <3>1
    <2> HIDE DEF f
    <2> QED BY <2>1, <2>2 DEF IsLoop
  <1> HIDE DEF Turn
  <1>9. PICK acc : IsTrace(acc, Nat, 0, n, f) /\ iter[1..n] = acc[n]
    <2> HIDE DEF f
    <2>1. n \in Nat /\ 0 \in Nat
      BY <1>2
    <2>2. HasTrace(iter, Nat, 0, n, f)
      BY <2>1, <1>3, <1>8, LoopTrace
    <2> QED BY <2>2 DEF HasTrace
  <1>10. ASSUME NEW i \in 1..n PROVE acc[i] = acc[i - 1] + p[i].kwh
    <2>1. acc[i] = f[i][acc[i - 1]] /\ acc[i - 1] \in Nat
      <3> HIDE DEF f
      <3> QED BY <1>2, <1>9 DEF IsTrace
    <2> QED BY <2>1
  <1> HIDE DEF f
  <1>11. acc \in [0..n -> Nat] /\ acc[0] = 0
    BY <1>9 DEF IsTrace
  <1>12. KwhFold(p) = acc[n]
    BY <1>1, <1>2, <1>9
  <1> QED BY <1>10, <1>11, <1>12 DEF n

\* Proven intervals that differ are added up like a set of them.
LEMMA SumOfSeq ==
  ASSUME NEW E, Metered(E), NEW p \in Seq(E),
         \A i, j \in 1..Len(p) : p[i] = p[j] => i = j
  PROVE  KwhFold(p) = KwhSum(Range(p))
  <1> DEFINE n == Len(p)
             First(k) == {p[i] : i \in 1..k}
  <1>1. n \in Nat /\ DOMAIN p = 1..n /\ \A i \in 1..n : p[i] \in E
    OBVIOUS
  <1> HIDE DEF n
  <1>2. PICK acc \in [0..n -> Nat] :
            /\ acc[0] = 0
            /\ \A i \in 1..n : acc[i] = acc[i - 1] + p[i].kwh
            /\ KwhFold(p) = acc[n]
    BY KwhTrace DEF n, Metered
  <1> DEFINE Bad == {k \in 0..n : acc[k] # KwhSum(First(k))}
  <1>3. ASSUME NEW k \in 0..n PROVE First(k) \in SUBSET E /\ Metered(First(k))
    <2>1. First(k) \in SUBSET E
      BY <1>1
    <2> QED BY <2>1, SubsetMetered
  <1>4. Bad = {}
    <2>1. SUFFICES ASSUME Bad # {} PROVE FALSE
      OBVIOUS
    <2>2. PICK k \in Bad : \A j \in Bad : k <= j
      <3>1. Bad \subseteq Nat
        BY <1>1
      <3> HIDE DEF Bad
      <3> QED BY <2>1, <3>1, LeastNumber
    <2>3. k \in 0..n /\ acc[k] # KwhSum(First(k))
      BY <2>2
    <2>4. CASE k = 0
      <3>1. First(0) = {}
        OBVIOUS
      <3>2. KwhSum(First(0)) = 0
        BY <1>3, <2>3, <2>4, <3>1, SumTakesOne
      <3> QED BY <1>2, <2>3, <2>4, <3>2
    <2>5. CASE k # 0
      <3>1. k \in 1..n /\ k - 1 \in 0..n
        BY <1>1, <2>3, <2>5
      <3>2. acc[k - 1] = KwhSum(First(k - 1))
        BY <1>1, <2>2, <3>1
      <3>3. First(k) = First(k - 1) \cup {p[k]} /\ p[k] \in First(k)
        BY <1>1, <3>1
      <3>4. p[k] \notin First(k - 1)
        BY <1>1, <3>1 DEF n
      <3>5. First(k) \ {p[k]} = First(k - 1)
        BY <3>3, <3>4
      <3>6. Metered(First(k))
        BY <1>3, <2>3
      <3> HIDE DEF First
      <3>7. KwhSum(First(k)) = p[k].kwh + KwhSum(First(k - 1))
        BY <3>3, <3>5, <3>6, SumTakesAny
      <3>8. acc[k] = acc[k - 1] + p[k].kwh /\ acc[k - 1] \in Nat /\ p[k].kwh \in Nat
        BY <1>1, <1>2, <3>1 DEF Metered
      <3> QED BY <2>3, <3>2, <3>7, <3>8
    <2> QED BY <2>4, <2>5
  <1>5. Range(p) = First(n)
    BY <1>1 DEF Range
  <1>6. acc[n] = KwhSum(First(n))
    BY <1>1, <1>4
  <1> QED BY <1>2, <1>5, <1>6

-----------------------------------------------------------------------------
(* One turn of Evaluate *)

\* What a query makes of rows.
EvidenceOK(E) ==
    /\ IsFiniteSet(E)
    /\ \A e \in E : /\ e.start \in Nat /\ e.end \in Nat /\ e.kwh \in Nat
                    /\ e.barrier \in {"none", "UNKNOWN", "AMBIGUOUS"}
                    /\ e.attributable \in BOOLEAN
                    /\ e.barrier = "none" => e.start < e.end
                    /\ e.barrier # "none" => e.end = 0

\* The states of a window, and "none" for no barrier.
States == {"none", "UNKNOWN", "AMBIGUOUS", "GAP", "UNATTRIBUTABLE", "PROVEN"}

\* The variables of the loop of Evaluate.
ScanState(E) == [frontier : Nat, state : States, proven : Seq(E), done : BOOLEAN]

\* What lies before the period is passed over.
Skipped(e, period) == IF e.barrier = "none" THEN e.end <= period ELSE e.start < period

\* In the period and over by the snapshot.
InWindow(e, period, snapshot) ==
    ~Skipped(e, period) /\ e.start >= period /\ e.end <= snapshot

\* What a turn takes into the proven prefix.
Follows(acc, e) ==
    /\ e.start = acc.frontier
    /\ e.attributable
    /\ acc.proven = <<>> \/ Discontinuity(Last(acc.proven), e) = "none"

\* A turn passes over, stops, stops and takes back, or accepts.
LEMMA StepCases ==
  ASSUME NEW E, EvidenceOK(E), NEW acc \in ScanState(E), NEW e \in E,
         NEW period \in Nat, NEW snapshot \in Nat
  PROVE  LET r == Step(acc, e, period, snapshot)
         IN /\ acc.done => r = acc
            /\ ~acc.done /\ Skipped(e, period) => r = acc
            /\ ~acc.done /\ ~Skipped(e, period) /\ (e.start < period \/ e.end > snapshot)
                  => r = Stop(acc, "UNKNOWN")
            /\ ~acc.done /\ InWindow(e, period, snapshot)
                  /\ (e.barrier # "none" \/ e.start < acc.frontier)
                  => \E st \in States : r = StopAt(acc, st, e.start)
            /\ ~acc.done /\ InWindow(e, period, snapshot)
                  /\ e.barrier = "none" /\ e.start >= acc.frontier /\ ~Follows(acc, e)
                  => \E st \in States : r = Stop(acc, st)
            /\ ~acc.done /\ InWindow(e, period, snapshot)
                  /\ e.barrier = "none" /\ Follows(acc, e)
                  => r = Accept(acc, e)
  <1> USE DEF InWindow
  <1> DEFINE r == Step(acc, e, period, snapshot)
  <1>1. /\ e.start \in Nat /\ e.end \in Nat /\ acc.frontier \in Nat
        /\ e.barrier \in {"none", "UNKNOWN", "AMBIGUOUS"} /\ e.attributable \in BOOLEAN
        /\ e.barrier = "none" => e.start < e.end
        /\ e.barrier # "none" => e.end = 0
        /\ acc.done \in BOOLEAN
    BY DEF EvidenceOK, ScanState
  <1>2. CASE acc.done
    <2>1. r = acc
      BY <1>1, <1>2 DEF Step
    <2> QED BY <1>1, <1>2, <2>1
  <1>3. CASE ~acc.done
    <2>1. CASE Skipped(e, period)
      <3>1. r = acc
        <4>1. CASE e.barrier = "none"
          BY <1>1, <1>3, <2>1, <4>1 DEF Step, Skipped
        <4>2. CASE e.barrier # "none"
          BY <1>1, <1>3, <2>1, <4>2 DEF Step, Skipped
        <4> QED BY <4>1, <4>2
      <3> QED BY <1>1, <1>3, <2>1, <3>1
    <2>2. CASE ~Skipped(e, period)
      <3>1. CASE e.start < period \/ e.end > snapshot
        <4>1. r = Stop(acc, "UNKNOWN")
          BY <1>1, <1>3, <2>2, <3>1 DEF Step, Skipped
        <4> QED BY <1>1, <1>3, <2>2, <3>1, <4>1
      <3>2. CASE e.start >= period /\ e.end <= snapshot
        <4>1. CASE e.barrier # "none"
          <5>1. r = StopAt(acc, e.barrier, e.start)
            BY <1>1, <1>3, <2>2, <3>2, <4>1 DEF Step, Skipped
          <5>2. e.barrier \in States
            BY <1>1 DEF States
          <5> QED BY <1>1, <1>3, <2>2, <3>2, <4>1, <5>1, <5>2
        <4>2. CASE e.barrier = "none"
          <5>0. r = IF e.start < acc.frontier
                    THEN StopAt(acc, "AMBIGUOUS", e.start)
                    ELSE IF e.start > acc.frontier THEN Stop(acc, "GAP")
                    ELSE Extend(acc, e)
            BY <1>1, <1>3, <2>2, <3>2, <4>2 DEF Step, Skipped
          <5>1. CASE e.start < acc.frontier
            <6>1. r = StopAt(acc, "AMBIGUOUS", e.start)
              BY <5>0, <5>1
            <6>2. "AMBIGUOUS" \in States
              BY DEF States
            <6>3. ~(e.start >= acc.frontier) /\ ~Follows(acc, e)
              BY <1>1, <5>1 DEF Follows
            <6> QED BY <1>1, <1>3, <2>2, <3>2, <4>2, <5>1, <6>1, <6>2, <6>3
          <5>2. CASE e.start > acc.frontier
            <6>1. r = Stop(acc, "GAP")
              BY <1>1, <5>0, <5>2
            <6>2. "GAP" \in States /\ ~Follows(acc, e) /\ ~(e.start < acc.frontier)
              BY <1>1, <5>2 DEF Follows, States
            <6> QED BY <1>1, <1>3, <2>2, <3>2, <4>2, <5>2, <6>1, <6>2
          <5>3. CASE e.start = acc.frontier
            <6> DEFINE gap == IF acc.proven = <<>> THEN "none"
                              ELSE Discontinuity(Last(acc.proven), e)
            <6>1. r = Extend(acc, e)
              BY <1>1, <5>0, <5>3
            <6>2. gap \in States
              BY DEF Discontinuity, States
            <6>3. Follows(acc, e) <=> e.attributable /\ gap = "none"
              BY <1>1, <5>3 DEF Follows
            <6>4. Extend(acc, e) = CASE ~e.attributable -> Stop(acc, "UNATTRIBUTABLE")
                                     [] e.attributable /\ gap # "none" -> Stop(acc, gap)
                                     [] OTHER -> Accept(acc, e)
              BY DEF Extend
            <6> HIDE DEF gap
            <6>5. ~Follows(acc, e) => \E st \in States : r = Stop(acc, st)
              <7>1. "UNATTRIBUTABLE" \in States
                BY DEF States
              <7>2. CASE ~e.attributable
                BY <6>1, <6>4, <7>1, <7>2
              <7>3. CASE e.attributable
                BY <6>1, <6>2, <6>3, <6>4, <7>3
              <7> QED BY <7>2, <7>3
            <6>6. Follows(acc, e) => r = Accept(acc, e)
              BY <6>1, <6>3, <6>4
            <6>7. ~(e.start < acc.frontier) /\ e.start >= acc.frontier
              BY <1>1, <5>3
            <6> QED BY <1>1, <1>3, <2>2, <3>2, <4>2, <6>5, <6>6, <6>7
          <5> QED BY <1>1, <5>1, <5>2, <5>3
        <4> QED BY <4>1, <4>2
      <3> QED BY <1>1, <3>1, <3>2
    <2> QED BY <2>1, <2>2
  <1> QED BY <1>2, <1>3

\* The frontier retreats to a time.
LEMMA RetreatType ==
  ASSUME NEW E, EvidenceOK(E), NEW p \in Seq(E), NEW frontier \in Nat, NEW point \in Nat
  PROVE  Retreat(frontier, point, p) \in Nat
  <1> DEFINE holders == {i \in DOMAIN p : p[i].start <= point /\ point < p[i].end}
  <1>1. CASE holders # {}
    <2>1. Len(p) \in Nat /\ holders \in SUBSET (1..Len(p))
      OBVIOUS
    <2>2. Max(holders) \in holders
      <3> HIDE DEF holders
      <3> QED BY <1>1, <2>1, MaxOfSet
    <2>3. Max(holders) \in 1..Len(p)
      BY <2>2
    <2>4. Retreat(frontier, point, p) = p[Max(holders)].start
      BY <1>1 DEF Retreat
    <2> HIDE DEF holders
    <2>5. p[Max(holders)] \in E
      BY <2>3
    <2> QED BY <2>4, <2>5 DEF EvidenceOK
  <1>2. CASE holders = {}
    BY <1>2 DEF Retreat
  <1> QED BY <1>1, <1>2

\* Truncation leaves a sequence of intervals.
LEMMA TruncateType ==
  ASSUME NEW E, NEW p \in Seq(E), NEW f
  PROVE  Truncate(p, f) \in Seq(E)
  <1> DEFINE behind == {i \in DOMAIN p : p[i].end > f}
  <1>1. CASE behind = {}
    BY <1>1 DEF Truncate
  <1>2. CASE behind # {}
    <2>1. behind \subseteq 1..Len(p) /\ Len(p) \in Nat
      OBVIOUS
    <2>2. Min(behind) \in behind
      <3> HIDE DEF behind
      <3>1. behind \subseteq Nat
        BY <2>1
      <3> QED BY <1>2, <3>1, MinOfSet
    <2>3. Truncate(p, f) = SubSeq(p, 1, Min(behind) - 1)
      BY <1>2 DEF Truncate
    <2> HIDE DEF behind
    <2>4. Min(behind) \in 1..Len(p)
      BY <2>1, <2>2
    <2> QED BY <2>3, <2>4
  <1> QED BY <1>1, <1>2

\* A turn of the loop keeps the types of its variables.
LEMMA StepType ==
  ASSUME NEW E, EvidenceOK(E), NEW acc \in ScanState(E), NEW e \in E,
         NEW period \in Nat, NEW snapshot \in Nat
  PROVE  Step(acc, e, period, snapshot) \in ScanState(E)
  <1> DEFINE r == Step(acc, e, period, snapshot)
  <1>0. /\ e.start \in Nat /\ e.end \in Nat /\ acc.frontier \in Nat
        /\ acc.proven \in Seq(E) /\ "UNKNOWN" \in States /\ acc.done \in BOOLEAN
    BY DEF EvidenceOK, ScanState, States
  <1>1. \A st \in States : Stop(acc, st) \in ScanState(E)
    BY DEF Stop, ScanState
  <1>2. ASSUME NEW st \in States PROVE StopAt(acc, st, e.start) \in ScanState(E)
    <2> DEFINE f == Retreat(acc.frontier, e.start, acc.proven)
    <2>1. f \in Nat
      BY <1>0, RetreatType
    <2> HIDE DEF f
    <2>2. Truncate(acc.proven, f) \in Seq(E)
      BY <1>0, TruncateType
    <2>3. StopAt(acc, st, e.start)
             = [Stop(acc, st) EXCEPT !.frontier = f, !.proven = Truncate(acc.proven, f)]
      BY DEF StopAt, f
    <2> QED BY <1>1, <2>1, <2>2, <2>3 DEF ScanState
  <1>3. Accept(acc, e) \in ScanState(E)
    <2>1. Append(acc.proven, e) \in Seq(E)
      BY <1>0
    <2> QED BY <1>0, <2>1 DEF Accept, ScanState, States
  <1>4. \/ r = acc \/ r = Accept(acc, e)
        \/ \E st \in States : r = Stop(acc, st) \/ r = StopAt(acc, st, e.start)
    <2>0. /\ e.barrier \in {"none", "UNKNOWN", "AMBIGUOUS"}
      BY DEF EvidenceOK
    <2>1. CASE acc.done \/ Skipped(e, period)
      BY <1>0, <2>1, StepCases
    <2>2. CASE ~acc.done /\ ~Skipped(e, period) /\ (e.start < period \/ e.end > snapshot)
      BY <1>0, <2>2, StepCases
    <2>3. CASE ~acc.done /\ InWindow(e, period, snapshot)
      <3>1. CASE e.barrier # "none" \/ e.start < acc.frontier
        BY <1>0, <2>3, <3>1, StepCases
      <3>2. CASE e.barrier = "none" /\ e.start >= acc.frontier /\ ~Follows(acc, e)
        BY <1>0, <2>3, <3>2, StepCases
      <3>3. CASE e.barrier = "none" /\ Follows(acc, e)
        BY <1>0, <2>3, <3>3, StepCases
      <3> QED BY <1>0, <3>1, <3>2, <3>3
    <2> QED BY <1>0, <2>1, <2>2, <2>3 DEF InWindow
  <1> HIDE DEF r
  <1> QED BY <1>1, <1>2, <1>3, <1>4 DEF r

\* The loop starts at the period with nothing proven.
ScanInit(period) == [frontier |-> period, state |-> "UNKNOWN", proven |-> <<>>, done |-> FALSE]

\* The loop of Evaluate.
ScanFold(q, period, snapshot) ==
    FoldLeft(LAMBDA a, e : Step(a, e, period, snapshot), ScanInit(period), q)

\* The same, turn by turn.
IsScan(acc, E, q, n, period, snapshot) ==
    /\ acc \in [0..n -> ScanState(E)]
    /\ acc[0] = ScanInit(period)
    /\ \A i \in 1..n : acc[i] = Step(acc[i - 1], q[i], period, snapshot)

\* The fold of Evaluate is the last of its turns.
LEMMA StepTrace ==
  ASSUME NEW E, EvidenceOK(E), NEW n \in Nat, NEW q \in [1..n -> E],
         NEW period \in Nat, NEW snapshot \in Nat
  PROVE  \E acc : /\ IsScan(acc, E, q, n, period, snapshot)
                  /\ ScanFold(q, period, snapshot) = acc[n]
  <1> DEFINE V == ScanState(E)
             base == ScanInit(period)
             Turn(g) == [s \in SUBSET DOMAIN q |->
                            IF s = {} THEN base
                            ELSE Step(g[s \ {Max(s)}], q[Max(s)], period, snapshot)]
             iter == CHOOSE g : g = Turn(g)
             f == [i \in 1..n |-> [v \in V |-> Step(v, q[i], period, snapshot)]]
  <1>1. ScanFold(q, period, snapshot) = iter[DOMAIN q]
    BY DEF ScanFold, FoldLeft, MapThenFoldSet
  <1>2. DOMAIN q = 1..n /\ \A i \in 1..n : q[i] \in E
    OBVIOUS
  <1>b. base \in V
    BY DEF ScanState, ScanInit, States
  <1> HIDE DEF base
  <1>3. f \in TurnFunctions(V, n)
    <2>1. \A i \in 1..n : \A v \in V : Step(v, q[i], period, snapshot) \in V
      BY <1>2, StepType
    <2> HIDE DEF V
    <2> QED BY <2>1 DEF TurnFunctions
  <1> HIDE DEF V
  <1>4. PICK g : IsTurns(g, V, base, n, f)
    <2> HIDE DEF f
    <2> QED BY <1>b, <1>3, TurnsExist
  <1>5. \A s \in SUBSET (1..n) : s # {} => Max(s) \in 1..n /\ s \ {Max(s)} \in SUBSET (1..n)
    BY MaxOfSet
  <1>6. g = Turn(g)
    <2>1. ASSUME NEW s \in SUBSET (1..n), s # {}
          PROVE  g[s] = Step(g[s \ {Max(s)}], q[Max(s)], period, snapshot)
      BY <1>4, <1>5, <2>1 DEF IsTurns
    <2> HIDE DEF f
    <2> QED BY <1>2, <1>4, <2>1 DEF IsTurns
  <1>7. iter = Turn(iter)
    <2> HIDE DEF Turn
    <2> QED BY <1>6, Zenon
  <1> HIDE DEF iter
  <1>8. IsLoop(iter, V, base, n, f)
    <2>1. iter[{}] = base
      BY <1>7
    <2>2. ASSUME NEW s \in SUBSET (1..n), s # {}, iter[s \ {Max(s)}] \in V
          PROVE  iter[s] = f[Max(s)][iter[s \ {Max(s)}]]
      <3>1. iter[s] = Step(iter[s \ {Max(s)}], q[Max(s)], period, snapshot)
        BY <1>2, <1>7, <2>2
      <3> QED BY <1>5, <2>2, <3>1
    <2> HIDE DEF f
    <2> QED BY <2>1, <2>2 DEF IsLoop
  <1> HIDE DEF Turn
  <1>9. PICK acc : IsTrace(acc, V, base, n, f) /\ iter[1..n] = acc[n]
    <2> HIDE DEF f
    <2>2. HasTrace(iter, V, base, n, f)
      BY <1>b, <1>3, <1>8, LoopTrace
    <2> QED BY <2>2 DEF HasTrace
  <1>10. ASSUME NEW i \in 1..n PROVE acc[i] = Step(acc[i - 1], q[i], period, snapshot)
    <2>1. acc[i] = f[i][acc[i - 1]] /\ acc[i - 1] \in V
      <3> HIDE DEF f
      <3> QED BY <1>2, <1>9 DEF IsTrace
    <2> QED BY <2>1
  <1> HIDE DEF f
  <1>11. acc \in [0..n -> V] /\ acc[0] = base
    BY <1>9 DEF IsTrace
  <1>12. ScanFold(q, period, snapshot) = acc[n]
    BY <1>1, <1>2, <1>9
  <1>13. IsScan(acc, E, q, n, period, snapshot)
    BY <1>10, <1>11 DEF IsScan, V, base
  <1> QED BY <1>12, <1>13 DEF base

-----------------------------------------------------------------------------
(* The proven prefix *)

\* The intervals among the evidence; the rest are barriers.
Intervals(E) == {e \in E : e.barrier = "none"}

\* A period of a window: no interval reaches into it from before.
PeriodOK(period, E) ==
    /\ now \in Nat /\ period \in 1..now
    /\ \A e \in Intervals(E) : ~(e.start < period /\ period < e.end)

\* Intervals one after the other, from the start of the period to f.
ProvenPrefix(p, f, period, E) ==
    /\ p \in Seq(E) /\ f \in Nat /\ period <= f
    /\ \A i \in 1..Len(p) : /\ p[i].barrier = "none" /\ p[i].attributable
                            /\ period <= p[i].start /\ p[i].end <= now /\ p[i].end <= f
    /\ \A i, j \in 1..Len(p) : i < j => p[i].end <= p[j].start
    /\ \A i \in 1..(Len(p) - 1) : /\ p[i].end = p[i + 1].start
                                  /\ Discontinuity(p[i], p[i + 1]) = "none"
    /\ p = <<>> => f = period
    /\ p # <<>> => p[1].start = period /\ p[Len(p)].end = f
    /\ \A t \in period..(f - 1) : \E i \in 1..Len(p) : p[i].start <= t /\ t < p[i].end

\* Nothing proves the period up to its start.
LEMMA EmptyPrefix ==
  ASSUME NEW E, EvidenceOK(E), NEW period, PeriodOK(period, E)
  PROVE  ProvenPrefix(<<>>, period, period, E)
  <1>1. period \in Nat /\ period..(period - 1) = {}
    BY DEF PeriodOK
  <1>2. Len(<<>>) = 0 /\ <<>> \in Seq(E)
    OBVIOUS
  <1> QED BY <1>1, <1>2 DEF ProvenPrefix

\* Facts about a prefix in the form in which they are used.
LEMMA PrefixFacts ==
  ASSUME NEW E, EvidenceOK(E), NEW period, PeriodOK(period, E), NEW p, NEW f,
         ProvenPrefix(p, f, period, E)
  PROVE  /\ Len(p) \in Nat /\ DOMAIN p = 1..Len(p) /\ period \in Nat
         /\ p # <<>> <=> Len(p) \in 1..Len(p)
         /\ \A i \in 1..Len(p) :
               /\ p[i] \in E /\ p[i].start \in Nat /\ p[i].end \in Nat
               /\ p[i].start < p[i].end /\ p[i].end <= f /\ period <= p[i].start
         /\ \A i, j \in 1..Len(p) : p[i] = p[j] => i = j
  <1>1. p \in Seq(E)
    BY DEF ProvenPrefix
  <1>2. Len(p) \in Nat /\ DOMAIN p = 1..Len(p) /\ \A i \in 1..Len(p) : p[i] \in E
    BY <1>1
  <1>3. p # <<>> <=> Len(p) \in 1..Len(p)
    BY <1>1
  <1>4. \A i \in 1..Len(p) :
               /\ p[i] \in E /\ p[i].start \in Nat /\ p[i].end \in Nat
               /\ p[i].start < p[i].end /\ p[i].end <= f /\ period <= p[i].start
    BY <1>2 DEF ProvenPrefix, EvidenceOK
  <1>5. ASSUME NEW i \in 1..Len(p), NEW j \in 1..Len(p), p[i] = p[j] PROVE i = j
    <2>1. ASSUME NEW a \in 1..Len(p), NEW b \in 1..Len(p), a < b PROVE p[a] # p[b]
      <3>1. p[a].end <= p[b].start
        BY <2>1 DEF ProvenPrefix
      <3> QED BY <1>4, <3>1
    <2>2. i \in Int /\ j \in Int /\ ~(i < j) /\ ~(j < i)
      BY <1>2, <1>5, <2>1
    <2> QED BY <2>2
  <1>6. period \in Nat
    BY DEF PeriodOK
  <1> QED BY <1>2, <1>3, <1>4, <1>5, <1>6

\* An interval that follows makes the prefix longer.
LEMMA AcceptPrefix ==
  ASSUME NEW E, EvidenceOK(E), NEW period, PeriodOK(period, E), NEW p, NEW f,
         ProvenPrefix(p, f, period, E), NEW e \in E, e.barrier = "none", e.attributable,
         e.start = f, e.end <= now,
         p = <<>> \/ Discontinuity(Last(p), e) = "none"
  PROVE  ProvenPrefix(Append(p, e), e.end, period, E)
  <1> DEFINE r == Append(p, e)
             n == Len(p)
  <1>1. /\ n \in Nat /\ period \in Nat
        /\ p # <<>> <=> n \in 1..n
        /\ \A i \in 1..n :
               /\ p[i] \in E /\ p[i].start \in Nat /\ p[i].end \in Nat
               /\ p[i].start < p[i].end /\ p[i].end <= f /\ period <= p[i].start
    BY PrefixFacts
  <1>2. p \in Seq(E) /\ f \in Nat /\ period <= f
    BY DEF ProvenPrefix
  <1>3. /\ r \in Seq(E) /\ Len(r) = n + 1 /\ r # <<>> /\ r[n + 1] = e
        /\ \A i \in 1..n : r[i] = p[i]
    <2>1. r \in Seq(E) /\ Len(r) = n + 1
      BY <1>2
    <2>2. r[n + 1] = e /\ \A i \in 1..n : r[i] = p[i]
      BY <1>2
    <2>3. r # <<>>
      <3> HIDE DEF r
      <3> QED BY <1>1, <2>1
    <2> QED BY <2>1, <2>2, <2>3
  <1>4. e.start \in Nat /\ e.end \in Nat /\ e.start < e.end
    BY DEF EvidenceOK
  <1>5. \A i \in 1..n : /\ p[i].barrier = "none" /\ p[i].attributable /\ p[i].end <= now
    BY DEF ProvenPrefix
  <1> HIDE DEF r, n
  <1>6. \A i \in 1..(n + 1) : i = n + 1 \/ i \in 1..n
    BY <1>1
  <1>7. \A i \in 1..(n + 1) : /\ r[i].barrier = "none" /\ r[i].attributable
                              /\ period <= r[i].start /\ r[i].end <= now /\ r[i].end <= e.end
    <2>1. ASSUME NEW i \in 1..n PROVE p[i].end <= e.end
      BY <1>1, <1>2, <1>4
    <2> QED BY <1>1, <1>2, <1>3, <1>4, <1>5, <1>6, <2>1
  <1>8. ASSUME NEW i \in 1..(n + 1), NEW j \in 1..(n + 1), i < j PROVE r[i].end <= r[j].start
    <2>1. i \in 1..n
      BY <1>1, <1>8
    <2>2. CASE j \in 1..n
      BY <1>3, <1>8, <2>1, <2>2 DEF ProvenPrefix, n
    <2>3. CASE j = n + 1
      BY <1>1, <1>3, <2>1, <2>3
    <2> QED BY <1>6, <2>2, <2>3
  <1>9. ASSUME NEW i \in 1..n
        PROVE  r[i].end = r[i + 1].start /\ Discontinuity(r[i], r[i + 1]) = "none"
    <2>1. CASE i = n
      <3>1. p # <<>> /\ p[n].end = f /\ Last(p) = p[n]
        BY <1>1, <2>1 DEF ProvenPrefix, n, Last
      <3>2. r[i] = p[n] /\ r[i + 1] = e
        BY <1>3, <2>1
      <3> QED BY <3>1, <3>2
    <2>2. CASE i # n
      <3>1. i \in 1..(n - 1) /\ i + 1 \in 1..n
        BY <1>1, <2>2
      <3>2. r[i] = p[i] /\ r[i + 1] = p[i + 1]
        BY <1>3, <3>1
      <3> QED BY <3>1, <3>2 DEF ProvenPrefix, n
    <2> QED BY <2>1, <2>2
  <1>10. r[1].start = period
    <2>1. CASE p = <<>>
      BY <1>1, <1>3, <2>1 DEF ProvenPrefix, n
    <2>2. CASE p # <<>>
      <3>1. 1 \in 1..n
        BY <1>1, <2>2
      <3> QED BY <1>3, <2>2, <3>1 DEF ProvenPrefix
    <2> QED BY <2>1, <2>2
  <1>11. ASSUME NEW t \in period..(e.end - 1)
         PROVE  \E i \in 1..(n + 1) : r[i].start <= t /\ t < r[i].end
    <2>1. t \in Int /\ n + 1 \in 1..(n + 1)
      BY <1>1
    <2>2. CASE t < f
      <3>1. t \in period..(f - 1)
        BY <1>1, <1>2, <1>4, <2>2
      <3>2. PICK i \in 1..n : p[i].start <= t /\ t < p[i].end
        BY <3>1 DEF ProvenPrefix, n
      <3>3. i \in 1..(n + 1)
        BY <1>1
      <3> QED BY <1>3, <3>2, <3>3
    <2>3. CASE ~(t < f)
      <3>1. e.start <= t /\ t < e.end
        BY <1>1, <1>2, <1>4, <2>1, <2>3
      <3> QED BY <1>3, <2>1, <3>1
    <2> QED BY <2>2, <2>3
  <1>12. period <= e.end
    BY <1>1, <1>2, <1>4
  <1>13. (n + 1) - 1 = n
    BY <1>1
  <1>14. ProvenPrefix(r, e.end, period, E)
    BY <1>3, <1>4, <1>7, <1>8, <1>9, <1>10, <1>11, <1>12, <1>13 DEF ProvenPrefix
  <1> QED BY <1>14 DEF r

\* Without its last interval it is a prefix up to the start of that one.
LEMMA DropPrefix ==
  ASSUME NEW E, EvidenceOK(E), NEW period, PeriodOK(period, E), NEW p, NEW f,
         ProvenPrefix(p, f, period, E), p # <<>>
  PROVE  /\ ProvenPrefix(SubSeq(p, 1, Len(p) - 1), p[Len(p)].start, period, E)
         /\ Range(SubSeq(p, 1, Len(p) - 1)) = Range(p) \ {p[Len(p)]}
  <1> DEFINE n == Len(p)
             r == SubSeq(p, 1, n - 1)
             g == p[n].start
  <1>1. /\ n \in Nat /\ period \in Nat /\ DOMAIN p = 1..n /\ n \in 1..n
        /\ \A i \in 1..n :
               /\ p[i] \in E /\ p[i].start \in Nat /\ p[i].end \in Nat
               /\ p[i].start < p[i].end /\ p[i].end <= f /\ period <= p[i].start
        /\ \A i, j \in 1..n : p[i] = p[j] => i = j
    BY PrefixFacts
  <1>2. p \in Seq(E) /\ f \in Nat /\ period <= f
    BY DEF ProvenPrefix
  <1>3. /\ r \in Seq(E) /\ Len(r) = n - 1 /\ DOMAIN r = 1..(n - 1)
        /\ \A i \in 1..(n - 1) : r[i] = p[i]
        /\ r = <<>> <=> n = 1
    <2>1. 1 \in Int /\ n - 1 \in Int /\ 1 <= n /\ n - 1 <= n
      BY <1>1
    <2>2. /\ r \in Seq(E) /\ Len(r) = n - 1
          /\ \A i \in 1..(n - 1) : r[i] = p[i]
      BY <1>1, <1>2, <2>1
    <2>3. r = <<>> <=> n = 1
      <3> HIDE DEF r, n
      <3> QED BY <1>1, <2>2
    <2>4. DOMAIN r = 1..(n - 1)
      <3> HIDE DEF r, n
      <3> QED BY <2>2
    <2> QED BY <2>2, <2>3, <2>4
  <1>4. \A i \in 1..n : /\ p[i].barrier = "none" /\ p[i].attributable /\ p[i].end <= now
    BY DEF ProvenPrefix
  <1>s. \A i \in 1..(n - 1) : i \in 1..n /\ i < n
    BY <1>1
  <1>5. \A i, j \in 1..n : i < j => p[i].end <= p[j].start
    BY DEF ProvenPrefix
  <1>6. \A i \in 1..(n - 1) : p[i].end = p[i + 1].start /\ Discontinuity(p[i], p[i + 1]) = "none"
    BY DEF ProvenPrefix
  <1>7. p[1].start = period /\ p[n].end = f
    BY DEF ProvenPrefix
  <1>8. \A t \in period..(f - 1) : \E i \in 1..n : p[i].start <= t /\ t < p[i].end
    BY DEF ProvenPrefix
  <1> HIDE DEF n, r
  <1>9. g \in Nat /\ period <= g /\ g < f
    BY <1>1, <1>7
  <1>10. \A i \in 1..(n - 1) :
            /\ r[i].barrier = "none" /\ r[i].attributable
            /\ period <= r[i].start /\ r[i].end <= now /\ r[i].end <= g
    BY <1>1, <1>3, <1>4, <1>5, <1>s
  <1>11. \A i, j \in 1..(n - 1) : i < j => r[i].end <= r[j].start
    BY <1>3, <1>5, <1>s
  <1>12. ASSUME NEW i \in 1..((n - 1) - 1)
         PROVE  r[i].end = r[i + 1].start /\ Discontinuity(r[i], r[i + 1]) = "none"
    <2>1. i \in 1..(n - 1) /\ i + 1 \in 1..(n - 1)
      BY <1>1
    <2> QED BY <1>3, <1>6, <2>1
  <1>13. r = <<>> => g = period
    BY <1>3, <1>7
  <1>14. ASSUME r # <<>> PROVE r[1].start = period /\ r[n - 1].end = g
    <2>1. 1 \in 1..(n - 1) /\ n - 1 \in 1..(n - 1) /\ (n - 1) + 1 = n
      BY <1>1, <1>3, <1>14
    <2>2. r[1] = p[1] /\ r[n - 1] = p[n - 1]
      BY <1>3, <2>1
    <2>3. p[n - 1].end = p[(n - 1) + 1].start
      BY <1>6, <2>1
    <2> QED BY <1>7, <2>1, <2>2, <2>3
  <1>15. ASSUME NEW t \in period..(g - 1)
         PROVE  \E i \in 1..(n - 1) : r[i].start <= t /\ t < r[i].end
    <2>1. t \in period..(f - 1) /\ t \in Int /\ t < g
      BY <1>1, <1>2, <1>9
    <2>2. PICK i \in 1..n : p[i].start <= t /\ t < p[i].end
      BY <1>8, <2>1
    <2>3. i # n
      BY <1>9, <2>1, <2>2
    <2>4. i \in 1..(n - 1)
      BY <1>1, <2>3
    <2> QED BY <1>3, <2>2, <2>4
  <1>16. ProvenPrefix(r, g, period, E)
    BY <1>3, <1>9, <1>10, <1>11, <1>12, <1>13, <1>14, <1>15 DEF ProvenPrefix
  <1>17. Range(r) = Range(p) \ {p[n]}
    <2>1. Range(r) = {p[i] : i \in 1..(n - 1)} /\ Range(p) = {p[i] : i \in 1..n}
      BY <1>1, <1>3 DEF Range
    <2>2. \A i \in 1..n : i \in 1..(n - 1) \/ i = n
      BY <1>1
    <2>3. \A i \in 1..(n - 1) : p[i] # p[n]
      BY <1>1, <1>s
    <2> QED BY <1>s, <2>1, <2>2, <2>3
  <1> QED BY <1>16, <1>17 DEF r, n

\* A point at or behind the last start takes back the last interval, or nothing.
LEMMA TakeBack ==
  ASSUME NEW E, EvidenceOK(E), NEW period, PeriodOK(period, E), NEW p, NEW f,
         ProvenPrefix(p, f, period, E), NEW point \in Nat, period <= point,
         \A i \in 1..Len(p) : p[i].start <= point
  PROVE  /\ point >= f => Retreat(f, point, p) = f /\ Truncate(p, f) = p
         /\ point < f => /\ p # <<>> /\ Retreat(f, point, p) = p[Len(p)].start
                         /\ Truncate(p, p[Len(p)].start) = SubSeq(p, 1, Len(p) - 1)
  <1> DEFINE n == Len(p)
             holders == {i \in DOMAIN p : p[i].start <= point /\ point < p[i].end}
             g == p[n].start
             behind == {i \in DOMAIN p : p[i].end > g}
  <1>1. /\ n \in Nat /\ period \in Nat /\ DOMAIN p = 1..n /\ (p # <<>> <=> n \in 1..n)
        /\ \A i \in 1..n :
               /\ p[i] \in E /\ p[i].start \in Nat /\ p[i].end \in Nat
               /\ p[i].start < p[i].end /\ p[i].end <= f /\ period <= p[i].start
    BY PrefixFacts
  <1>2. f \in Nat
    BY DEF ProvenPrefix
  <1>3. ASSUME point >= f PROVE Retreat(f, point, p) = f /\ Truncate(p, f) = p
    <2>1. holders = {}
      BY <1>1, <1>2, <1>3
    <2>2. Retreat(f, point, p) = f
      BY <1>2, <1>3, <2>1 DEF Retreat
    <2>3. {i \in DOMAIN p : p[i].end > f} = {}
      BY <1>1, <1>2
    <2>4. Truncate(p, f) = p
      BY <2>3 DEF Truncate
    <2> QED BY <2>2, <2>4
  <1>4. ASSUME point < f
        PROVE  /\ p # <<>> /\ Retreat(f, point, p) = g
               /\ Truncate(p, g) = SubSeq(p, 1, n - 1)
    <2>1. p # <<>>
      BY <1>1, <1>2, <1>4 DEF ProvenPrefix
    <2>2. n \in 1..n /\ p[n].end = f
      BY <1>1, <2>1 DEF ProvenPrefix, n
    <2>3. \A i \in 1..n : i = n \/ i < n
      <3>1. n \in Int
        BY <1>1
      <3> HIDE DEF n
      <3> QED BY <3>1
    <2>4. \A i \in 1..n : i < n => p[i].end <= g
      BY <2>2 DEF ProvenPrefix, n
    <2>5. g \in Nat /\ g <= point
      BY <1>1, <2>2
    <2>6. holders = {n}
      <3>1. n \in holders
        BY <1>1, <1>4, <2>2, <2>5
      <3>2. ASSUME NEW i \in holders PROVE i = n
        <4>1. i \in 1..n /\ point < p[i].end
          BY <1>1
        <4>2. ~(i < n)
          BY <1>1, <2>4, <2>5, <4>1
        <4> QED BY <2>3, <4>1, <4>2
      <3> HIDE DEF holders
      <3> QED BY <3>1, <3>2
    <2>7. behind = {n}
      <3>1. n \in behind
        BY <1>1, <2>2
      <3>2. ASSUME NEW i \in behind PROVE i = n
        <4>1. i \in 1..n /\ p[i].end > g
          BY <1>1
        <4>2. ~(i < n)
          BY <1>1, <2>4, <2>5, <4>1
        <4> QED BY <2>3, <4>1, <4>2
      <3> HIDE DEF behind
      <3> QED BY <3>1, <3>2
    <2> HIDE DEF n
    <2>8. {n} # {} /\ {n} \subseteq Nat /\ {n} \in SUBSET (1..n)
      BY <1>1, <2>2
    <2>9. Max({n}) = n
      <3>1. Max({n}) \in {n}
        BY <1>1, <2>8, MaxOfSet
      <3> QED BY <3>1
    <2>10. Min({n}) = n
      <3>1. Min({n}) \in {n}
        BY <2>8, MinOfSet
      <3> QED BY <3>1
    <2>11. Retreat(f, point, p) = p[Max(holders)].start
      <3>1. holders # {}
        BY <2>6
      <3> QED BY <3>1 DEF Retreat
    <2>12. Truncate(p, g) = SubSeq(p, 1, Min(behind) - 1)
      <3>1. behind # {}
        BY <2>7
      <3> QED BY <3>1 DEF Truncate
    <2> HIDE DEF holders, behind
    <2> QED BY <2>1, <2>6, <2>7, <2>9, <2>10, <2>11, <2>12
  <1> QED BY <1>3, <1>4 DEF n

\* Evidence that leaves [period, w) alone.
Free(x, period, w) ==
    IF x.barrier = "none" THEN ~(x.start < w /\ period < x.end)
                          ELSE x.start \notin period..(w - 1)

\* The watermark of some intervals.
LEMMA ThroughFacts ==
  ASSUME NEW E, EvidenceOK(E), NEW period, PeriodOK(period, E), NEW T \in SUBSET Intervals(E),
         \A e \in T : e.end <= now
  PROVE  LET w == Through(T, period)
         IN /\ w \in Nat /\ period <= w /\ w <= now
            /\ \A e \in T : e.end <= w
            /\ w > period => \E e \in T : e.end = w
  <1> DEFINE s == {period} \cup {e.end : e \in T}
             w == Through(T, period)
  <1>1. now \in Nat /\ period \in 1..now
    BY DEF PeriodOK
  <1>2. \A e \in T : e.end \in 1..now
    <2>1. \A e \in T : e \in E /\ e.barrier = "none"
      BY DEF Intervals
    <2>2. \A e \in T : e.end \in Nat /\ e.start \in Nat /\ e.start < e.end
      BY <2>1 DEF EvidenceOK
    <2> QED BY <1>1, <2>2
  <1>3. s \in SUBSET (1..now) /\ s # {}
    BY <1>1, <1>2
  <1>4. w = Max(s)
    BY DEF Through
  <1>5. Max(s) \in s /\ \A y \in s : y <= Max(s)
    <2> HIDE DEF s
    <2> QED BY <1>1, <1>3, MaxOfSet
  <1> HIDE DEF w
  <1>6. w \in 1..now /\ (w = period \/ \E e \in T : e.end = w)
    BY <1>3, <1>4, <1>5
  <1>7. period <= w /\ \A e \in T : e.end <= w
    BY <1>4, <1>5
  <1>8. w \in Nat /\ period \in Nat /\ w <= now
    BY <1>1, <1>6
  <1>9. w > period => \E e \in T : e.end = w
    BY <1>6, <1>8
  <1> QED BY <1>7, <1>8, <1>9 DEF w

\* What it means that intervals prove a period; they are all that meet it.
LEMMA ProvesFacts ==
  ASSUME NEW E, EvidenceOK(E), NEW period, PeriodOK(period, E), NEW D \in SUBSET E,
         NEW T \in SUBSET Intervals(D), Proves(T, period, D)
  PROVE  LET w == Through(T, period)
         IN /\ w \in Nat /\ period <= w /\ w <= now
            /\ \A e \in T : e.end <= w /\ e.end <= now /\ period <= e.start /\ e.attributable
            /\ w > period => \E e \in T : e.end = w
            /\ \A x \in Intervals(D) : x \in T <=> x.start < w /\ period < x.end
            /\ \A t \in period..(w - 1) : \E e \in T : e.start <= t /\ t < e.end
            /\ \A e, f \in T : /\ e # f => ~Overlap(e, f)
                               /\ e.end = f.start => Discontinuity(e, f) = "none"
            /\ \A x \in D \ T : Free(x, period, w)
  <1> DEFINE w == Through(T, period)
  <1>1. /\ \A e \in T : e.attributable /\ period <= e.start /\ e.end <= now
        /\ \A e, f \in T : /\ e # f => ~Overlap(e, f)
                           /\ e.end = f.start => Discontinuity(e, f) = "none"
        /\ UNION {e.start..(e.end - 1) : e \in T} = period..(w - 1)
        /\ \A x \in D \ T : Free(x, period, w)
    BY DEF Proves, Free
  <1>2. T \in SUBSET Intervals(E)
    BY DEF Intervals
  <1>3. /\ w \in Nat /\ period <= w /\ w <= now
        /\ \A e \in T : e.end <= w
        /\ w > period => \E e \in T : e.end = w
    BY <1>1, <1>2, ThroughFacts
  <1> HIDE DEF w
  <1>4. period \in Nat
    BY DEF PeriodOK
  <1>5. \A e \in Intervals(D) : /\ e.start \in Nat /\ e.end \in Nat /\ e.start < e.end
                                /\ e.barrier = "none" /\ e \in D
    BY DEF Intervals, EvidenceOK
  <1>6. ASSUME NEW x \in Intervals(D) PROVE x \in T <=> x.start < w /\ period < x.end
    <2>1. ASSUME x \in T PROVE x.start < w /\ period < x.end
      <3>1. period <= x.start /\ x.end <= w
        BY <1>1, <1>3, <2>1
      <3>2. x.start \in Nat /\ x.end \in Nat /\ x.start < x.end
        BY <1>5
      <3> QED BY <1>3, <1>4, <3>1, <3>2
    <2>2. ASSUME x \notin T, x.start < w, period < x.end PROVE FALSE
      BY <1>1, <1>5, <2>2 DEF Free
    <2> QED BY <2>1, <2>2
  <1>7. ASSUME NEW t \in period..(w - 1) PROVE \E e \in T : e.start <= t /\ t < e.end
    <2>1. PICK e \in T : t \in e.start..(e.end - 1)
      BY <1>1
    <2>2. e.start \in Nat /\ e.end \in Nat
      BY <1>5
    <2>3. e.start <= t /\ t < e.end
      BY <2>1, <2>2
    <2> QED BY <2>3
  <1> QED BY <1>1, <1>3, <1>6, <1>7 DEF w

\* A prefix proves the period if no other evidence meets it.
LEMMA PrefixProves ==
  ASSUME NEW E, EvidenceOK(E), NEW period, PeriodOK(period, E), NEW D \in SUBSET E,
         NEW p, NEW f, ProvenPrefix(p, f, period, E), Range(p) \subseteq D,
         \A x \in D \ Range(p) : Free(x, period, f)
  PROVE  /\ Range(p) \in SUBSET Intervals(D)
         /\ Proves(Range(p), period, D)
         /\ Through(Range(p), period) = f
  <1> DEFINE T == Range(p)
             n == Len(p)
  <1>1. /\ n \in Nat /\ period \in Nat /\ DOMAIN p = 1..n /\ (p # <<>> <=> n \in 1..n)
        /\ \A i \in 1..n :
               /\ p[i] \in E /\ p[i].start \in Nat /\ p[i].end \in Nat
               /\ p[i].start < p[i].end /\ p[i].end <= f /\ period <= p[i].start
        /\ \A i, j \in 1..n : p[i] = p[j] => i = j
    BY PrefixFacts
  <1>2. T = {p[i] : i \in 1..n}
    BY <1>1 DEF Range
  <1>3. f \in Nat /\ period <= f
    BY DEF ProvenPrefix
  <1>4. \A i \in 1..n : /\ p[i].barrier = "none" /\ p[i].attributable /\ p[i].end <= now
    BY DEF ProvenPrefix
  <1>5. \A i, j \in 1..n : i < j => p[i].end <= p[j].start
    BY DEF ProvenPrefix
  <1>6. \A i \in 1..(n - 1) : p[i].end = p[i + 1].start /\ Discontinuity(p[i], p[i + 1]) = "none"
    BY DEF ProvenPrefix
  <1>7. (p = <<>> => f = period) /\ (p # <<>> => p[n].end = f)
    BY DEF ProvenPrefix
  <1>8. \A t \in period..(f - 1) : \E i \in 1..n : p[i].start <= t /\ t < p[i].end
    BY DEF ProvenPrefix
  <1> HIDE DEF n, T
  <1>9. T \in SUBSET Intervals(D) /\ T \in SUBSET Intervals(E)
    BY <1>1, <1>2, <1>4 DEF Intervals, T
  <1>10. Through(T, period) = f
    <2> DEFINE w == Through(T, period)
    <2>1. \A e \in T : e.end <= now
      BY <1>2, <1>4
    <2>2. /\ w \in Nat /\ period <= w
          /\ \A e \in T : e.end <= w
          /\ w > period => \E e \in T : e.end = w
      BY <1>9, <2>1, ThroughFacts
    <2> HIDE DEF w
    <2>3. w <= f
      <3>1. CASE w > period
        <4>1. PICK e \in T : e.end = w
          BY <2>2, <3>1
        <4> QED BY <1>1, <1>2, <4>1
      <3>2. CASE ~(w > period)
        BY <1>1, <1>3, <2>2, <3>2
      <3> QED BY <3>1, <3>2
    <2>4. f <= w
      <3>1. CASE p = <<>>
        BY <1>7, <2>2, <3>1
      <3>2. CASE p # <<>>
        <4>1. p[n] \in T /\ p[n].end = f
          BY <1>1, <1>2, <1>7, <3>2
        <4> QED BY <2>2, <4>1
      <3> QED BY <3>1, <3>2
    <2>5. w = f
      BY <1>3, <2>2, <2>3, <2>4
    <2> QED BY <2>5 DEF w
  <1>11. \A e \in T : e.attributable /\ period <= e.start /\ e.end <= now
    BY <1>1, <1>2, <1>4
  <1>12. ASSUME NEW i \in 1..n, NEW j \in 1..n
         PROVE  /\ p[i] # p[j] => ~Overlap(p[i], p[j])
                /\ p[i].end = p[j].start => Discontinuity(p[i], p[j]) = "none"
    <2>0. /\ i \in Int /\ j \in Int
          /\ p[i].start \in Nat /\ p[i].end \in Nat /\ p[i].start < p[i].end
          /\ p[j].start \in Nat /\ p[j].end \in Nat /\ p[j].start < p[j].end
      BY <1>1
    <2>1. CASE i = j
      BY <2>0, <2>1
    <2>2. CASE i < j
      <3>1. p[i].end <= p[j].start
        BY <1>5, <2>2
      <3>2. ~Overlap(p[i], p[j])
        BY <2>0, <3>1 DEF Overlap
      <3>3. ASSUME p[i].end = p[j].start PROVE Discontinuity(p[i], p[j]) = "none"
        <4>1. i \in 1..(n - 1) /\ i + 1 \in 1..n
          BY <1>1, <2>0, <2>2
        <4>2. CASE j = i + 1
          BY <1>6, <4>1, <4>2
        <4>3. CASE j # i + 1
          <5>1. i + 1 < j
            BY <2>0, <2>2, <4>3
          <5>2. p[i + 1].end <= p[j].start
            BY <1>5, <4>1, <5>1
          <5>3. p[i].end = p[i + 1].start
            BY <1>6, <4>1
          <5>4. p[i + 1].start \in Nat /\ p[i + 1].end \in Nat /\ p[i + 1].start < p[i + 1].end
            BY <1>1, <4>1
          <5> QED BY <2>0, <3>3, <5>2, <5>3, <5>4
        <4> QED BY <4>2, <4>3
      <3> QED BY <3>2, <3>3
    <2>3. CASE j < i
      <3>1. p[j].end <= p[i].start
        BY <1>5, <2>3
      <3>2. ~Overlap(p[i], p[j])
        BY <2>0, <3>1 DEF Overlap
      <3>3. p[i].end # p[j].start
        BY <2>0, <3>1
      <3> QED BY <3>2, <3>3
    <2> QED BY <2>0, <2>1, <2>2, <2>3
  <1>13. \A e, g \in T : /\ e # g => ~Overlap(e, g)
                         /\ e.end = g.start => Discontinuity(e, g) = "none"
    BY <1>2, <1>12
  <1>14. UNION {e.start..(e.end - 1) : e \in T} = period..(f - 1)
    <2>1. ASSUME NEW e \in T, NEW t \in e.start..(e.end - 1) PROVE t \in period..(f - 1)
      <3>1. PICK i \in 1..n : e = p[i]
        BY <1>2
      <3> QED BY <1>1, <1>3, <3>1
    <2>2. ASSUME NEW t \in period..(f - 1) PROVE \E e \in T : t \in e.start..(e.end - 1)
      <3>1. PICK i \in 1..n : p[i].start <= t /\ t < p[i].end
        BY <1>8
      <3>2. t \in p[i].start..(p[i].end - 1)
        BY <1>1, <3>1
      <3> QED BY <1>2, <3>2
    <2> QED BY <2>1, <2>2
  <1>15. Proves(T, period, D)
    BY <1>10, <1>11, <1>13, <1>14 DEF Proves, Free, T
  <1> QED BY <1>9, <1>10, <1>15 DEF T

-----------------------------------------------------------------------------
(* The scan *)

\* Intervals that have not ended by the snapshot end the scan, wherever it is.
Late(E) == {l \in E : l.end > now}

\* The order of the sort.
Precedes(x, y) == x.start < y.start \/ (x.start = y.start /\ x.end < y.end)

\* What comes before everything that has not ended at the snapshot.
Early(E) == {x \in E : \A l \in Late(E) : Precedes(x, l)}

\* q is what the sort makes of the evidence.
SortedOf(q, n, E) ==
    /\ q \in [1..n -> E]
    /\ \A x \in E : \E i \in 1..n : q[i] = x
    /\ \A i, j \in 1..n : i < j => q[i] # q[j] /\ ~Precedes(q[j], q[i])

\* The intervals T prove the period to f, and none prove it further.
Best(T, f, period, D) ==
    /\ T \in SUBSET Intervals(D) /\ Proves(T, period, D) /\ Through(T, period) = f
    /\ \A U \in SUBSET Intervals(D) : Proves(U, period, D) => Through(U, period) <= f

\* The scan has found the best of what comes early.
Settled(p, f, period, E) ==
    ProvenPrefix(p, f, period, E) /\ Best(Range(p), f, period, Early(E))

\* While the scan runs, what it has seen of the period is what it has proven.
Running(p, f, k, q, period, E) ==
    /\ ProvenPrefix(p, f, period, E)
    /\ \A i \in 1..k : q[i].end <= now /\ (Skipped(q[i], period) \/ q[i] \in Range(p))
    /\ \A x \in Range(p) : \E i \in 1..k : x = q[i]

\* As long as nothing late was met, what was scanned is early, and what is early was
\* scanned or starts no sooner than what comes next.
LEMMA EarlyFacts ==
  ASSUME NEW E, EvidenceOK(E), now \in Nat, NEW n \in Nat, NEW q, SortedOf(q, n, E),
         NEW k \in 0..n, \A i \in 1..k : q[i].end <= now
  PROVE  /\ \A i \in 1..k : q[i] \in Early(E)
         /\ k < n /\ q[k + 1].end > now => \A x \in Early(E) : \E i \in 1..k : x = q[i]
         /\ \A x \in Early(E) : (\E i \in 1..k : x = q[i]) \/ (k < n /\ x.start >= q[k + 1].start)
  <1>0. \A i \in 1..n : /\ q[i] \in E /\ q[i].start \in Nat /\ q[i].end \in Nat
    BY DEF SortedOf, EvidenceOK
  <1>1. ASSUME NEW i \in 1..k PROVE q[i] \in Early(E)
    <2>1. i \in 1..n
      OBVIOUS
    <2>2. ASSUME NEW l \in Late(E) PROVE Precedes(q[i], l)
      <3>1. PICK j \in 1..n : q[j] = l
        BY DEF SortedOf, Late
      <3>2. q[j].end > now
        BY <3>1 DEF Late
      <3>3. ~(j \in 1..k)
        BY <1>0, <3>2
      <3>4. i < j
        BY <3>3
      <3>5. ~Precedes(q[j], q[i]) /\ q[i].end <= now
        BY <2>1, <3>4 DEF SortedOf
      <3> QED BY <1>0, <2>1, <3>1, <3>2, <3>5 DEF Precedes
    <2> QED BY <1>0, <2>1, <2>2 DEF Early
  <1>2. ASSUME NEW x \in Early(E), ~\E i \in 1..k : x = q[i]
        PROVE  \E j \in 1..n : q[j] = x /\ k + 1 <= j /\ k < n /\ k + 1 \in 1..n
    <2>1. PICK j \in 1..n : q[j] = x
      BY DEF Early, SortedOf
    <2>2. ~(j \in 1..k)
      BY <1>2, <2>1
    <2>3. k + 1 <= j /\ k < n /\ k + 1 \in 1..n
      BY <2>2
    <2> QED BY <2>1, <2>3
  <1>3. ASSUME k < n, q[k + 1].end > now, NEW x \in Early(E) PROVE \E i \in 1..k : x = q[i]
    <2>1. SUFFICES ASSUME ~\E i \in 1..k : x = q[i] PROVE FALSE
      OBVIOUS
    <2>2. PICK j \in 1..n : q[j] = x /\ k + 1 <= j
      BY <1>2, <2>1
    <2>3. k + 1 \in 1..n
      BY <1>3
    <2>4. q[k + 1] \in Late(E)
      BY <1>0, <1>3, <2>3 DEF Late
    <2>5. Precedes(x, q[k + 1])
      BY <2>4 DEF Early
    <2>6. CASE k + 1 < j
      BY <2>2, <2>3, <2>5, <2>6 DEF SortedOf
    <2>7. CASE k + 1 = j
      BY <1>0, <2>2, <2>5, <2>7 DEF Precedes
    <2> QED BY <2>2, <2>6, <2>7
  <1>4. ASSUME NEW x \in Early(E), ~\E i \in 1..k : x = q[i]
        PROVE  k < n /\ x.start >= q[k + 1].start
    <2>1. PICK j \in 1..n : q[j] = x /\ k + 1 <= j /\ k < n /\ k + 1 \in 1..n
      BY <1>2, <1>4
    <2>2. CASE k + 1 < j
      <3>1. ~Precedes(q[j], q[k + 1])
        BY <2>1, <2>2 DEF SortedOf
      <3> QED BY <1>0, <2>1, <3>1 DEF Precedes
    <2>3. CASE k + 1 = j
      BY <1>0, <2>1, <2>3
    <2> QED BY <2>1, <2>2, <2>3
  <1> QED BY <1>1, <1>3, <1>4

\* A prefix is settled if it proves the period and nothing proves more.
LEMMA SettlePrefix ==
  ASSUME NEW E, EvidenceOK(E), NEW period, PeriodOK(period, E),
         NEW p, NEW f, ProvenPrefix(p, f, period, E), Range(p) \subseteq Early(E),
         \A x \in Early(E) \ Range(p) : Free(x, period, f),
         \A U \in SUBSET Intervals(Early(E)) :
             Proves(U, period, Early(E)) => ~(Through(U, period) > f)
  PROVE  Settled(p, f, period, E)
  <1>1. Early(E) \in SUBSET E
    BY DEF Early
  <1>2. /\ Range(p) \in SUBSET Intervals(Early(E))
        /\ Proves(Range(p), period, Early(E))
        /\ Through(Range(p), period) = f
    BY <1>1, PrefixProves
  <1>3. ASSUME NEW U \in SUBSET Intervals(Early(E)), Proves(U, period, Early(E))
        PROVE  Through(U, period) <= f
    <2>1. Through(U, period) \in Nat
      BY <1>1, <1>3, ProvesFacts
    <2>2. f \in Nat /\ ~(Through(U, period) > f)
      BY <1>3 DEF ProvenPrefix
    <2> QED BY <2>1, <2>2
  <1> QED BY <1>2, <1>3 DEF Settled, Best

\* Facts about a running scan.
LEMMA RunningFacts ==
  ASSUME NEW E, EvidenceOK(E), NEW period, PeriodOK(period, E), NEW n \in Nat, NEW q,
         SortedOf(q, n, E), NEW k \in 0..n, NEW p, NEW f, Running(p, f, k, q, period, E)
  PROVE  /\ Range(p) \subseteq Early(E)
         /\ \A i \in 1..k : Skipped(q[i], period) =>
                 \A w \in Nat : Free(q[i], period, w)
         /\ \A x \in Range(p) : /\ x.start \in Nat /\ x.end \in Nat /\ x.start < x.end
                                /\ x.end <= f /\ period <= x.start /\ x.barrier = "none"
                                /\ x.attributable /\ x.end <= now
         /\ \A U \in SUBSET Intervals(Early(E)) :
               Proves(U, period, Early(E)) /\ Through(U, period) > f =>
                  \E t \in U : /\ t.start <= f /\ f < t.end
                               /\ ~\E i \in 1..k : t = q[i]
  <1>0. now \in Nat /\ period \in Nat /\ f \in Nat /\ period <= f
    BY DEF PeriodOK, Running, ProvenPrefix
  <1>1. Range(p) \subseteq Early(E)
    <2>1. \A i \in 1..k : q[i].end <= now
      BY DEF Running
    <2>2. \A i \in 1..k : q[i] \in Early(E)
      BY <1>0, <2>1, EarlyFacts
    <2> QED BY <2>2 DEF Running
  <1>2. ASSUME NEW i \in 1..k, Skipped(q[i], period), NEW w \in Nat PROVE Free(q[i], period, w)
    <2>1. i \in 1..n
      OBVIOUS
    <2>2. q[i] \in E
      BY <2>1 DEF SortedOf
    <2>3. q[i].start \in Nat /\ q[i].end \in Nat
      BY <2>2 DEF EvidenceOK
    <2> QED BY <1>0, <1>2, <2>3 DEF Free, Skipped
  <1>3. \A x \in Range(p) : /\ x.start \in Nat /\ x.end \in Nat /\ x.start < x.end
                            /\ x.end <= f /\ period <= x.start /\ x.barrier = "none"
                            /\ x.attributable /\ x.end <= now
    <2>0. ProvenPrefix(p, f, period, E)
      BY DEF Running
    <2>1. /\ Len(p) \in Nat /\ DOMAIN p = 1..Len(p)
          /\ \A i \in 1..Len(p) :
               /\ p[i] \in E /\ p[i].start \in Nat /\ p[i].end \in Nat
               /\ p[i].start < p[i].end /\ p[i].end <= f /\ period <= p[i].start
      BY <2>0, PrefixFacts
    <2>2. \A i \in 1..Len(p) : p[i].barrier = "none" /\ p[i].attributable /\ p[i].end <= now
      BY <2>0 DEF ProvenPrefix
    <2> QED BY <2>1, <2>2 DEF Range
  <1>4. ASSUME NEW U \in SUBSET Intervals(Early(E)),
               Proves(U, period, Early(E)), Through(U, period) > f
        PROVE  \E t \in U : t.start <= f /\ f < t.end /\ ~\E i \in 1..k : t = q[i]
    <2> DEFINE w == Through(U, period)
    <2>1. Early(E) \in SUBSET E
      BY DEF Early
    <2>2. /\ w \in Nat
          /\ \A t \in period..(w - 1) : \E e \in U : e.start <= t /\ t < e.end
          /\ \A e \in U : period <= e.start
      BY <1>4, <2>1, ProvesFacts
    <2>3. w > f
      BY <1>4
    <2> HIDE DEF w
    <2>4. f \in period..(w - 1)
      BY <1>0, <2>2, <2>3
    <2>5. PICK t \in U : t.start <= f /\ f < t.end
      BY <2>2, <2>4
    <2>6. t \in E /\ t.barrier = "none" /\ t.start \in Nat /\ t.end \in Nat /\ t.start < t.end
      BY <2>1 DEF Intervals, EvidenceOK
    <2>7. ASSUME NEW i \in 1..k, t = q[i] PROVE FALSE
      <3>1. ~Skipped(q[i], period)
        BY <1>0, <2>5, <2>6, <2>7 DEF Skipped
      <3>2. t \in Range(p)
        BY <2>7, <3>1 DEF Running
      <3> QED BY <1>0, <1>3, <2>5, <2>6, <3>2
    <2> QED BY <2>5, <2>7
  <1> QED BY <1>1, <1>2, <1>3, <1>4

\* The scan has seen everything that matters: what it has proven is all.
LEMMA AllSeenSettles ==
  ASSUME NEW E, EvidenceOK(E), NEW period, PeriodOK(period, E), NEW n \in Nat, NEW q,
         SortedOf(q, n, E), NEW k \in 0..n, NEW p, NEW f, Running(p, f, k, q, period, E),
         \A x \in Early(E) : \E i \in 1..k : x = q[i]
  PROVE  Settled(p, f, period, E)
  <1>1. /\ Range(p) \subseteq Early(E)
        /\ \A i \in 1..k : Skipped(q[i], period) => \A w \in Nat : Free(q[i], period, w)
        /\ \A U \in SUBSET Intervals(Early(E)) :
               Proves(U, period, Early(E)) /\ Through(U, period) > f =>
                  \E t \in U : /\ t.start <= f /\ f < t.end
                               /\ ~\E i \in 1..k : t = q[i]
    BY RunningFacts
  <1>2. ProvenPrefix(p, f, period, E) /\ f \in Nat
    BY DEF Running, ProvenPrefix
  <1>3. ASSUME NEW x \in Early(E) \ Range(p) PROVE Free(x, period, f)
    <2>1. PICK i \in 1..k : x = q[i]
      OBVIOUS
    <2>2. Skipped(q[i], period)
      BY <1>3, <2>1 DEF Running
    <2> QED BY <1>1, <1>2, <2>1, <2>2
  <1>4. ASSUME NEW U \in SUBSET Intervals(Early(E)), Proves(U, period, Early(E)),
               Through(U, period) > f
        PROVE  FALSE
    <2>1. PICK t \in U : ~\E i \in 1..k : t = q[i]
      BY <1>1, <1>4
    <2>2. t \in Early(E)
      BY DEF Intervals
    <2> QED BY <2>1, <2>2
  <1> QED BY <1>1, <1>2, <1>3, <1>4, SettlePrefix

\* What comes next in the sort: it is not before anything seen, and nothing unseen
\* is before it.
LEMMA NextFacts ==
  ASSUME NEW E, EvidenceOK(E), NEW period, PeriodOK(period, E), NEW n \in Nat, NEW q,
         SortedOf(q, n, E), NEW d \in 1..n, NEW p, NEW f, Running(p, f, d - 1, q, period, E),
         InWindow(q[d], period, now)
  PROVE  /\ q[d] \in Early(E)
         /\ q[d].start \in Nat /\ q[d].end \in Nat /\ period <= q[d].start
         /\ q[d].barrier = "none" => q[d].start < q[d].end /\ period < q[d].end
         /\ \A x \in Range(p) : x.start <= q[d].start
         /\ \A x \in Early(E) : (\E i \in 1..(d - 1) : x = q[i]) \/ q[d].start <= x.start
         /\ q[d] \notin Range(p)
  <1>0. now \in Nat /\ period \in Nat /\ d - 1 \in 0..n /\ d \in 0..n /\ (d - 1) + 1 = d
    BY DEF PeriodOK
  <1>1. q[d] \in E
    BY DEF SortedOf
  <1>2. /\ q[d].start \in Nat /\ q[d].end \in Nat
        /\ q[d].barrier = "none" => q[d].start < q[d].end
    BY <1>1 DEF EvidenceOK
  <1>3. ~Skipped(q[d], period) /\ q[d].start >= period /\ q[d].end <= now
    BY DEF InWindow
  <1>4. \A i \in 1..(d - 1) : q[i].end <= now
    BY DEF Running
  <1>5. \A i \in 1..d : q[i].end <= now
    <2>1. \A i \in 1..d : i = d \/ i \in 1..(d - 1)
      OBVIOUS
    <2> QED BY <1>3, <1>4, <2>1
  <1>6. q[d] \in Early(E)
    <2>1. \A i \in 1..d : q[i] \in Early(E)
      BY <1>0, <1>5, EarlyFacts
    <2> QED BY <2>1
  <1>7. \A x \in Early(E) : (\E i \in 1..(d - 1) : x = q[i]) \/ x.start >= q[d].start
    <2>1. \A x \in Early(E) : (\E i \in 1..(d - 1) : x = q[i])
                                 \/ (d - 1 < n /\ x.start >= q[(d - 1) + 1].start)
      BY <1>0, <1>4, EarlyFacts
    <2> QED BY <1>0, <2>1
  <1>8. ASSUME NEW x \in Range(p) PROVE x.start <= q[d].start
    <2>1. PICK i \in 1..(d - 1) : x = q[i]
      BY DEF Running
    <2>2. i \in 1..n /\ i < d
      OBVIOUS
    <2>3. ~Precedes(q[d], q[i])
      BY <2>2 DEF SortedOf
    <2>4. q[i] \in E
      BY <2>2 DEF SortedOf
    <2>5. q[i].start \in Nat
      BY <2>4 DEF EvidenceOK
    <2> QED BY <1>2, <2>1, <2>3, <2>5 DEF Precedes
  <1>9. \A x \in Early(E) : x.start \in Nat
    BY DEF Early, EvidenceOK
  <1>10. q[d] \notin Range(p)
    <2>1. \A i \in 1..(d - 1) : q[i] # q[d]
      BY DEF SortedOf
    <2> QED BY <2>1 DEF Running
  <1> QED BY <1>0, <1>2, <1>3, <1>6, <1>7, <1>8, <1>9, <1>10

\* A barrier or another interval inside the last proven one takes that one back.
LEMMA OverlapSettles ==
  ASSUME NEW E, EvidenceOK(E), NEW period, PeriodOK(period, E), NEW n \in Nat, NEW q,
         SortedOf(q, n, E), NEW d \in 1..n, NEW p, NEW f, Running(p, f, d - 1, q, period, E),
         InWindow(q[d], period, now), q[d].start < f, p # <<>>
  PROVE  Settled(SubSeq(p, 1, Len(p) - 1), p[Len(p)].start, period, E)
  <1> DEFINE c == q[d]
             l == p[Len(p)]
             r == SubSeq(p, 1, Len(p) - 1)
  <1>0. d - 1 \in 0..n /\ ProvenPrefix(p, f, period, E) /\ f \in Nat /\ period \in Nat
    BY DEF Running, ProvenPrefix, PeriodOK
  <1>1. ProvenPrefix(r, l.start, period, E) /\ Range(r) = Range(p) \ {l}
    BY <1>0, DropPrefix
  <1>2. l \in Range(p) /\ l.end = f
    <2>1. Len(p) \in 1..Len(p) /\ DOMAIN p = 1..Len(p)
      BY <1>0, PrefixFacts
    <2> QED BY <1>0, <2>1 DEF Range, ProvenPrefix
  <1>3. /\ Range(p) \subseteq Early(E)
        /\ \A i \in 1..(d - 1) : Skipped(q[i], period) =>
                 \A w \in Nat : Free(q[i], period, w)
        /\ \A x \in Range(p) : /\ x.start \in Nat /\ x.end \in Nat /\ x.start < x.end
                                /\ x.end <= f /\ period <= x.start /\ x.barrier = "none"
    BY <1>0, RunningFacts
  <1>4. /\ c \in Early(E)
        /\ c.start \in Nat /\ c.end \in Nat /\ period <= c.start
        /\ c.barrier = "none" => c.start < c.end /\ period < c.end
        /\ \A x \in Range(p) : x.start <= c.start
        /\ \A x \in Early(E) : (\E i \in 1..(d - 1) : x = q[i]) \/ c.start <= x.start
        /\ c \notin Range(p)
    BY NextFacts
  <1>c. c.start < f
    OBVIOUS
  <1> HIDE DEF c, l, r
  <1>5. l.start \in Nat /\ l.start <= c.start /\ period <= l.start /\ l.start < l.end /\ l.barrier = "none"
    BY <1>2, <1>3, <1>4
  <1>6. ASSUME NEW x \in Early(E) \ Range(r) PROVE Free(x, period, l.start)
    <2>0. x.start \in Nat /\ x.end \in Nat
      BY DEF Early, EvidenceOK
    <2>1. CASE x = l
      BY <1>5, <2>1 DEF Free
    <2>2. CASE x # l
      <3>1. x \notin Range(p)
        BY <1>1, <2>2
      <3>2. CASE \E i \in 1..(d - 1) : x = q[i]
        <4>1. PICK i \in 1..(d - 1) : x = q[i]
          BY <3>2
        <4>2. Skipped(q[i], period)
          BY <3>1, <4>1 DEF Running
        <4> QED BY <1>3, <1>5, <4>1, <4>2
      <3>3. CASE c.start <= x.start
        BY <1>4, <1>5, <2>0, <3>3 DEF Free
      <3> QED BY <1>4, <3>2, <3>3
    <2> QED BY <2>1, <2>2
  <1>7. ASSUME NEW U \in SUBSET Intervals(Early(E)), Proves(U, period, Early(E)),
               Through(U, period) > l.start
        PROVE  FALSE
    <2> DEFINE w == Through(U, period)
    <2>1. Early(E) \in SUBSET E
      BY DEF Early
    <2>2. /\ w \in Nat
          /\ \A e \in U : e.end <= w
          /\ \A x \in Intervals(Early(E)) : x \in U <=> x.start < w /\ period < x.end
          /\ \A e, g \in U : e # g => ~Overlap(e, g)
          /\ \A x \in Early(E) \ U : Free(x, period, w)
      BY <1>7, <2>1, ProvesFacts
    <2>3. w > l.start
      BY <1>7
    <2> HIDE DEF w
    <2>4. l \in Intervals(Early(E)) /\ l.end \in Nat
      BY <1>2, <1>3, <1>5 DEF Intervals
    <2>5. l \in U
      <3>1. l.start < w /\ period < l.end
        BY <1>0, <1>5, <2>2, <2>3, <2>4
      <3> QED BY <2>2, <2>4, <3>1
    <2>6. f <= w /\ c.start < w
      <3>1. f <= w
        BY <1>2, <2>2, <2>5
      <3> QED BY <1>0, <1>4, <1>c, <2>2, <3>1
    <2>7. CASE c.barrier = "none"
      <3>1. c \in Intervals(Early(E)) /\ c.start < w /\ period < c.end
        BY <1>4, <2>6, <2>7 DEF Intervals
      <3>2. c \in U
        BY <2>2, <3>1
      <3>3. Overlap(l, c)
        BY <1>2, <1>4, <1>5, <1>c, <2>4, <2>7 DEF Overlap
      <3>4. c # l
        BY <1>2, <1>4
      <3> QED BY <2>2, <2>5, <3>2, <3>3, <3>4
    <2>8. CASE c.barrier # "none"
      <3>1. c \notin U
        BY <2>8 DEF Intervals
      <3>2. Free(c, period, w)
        BY <1>4, <2>2, <3>1
      <3> QED BY <1>0, <1>4, <2>2, <2>6, <2>8, <3>2 DEF Free
    <2> QED BY <2>7, <2>8
  <1>8. Range(r) \subseteq Early(E)
    BY <1>1, <1>3
  <1>9. Settled(r, l.start, period, E)
    BY <1>1, <1>6, <1>7, <1>8, SettlePrefix
  <1> QED BY <1>9 DEF r, l

\* A barrier at or behind the frontier, a gap, an interval of no assignment or one
\* that does not follow: the prefix ends here.
LEMMA GapSettles ==
  ASSUME NEW E, EvidenceOK(E), NEW period, PeriodOK(period, E), NEW n \in Nat, NEW q,
         SortedOf(q, n, E), NEW d \in 1..n, NEW p, NEW f, Running(p, f, d - 1, q, period, E),
         InWindow(q[d], period, now), q[d].start >= f,
         ~(/\ q[d].barrier = "none" /\ q[d].start = f /\ q[d].attributable
           /\ p = <<>> \/ Discontinuity(Last(p), q[d]) = "none")
  PROVE  Settled(p, f, period, E)
  <1> DEFINE c == q[d]
  <1>0. d - 1 \in 0..n /\ ProvenPrefix(p, f, period, E) /\ f \in Nat /\ period \in Nat /\ period <= f
    BY DEF Running, ProvenPrefix, PeriodOK
  <1>3. /\ Range(p) \subseteq Early(E)
        /\ \A i \in 1..(d - 1) : Skipped(q[i], period) =>
                 \A w \in Nat : Free(q[i], period, w)
        /\ \A x \in Range(p) : /\ x.start \in Nat /\ x.end \in Nat /\ x.start < x.end
                                /\ x.end <= f /\ period <= x.start /\ x.barrier = "none"
        /\ \A U \in SUBSET Intervals(Early(E)) :
               Proves(U, period, Early(E)) /\ Through(U, period) > f =>
                  \E t \in U : /\ t.start <= f /\ f < t.end
                               /\ ~\E i \in 1..(d - 1) : t = q[i]
    BY <1>0, RunningFacts
  <1>4. /\ c \in Early(E)
        /\ c.start \in Nat /\ c.end \in Nat /\ period <= c.start
        /\ c.barrier = "none" => c.start < c.end /\ period < c.end
        /\ \A x \in Early(E) : (\E i \in 1..(d - 1) : x = q[i]) \/ c.start <= x.start
    BY NextFacts
  <1>c. c.start >= f /\ ~(/\ c.barrier = "none" /\ c.start = f /\ c.attributable
                          /\ p = <<>> \/ Discontinuity(Last(p), c) = "none")
    OBVIOUS
  <1> HIDE DEF c
  <1>6. ASSUME NEW x \in Early(E) \ Range(p) PROVE Free(x, period, f)
    <2>0. x.start \in Nat /\ x.end \in Nat
      BY DEF Early, EvidenceOK
    <2>2. CASE \E i \in 1..(d - 1) : x = q[i]
      <3>1. PICK i \in 1..(d - 1) : x = q[i]
        BY <2>2
      <3>2. Skipped(q[i], period)
        BY <1>6, <3>1 DEF Running
      <3> QED BY <1>0, <1>3, <3>1, <3>2
    <2>3. CASE c.start <= x.start
      BY <1>0, <1>4, <1>c, <2>0, <2>3 DEF Free
    <2> QED BY <1>4, <2>2, <2>3
  <1>7. ASSUME NEW U \in SUBSET Intervals(Early(E)), Proves(U, period, Early(E)),
               Through(U, period) > f
        PROVE  FALSE
    <2> DEFINE w == Through(U, period)
    <2>1. Early(E) \in SUBSET E
      BY DEF Early
    <2>2. /\ w \in Nat
          /\ \A e \in U : e.attributable
          /\ \A x \in Intervals(Early(E)) : x \in U <=> x.start < w /\ period < x.end
          /\ \A e, g \in U : e.end = g.start => Discontinuity(e, g) = "none"
          /\ \A x \in Early(E) \ U : Free(x, period, w)
      BY <1>7, <2>1, ProvesFacts
    <2>3. w > f
      BY <1>7
    <2>4. PICK t \in U : /\ t.start <= f /\ f < t.end
                         /\ ~\E i \in 1..(d - 1) : t = q[i]
      BY <1>3, <1>7
    <2> HIDE DEF w
    <2>5. t \in Early(E) /\ t.start \in Nat
      BY <2>1 DEF Intervals, EvidenceOK
    <2>6. c.start <= t.start
      BY <1>4, <2>4, <2>5
    <2>7. c.start = f
      BY <1>0, <1>4, <1>c, <2>4, <2>5, <2>6
    <2>8. CASE c.barrier # "none"
      <3>1. c \notin U
        BY <2>8 DEF Intervals
      <3>2. Free(c, period, w)
        BY <1>4, <2>2, <3>1
      <3> QED BY <1>0, <1>4, <2>2, <2>3, <2>7, <2>8, <3>2 DEF Free
    <2>9. CASE c.barrier = "none"
      <3>1. c \in Intervals(Early(E)) /\ c.start < w /\ period < c.end
        BY <1>4, <2>2, <2>3, <2>7, <2>9 DEF Intervals
      <3>2. c \in U
        BY <2>2, <3>1
      <3>3. c.attributable
        BY <2>2, <3>2
      <3>4. p # <<>> /\ Discontinuity(Last(p), c) # "none"
        BY <1>c, <2>7, <2>9, <3>3
      <3> DEFINE l == Last(p)
      <3>5. l \in Range(p) /\ l.end = f
        <4>1. Len(p) \in 1..Len(p) /\ DOMAIN p = 1..Len(p)
          BY <1>0, <3>4, PrefixFacts
        <4>2. l = p[Len(p)]
          BY DEF Last
        <4> QED BY <1>0, <3>4, <4>1, <4>2 DEF Range, ProvenPrefix
      <3> HIDE DEF l
      <3>6. l \in Intervals(Early(E)) /\ l.start < w /\ period < l.end
        BY <1>0, <1>3, <2>2, <2>3, <3>5 DEF Intervals
      <3>7. l \in U
        BY <2>2, <3>6
      <3>8. Discontinuity(l, c) = "none"
        BY <2>2, <2>7, <3>2, <3>5, <3>7
      <3> QED BY <3>4, <3>8 DEF l
    <2> QED BY <2>8, <2>9
  <1> QED BY <1>0, <1>3, <1>6, <1>7, SettlePrefix

\* The scan after k elements.
Scanned(acc, k, q, period, E) ==
    IF acc.done THEN Settled(acc.proven, acc.frontier, period, E)
                ELSE Running(acc.proven, acc.frontier, k, q, period, E)

\* A turn keeps that.
LEMMA ScanTurn ==
  ASSUME NEW E, EvidenceOK(E), NEW period, PeriodOK(period, E), NEW n \in Nat, NEW q,
         SortedOf(q, n, E), NEW d \in 1..n, NEW acc \in ScanState(E),
         Scanned(acc, d - 1, q, period, E)
  PROVE  Scanned(Step(acc, q[d], period, now), d, q, period, E)
  <1> DEFINE c == q[d]
             r == Step(acc, c, period, now)
             p == acc.proven
             f == acc.frontier
  <1>0. /\ now \in Nat /\ period \in Nat /\ c \in E /\ acc.done \in BOOLEAN
        /\ p \in Seq(E) /\ f \in Nat /\ d - 1 \in 0..n /\ (d - 1) + 1 = d /\ d - 1 < n
    BY DEF PeriodOK, SortedOf, ScanState
  <1>1. /\ acc.done => r = acc
        /\ ~acc.done /\ Skipped(c, period) => r = acc
        /\ ~acc.done /\ ~Skipped(c, period) /\ (c.start < period \/ c.end > now)
               => r = Stop(acc, "UNKNOWN")
        /\ ~acc.done /\ InWindow(c, period, now)
               /\ (c.barrier # "none" \/ c.start < acc.frontier)
               => \E st \in States : r = StopAt(acc, st, c.start)
        /\ ~acc.done /\ InWindow(c, period, now)
               /\ c.barrier = "none" /\ c.start >= acc.frontier /\ ~Follows(acc, c)
               => \E st \in States : r = Stop(acc, st)
        /\ ~acc.done /\ InWindow(c, period, now)
               /\ c.barrier = "none" /\ Follows(acc, c)
               => r = Accept(acc, c)
    BY <1>0, StepCases
  <1>2. /\ c.start \in Nat /\ c.end \in Nat /\ c.barrier \in {"none", "UNKNOWN", "AMBIGUOUS"}
        /\ c.barrier = "none" => c.start < c.end
        /\ c.barrier # "none" => c.end = 0
    BY <1>0 DEF EvidenceOK
  <1>3. ASSUME NEW st PROVE LET s == Stop(acc, st)
                            IN s.done = TRUE /\ s.proven = p /\ s.frontier = f
    BY DEF Stop, ScanState
  <1>4. \A i \in 1..d : i = d \/ i \in 1..(d - 1)
    OBVIOUS
  <1> HIDE DEF r
  <1>5. CASE acc.done
    BY <1>1, <1>5 DEF Scanned, r
  <1>6. CASE ~acc.done
    <2>0. Running(p, f, d - 1, q, period, E)
      BY <1>6 DEF Scanned
    <2>1. CASE Skipped(c, period)
      <3>1. r = acc
        BY <1>1, <1>6, <2>1
      <3>2. c.end <= now
        BY <1>0, <1>2, <2>1 DEF Skipped, PeriodOK
      <3>3. Running(p, f, d, q, period, E)
        BY <1>4, <2>0, <2>1, <3>2 DEF Running
      <3> QED BY <1>6, <3>1, <3>3 DEF Scanned, r
    <2>2. CASE ~Skipped(c, period) /\ (c.start < period \/ c.end > now)
      <3>1. c.end > now
        <4>1. CASE c.start < period
          BY <1>0, <1>2, <2>2, <4>1 DEF Skipped, PeriodOK, Intervals
        <4> QED BY <2>2, <4>1
      <3>2. \A i \in 1..(d - 1) : q[i].end <= now
        BY <2>0 DEF Running
      <3>3. \A x \in Early(E) : \E i \in 1..(d - 1) : x = q[i]
        <4>1. d - 1 < n /\ q[(d - 1) + 1].end > now
          BY <1>0, <3>1
        <4>2. ASSUME NEW k \in 0..n, \A i \in 1..k : q[i].end <= now,
                     k < n, q[k + 1].end > now
              PROVE  \A x \in Early(E) : \E i \in 1..k : x = q[i]
          <5>1. now \in Nat
            BY <1>0
          <5> QED BY <4>2, <5>1, EarlyFacts
        <4>3. d - 1 \in 0..n
          BY <1>0
        <4> QED BY <3>2, <4>1, <4>2, <4>3
      <3>4. Settled(p, f, period, E)
        BY <1>0, <2>0, <3>3, AllSeenSettles
      <3>5. r = Stop(acc, "UNKNOWN")
        BY <1>1, <1>6, <2>2
      <3> QED BY <1>3, <3>4, <3>5 DEF Scanned, r
    <2>3. CASE InWindow(c, period, now) /\ (c.barrier # "none" \/ c.start < f)
      <3>1. PICK st \in States : r = StopAt(acc, st, c.start)
        BY <1>1, <1>6, <2>3
      <3> DEFINE g == Retreat(f, c.start, p)
      <3>2. r.done = TRUE /\ r.frontier = g /\ r.proven = Truncate(p, g)
        BY <3>1 DEF StopAt, Stop, ScanState
      <3>3. ProvenPrefix(p, f, period, E) /\ period <= c.start
        BY <2>0, <2>3, <1>0, <1>2 DEF Running, InWindow
      <3>4. \A i \in 1..Len(p) : p[i].start <= c.start
        <4>1. \A x \in Range(p) : x.start <= c.start
          BY <2>0, <2>3, NextFacts
        <4>2. DOMAIN p = 1..Len(p)
          BY <3>3, PrefixFacts
        <4> QED BY <4>1, <4>2 DEF Range
      <3>5. /\ c.start >= f => g = f /\ Truncate(p, f) = p
            /\ c.start < f => /\ p # <<>> /\ g = p[Len(p)].start
                              /\ Truncate(p, p[Len(p)].start) = SubSeq(p, 1, Len(p) - 1)
        BY <1>2, <3>3, <3>4, TakeBack
      <3> HIDE DEF g
      <3>6. CASE c.start < f
        <4>1. Settled(SubSeq(p, 1, Len(p) - 1), p[Len(p)].start, period, E)
          BY <2>0, <2>3, <3>5, <3>6, OverlapSettles
        <4> QED BY <3>2, <3>5, <3>6, <4>1 DEF Scanned, r
      <3>7. CASE c.start >= f
        <4>1. c.barrier # "none"
          BY <1>0, <1>2, <2>3, <3>7
        <4>2. Settled(p, f, period, E)
          BY <2>0, <2>3, <3>7, <4>1, GapSettles
        <4> QED BY <3>2, <3>5, <3>7, <4>2 DEF Scanned, r
      <3> QED BY <1>0, <1>2, <3>6, <3>7
    <2>4. CASE InWindow(c, period, now) /\ c.barrier = "none" /\ c.start >= f /\ ~Follows(acc, c)
      <3>1. PICK st \in States : r = Stop(acc, st)
        BY <1>1, <1>6, <2>4
      <3>2. Settled(p, f, period, E)
        BY <2>0, <2>4, GapSettles DEF Follows
      <3> QED BY <1>3, <3>1, <3>2 DEF Scanned, r
    <2>5. CASE InWindow(c, period, now) /\ c.barrier = "none" /\ Follows(acc, c)
      <3>1. r = Accept(acc, c)
        BY <1>1, <1>6, <2>5
      <3>2. r.done = FALSE /\ r.frontier = c.end /\ r.proven = Append(p, c)
        BY <1>6, <3>1 DEF Accept, ScanState
      <3>3. /\ ProvenPrefix(p, f, period, E) /\ c.end <= now /\ c.start = f /\ c.attributable
            /\ p = <<>> \/ Discontinuity(Last(p), c) = "none"
        BY <2>0, <2>5 DEF Running, InWindow, Follows
      <3>4. ProvenPrefix(Append(p, c), c.end, period, E)
        BY <1>0, <2>5, <3>3, AcceptPrefix
      <3>5. Range(Append(p, c)) = Range(p) \cup {c}
        <4>1. /\ DOMAIN p = 1..Len(p) /\ Len(p) \in Nat
              /\ DOMAIN Append(p, c) = 1..(Len(p) + 1)
              /\ \A i \in 1..Len(p) : Append(p, c)[i] = p[i]
              /\ Append(p, c)[Len(p) + 1] = c
          BY <1>0
        <4>2. \A i \in 1..(Len(p) + 1) : i = Len(p) + 1 \/ i \in 1..Len(p)
          BY <4>1
        <4>3. \A i \in 1..Len(p) : i \in 1..(Len(p) + 1)
          BY <4>1
        <4>4. Len(p) + 1 \in 1..(Len(p) + 1)
          BY <4>1
        <4> QED BY <4>1, <4>2, <4>3, <4>4 DEF Range
      <3>6. \A i \in 1..d : q[i].end <= now /\ (Skipped(q[i], period) \/ q[i] \in Range(Append(p, c)))
        BY <1>4, <2>0, <3>3, <3>5 DEF Running
      <3>7. \A x \in Range(Append(p, c)) : \E i \in 1..d : x = q[i]
        <4>1. \A i \in 1..(d - 1) : i \in 1..d
          OBVIOUS
        <4>2. d \in 1..d
          OBVIOUS
        <4> QED BY <2>0, <3>5, <4>1, <4>2 DEF Running
      <3>8. Running(Append(p, c), c.end, d, q, period, E)
        BY <3>4, <3>6, <3>7 DEF Running
      <3> QED BY <3>2, <3>8 DEF Scanned, r
    <2> QED BY <1>0, <1>2, <2>1, <2>2, <2>3, <2>4, <2>5 DEF InWindow
  <1> QED BY <1>0, <1>5, <1>6

\* The result of the scan.
LEMMA ScanSettles ==
  ASSUME NEW E, EvidenceOK(E), NEW period, PeriodOK(period, E), NEW n \in Nat, NEW q,
         SortedOf(q, n, E), NEW acc, IsScan(acc, E, q, n, period, now)
  PROVE  Settled(acc[n].proven, acc[n].frontier, period, E)
  <1> DEFINE Bad == {k \in 0..n : ~Scanned(acc[k], k, q, period, E)}
  <1>0. now \in Nat /\ period \in Nat
    BY DEF PeriodOK
  <1>1. /\ \A k \in 0..n : acc[k] \in ScanState(E)
        /\ acc[0] = ScanInit(period)
        /\ \A i \in 1..n : acc[i] = Step(acc[i - 1], q[i], period, now)
    BY DEF IsScan
  <1>2. Scanned(acc[0], 0, q, period, E)
    <2>1. acc[0].done = FALSE /\ acc[0].proven = <<>> /\ acc[0].frontier = period
      BY <1>1 DEF ScanInit
    <2>2. ProvenPrefix(<<>>, period, period, E)
      BY EmptyPrefix
    <2>3. Range(<<>>) = {} /\ 1..0 = {}
      BY DEF Range
    <2>4. Running(<<>>, period, 0, q, period, E)
      BY <2>2, <2>3 DEF Running
    <2> QED BY <2>1, <2>4 DEF Scanned
  <1>3. Bad = {}
    <2>1. SUFFICES ASSUME Bad # {} PROVE FALSE
      OBVIOUS
    <2>2. PICK k \in Bad : \A j \in Bad : k <= j
      <3>1. Bad \subseteq Nat
        OBVIOUS
      <3> HIDE DEF Bad
      <3> QED BY <2>1, <3>1, LeastNumber
    <2>3. k \in 1..n /\ ~Scanned(acc[k], k, q, period, E)
      BY <1>2, <2>2
    <2>4. k - 1 \in 0..n /\ k - 1 \notin Bad
      <3>1. k - 1 \in 0..n /\ ~(k <= k - 1)
        BY <2>3
      <3> HIDE DEF Bad
      <3> QED BY <2>2, <3>1
    <2>5. Scanned(acc[k - 1], k - 1, q, period, E) /\ acc[k - 1] \in ScanState(E)
      BY <1>1, <2>4
    <2>6. Scanned(Step(acc[k - 1], q[k], period, now), k, q, period, E)
      BY <2>3, <2>5, ScanTurn
    <2> QED BY <1>1, <2>3, <2>6
  <1>4. n \in 0..n /\ Scanned(acc[n], n, q, period, E) /\ acc[n].done \in BOOLEAN
    BY <1>1, <1>3 DEF ScanState
  <1>5. CASE acc[n].done
    BY <1>4, <1>5 DEF Scanned
  <1>6. CASE ~acc[n].done
    <2>1. Running(acc[n].proven, acc[n].frontier, n, q, period, E)
      BY <1>4, <1>6 DEF Scanned
    <2>2. \A x \in Early(E) : \E i \in 1..n : x = q[i]
      BY DEF Early, SortedOf
    <2> QED BY <1>4, <2>1, <2>2, AllSeenSettles
  <1> QED BY <1>4, <1>5, <1>6

\* seq has every element of E once.
Enumerates(seq, E) ==
    /\ seq \in [1..Cardinality(E) -> E]
    /\ \A i, j \in 1..Cardinality(E) : i # j => seq[i] # seq[j]

\* An enumeration leaves nothing out.
LEMMA EnumerationCovers ==
  ASSUME NEW E, IsFiniteSet(E), NEW seq, Enumerates(seq, E)
  PROVE  \A x \in E : \E i \in 1..Cardinality(E) : seq[i] = x
  <1> DEFINE n == Cardinality(E)
  <1>1. n \in Nat
    BY FS_CardinalityType
  <1>2. seq \in Injection(1..n, E)
    BY DEF Enumerates, Injection, IsInjective
  <1>3. IsFiniteSet(1..n) /\ Cardinality(1..n) = n
    <2> HIDE DEF n
    <2>1. 1 \in Int /\ n \in Int
      BY <1>1
    <2>2. IsFiniteSet(1..n) /\ Cardinality(1..n) = IF 1 > n THEN 0 ELSE n - 1 + 1
      BY <2>1, FS_Interval
    <2> QED BY <1>1, <2>2
  <1>4. seq \in Surjection(1..n, E)
    BY <1>2, <1>3, FS_Injection
  <1> QED BY <1>4 DEF Surjection

\* SetToSeq is an enumeration.
LEMMA SetToSeqEnumerates ==
  ASSUME NEW E, IsFiniteSet(E)
  PROVE  Enumerates(SetToSeq(E), E)
  <1> DEFINE n == Cardinality(E)
  <1>1. PICK f : f \in Bijection(1..n, E)
    BY FS_CardinalityType DEF ExistsBijection
  <1>2. f \in [1..n -> E] /\ IsInjective(f)
    BY <1>1 DEF Bijection, Injection
  <1>3. SetToSeq(E) \in [1..n -> E] /\ IsInjective(SetToSeq(E))
    BY <1>2 DEF SetToSeq
  <1> QED BY <1>3 DEF Enumerates, IsInjective

\* The sort keeps every row and puts them in order.
LEMMA SortedSorts ==
  ASSUME NEW E, EvidenceOK(E), NEW seq, Enumerates(seq, E)
  PROVE  SortedOf(Sorted(seq), Cardinality(E), E)
  <1> DEFINE n == Cardinality(E)
             Before(i, j) == \/ seq[i].start < seq[j].start
                             \/ seq[i].start = seq[j].start /\ seq[i].end < seq[j].end
                             \/ /\ seq[i].start = seq[j].start /\ seq[i].end = seq[j].end
                                /\ i < j
             S == 1..n
             R == {x \in S \X S : Before(x[1], x[2])}
             order == SortedBy(S, R)
             q == Sorted(seq)
  <1>0. IsFiniteSet(E) /\ n \in Nat
    BY FS_CardinalityType DEF EvidenceOK
  <1>1. seq \in [1..n -> E] /\ \A i, j \in 1..n : i # j => seq[i] # seq[j]
    BY DEF Enumerates
  <1>2. \A i \in 1..n : seq[i] \in E /\ seq[i].start \in Nat /\ seq[i].end \in Nat
    BY <1>1 DEF EvidenceOK
  <1>3. \A x \in E : \E i \in 1..n : seq[i] = x
    BY <1>0, EnumerationCovers
  <1> HIDE DEF n
  <1>4. \A i, j \in S : <<i, j>> \in R <=> Before(i, j)
    OBVIOUS
  <1>5. IsOrder(S, R)
    <2>1. \A i \in S : ~Before(i, i)
      BY <1>2
    <2>2. \A i, j, k \in S : Before(i, j) /\ Before(j, k) => Before(i, k)
      BY <1>2
    <2>3. \A i, j \in S : i = j \/ Before(i, j) \/ Before(j, i)
      BY <1>2
    <2> HIDE DEF Before, R, S
    <2> QED BY <1>4, <2>1, <2>2, <2>3 DEF IsOrder
  <1>6. IsFiniteSet(S) /\ Cardinality(S) = n
    <2>1. 1 \in Int /\ n \in Int
      BY <1>0
    <2>2. IsFiniteSet(1..n) /\ Cardinality(1..n) = IF 1 > n THEN 0 ELSE n - 1 + 1
      BY <2>1, FS_Interval
    <2> QED BY <1>0, <2>2
  <1>7. Lists(order, S, R)
    <2> HIDE DEF S, R
    <2> QED BY <1>5, <1>6, SortedByLists
  <1>8. q = [i \in 1..n |-> seq[order[i]]]
    BY <1>1 DEF Sorted
  <1> HIDE DEF q, order, R
  <1>9. /\ \A i \in 1..n : order[i] \in 1..n
        /\ \A j \in 1..n : \E i \in 1..n : order[i] = j
        /\ \A i, j \in 1..n : i < j => <<order[i], order[j]>> \in R
    BY <1>6, <1>7 DEF Lists
  <1>10. q \in [1..n -> E]
    BY <1>1, <1>8, <1>9
  <1>11. \A x \in E : \E i \in 1..n : q[i] = x
    BY <1>3, <1>8, <1>9
  <1>12. ASSUME NEW i \in 1..n, NEW j \in 1..n, i < j
         PROVE  q[i] # q[j] /\ ~Precedes(q[j], q[i])
    <2>1. order[i] \in 1..n /\ order[j] \in 1..n /\ Before(order[i], order[j])
      BY <1>4, <1>9, <1>12
    <2>2. q[i] = seq[order[i]] /\ q[j] = seq[order[j]]
      BY <1>8
    <2>3. order[i] # order[j]
      BY <1>2, <2>1
    <2>4. q[i] # q[j]
      BY <1>1, <2>1, <2>2, <2>3
    <2>5. ~Precedes(q[j], q[i])
      BY <1>2, <2>1, <2>2 DEF Precedes
    <2> QED BY <2>4, <2>5
  <1> QED BY <1>10, <1>11, <1>12 DEF SortedOf, q, n

\* What Evaluate returns: the watermark and the energy of the best intervals of
\* what comes before anything late.
IsResult(r, T, period, E) ==
    Best(T, r.through, period, Early(E)) /\ r.kwh = KwhSum(T)

\* Evaluate returns that, for any order of the rows.
LEMMA EvaluateResult ==
  ASSUME NEW E, EvidenceOK(E), NEW period, PeriodOK(period, E), NEW seq, Enumerates(seq, E)
  PROVE  \E T : IsResult(Evaluate(period, now, seq), T, period, E)
  <1> DEFINE n == Cardinality(E)
             q == Sorted(seq)
             r == Evaluate(period, now, seq)
             Final == ScanFold(q, period, now)
  <1>0. n \in Nat /\ now \in Nat /\ period \in Nat /\ Metered(E)
    BY FS_CardinalityType DEF EvidenceOK, PeriodOK, Metered
  <1>1. SortedOf(q, n, E)
    BY SortedSorts
  <1>2. q \in [1..n -> E]
    BY <1>1 DEF SortedOf
  <1> HIDE DEF n, q
  <1>3. PICK acc : IsScan(acc, E, q, n, period, now) /\ Final = acc[n]
    BY <1>0, <1>2, StepTrace
  <1>4. r = [through |-> Final.frontier, state |-> Final.state, kwh |-> KwhFold(Final.proven)]
    BY DEF Evaluate, ScanFold, ScanInit, KwhFold, q
  <1> HIDE DEF Final
  <1> DEFINE p == acc[n].proven
             f == acc[n].frontier
  <1>5. Settled(p, f, period, E)
    BY <1>0, <1>1, <1>3, ScanSettles
  <1>6. ProvenPrefix(p, f, period, E) /\ Best(Range(p), f, period, Early(E))
    BY <1>5 DEF Settled
  <1> HIDE DEF r, p, f
  <1>7. p \in Seq(E) /\ \A i, j \in 1..Len(p) : p[i] = p[j] => i = j
    <2>1. p \in Seq(E)
      BY <1>6 DEF ProvenPrefix
    <2>2. \A i, j \in 1..Len(p) : p[i] = p[j] => i = j
      BY <1>6, PrefixFacts
    <2> QED BY <2>1, <2>2
  <1>8. KwhFold(p) = KwhSum(Range(p))
    BY <1>0, <1>7, SumOfSeq
  <1>9. r.through = f /\ r.kwh = KwhSum(Range(p))
    BY <1>3, <1>4, <1>8 DEF p, f
  <1> QED BY <1>6, <1>9 DEF IsResult, r

\* Intervals that prove a period as far are the same.
LEMMA OneBest ==
  ASSUME NEW E, EvidenceOK(E), NEW period, PeriodOK(period, E), NEW D \in SUBSET E,
         NEW T, NEW f, Best(T, f, period, D), NEW U, NEW g, Best(U, g, period, D)
  PROVE  T = U /\ f = g
  <1>1. /\ T \in SUBSET Intervals(D) /\ Proves(T, period, D) /\ Through(T, period) = f
        /\ U \in SUBSET Intervals(D) /\ Proves(U, period, D) /\ Through(U, period) = g
        /\ f <= g /\ g <= f
    BY DEF Best
  <1>2. f \in Nat /\ \A x \in Intervals(D) : x \in T <=> x.start < f /\ period < x.end
    BY <1>1, ProvesFacts
  <1>3. g \in Nat /\ \A x \in Intervals(D) : x \in U <=> x.start < g /\ period < x.end
    BY <1>1, ProvesFacts
  <1>4. f = g
    BY <1>1, <1>2, <1>3
  <1>5. T = U
    BY <1>1, <1>2, <1>3, <1>4
  <1> QED BY <1>4, <1>5

\* If intervals that have not ended overlap no other one, they hide nothing: the
\* best of what comes before them is the best of all.
LEMMA LateHidesNothing ==
  ASSUME NEW E, EvidenceOK(E), NEW period, PeriodOK(period, E), NoLateOverlap(E),
         NEW T, NEW f, Best(T, f, period, Early(E))
  PROVE  Best(T, f, period, E)
  <1> DEFINE D == Early(E)
  <1>0. D \in SUBSET E /\ now \in Nat /\ period \in Nat /\ period >= 1 /\ period <= now
    BY DEF Early, PeriodOK
  <1>1. T \in SUBSET Intervals(D) /\ Proves(T, period, D) /\ Through(T, period) = f
    BY DEF Best
  <1>2. /\ f \in Nat /\ period <= f
        /\ \A e \in T : e.end <= f /\ e.end <= now /\ period <= e.start /\ e.attributable
        /\ \A t \in period..(f - 1) : \E e \in T : e.start <= t /\ t < e.end
        /\ \A x \in D \ T : Free(x, period, f)
    BY <1>0, <1>1, ProvesFacts
  <1>3. \A e \in E : /\ e.start \in Nat /\ e.end \in Nat
                     /\ e.barrier = "none" => e.start < e.end
                     /\ e.barrier # "none" => e.end = 0
    BY DEF EvidenceOK
  <1>4. T \in SUBSET Intervals(E) /\ T \in SUBSET E
    BY <1>0, <1>1 DEF Intervals
  <1>5. ASSUME NEW l \in Late(E) PROVE l \in E /\ period <= l.start /\ l.barrier = "none" /\ l.end > now
    <2>1. l \in E /\ l.end > now
      BY DEF Late
    <2>2. l.barrier = "none"
      BY <1>0, <1>3, <2>1
    <2>3. l \in Intervals(E)
      BY <2>1, <2>2 DEF Intervals
    <2>4. ~(l.start < period /\ period < l.end)
      BY <2>3 DEF PeriodOK
    <2> QED BY <1>0, <1>3, <2>1, <2>2, <2>4
  <1>6. ASSUME NEW l \in Late(E) PROVE f <= l.start
    <2>1. SUFFICES ASSUME l.start < f PROVE FALSE
      BY <1>2, <1>3, <1>5
    <2>2. l.start \in period..(f - 1)
      BY <1>2, <1>3, <1>5, <2>1
    <2>3. PICK e \in T : e.start <= l.start /\ l.start < e.end
      BY <1>2, <2>2
    <2>4. e \in E /\ e.end <= now /\ e.start \in Nat /\ e.end \in Nat
      BY <1>2, <1>3, <1>4
    <2>5. e # l
      BY <1>0, <1>5, <2>4
    <2>6. Overlap(l, e)
      BY <1>0, <1>3, <1>5, <2>3, <2>4 DEF Overlap
    <2> QED BY <1>5, <2>4, <2>5, <2>6 DEF NoLateOverlap
  <1>7. ASSUME NEW x \in E \ T PROVE Free(x, period, f)
    <2>1. CASE x \in D
      BY <1>2, <2>1
    <2>2. CASE x \notin D
      <3>1. PICK l \in Late(E) : ~Precedes(x, l)
        BY <2>2 DEF Early
      <3>2. l.start <= x.start
        BY <1>3, <1>5, <3>1 DEF Precedes
      <3>3. f <= x.start
        BY <1>2, <1>3, <1>5, <1>6, <3>2
      <3> QED BY <1>0, <1>2, <1>3, <3>3 DEF Free
    <2> QED BY <2>1, <2>2
  <1>8. Proves(T, period, E)
    <2> HIDE DEF D
    <2> QED BY <1>1, <1>7 DEF Proves, Free
  <1>9. ASSUME NEW U \in SUBSET Intervals(E), Proves(U, period, E)
        PROVE  Through(U, period) <= f
    <2> DEFINE w == Through(U, period)
    <2>0. E \in SUBSET E
      OBVIOUS
    <2>1. /\ w \in Nat /\ period <= w
          /\ \A e \in U : e.end <= w /\ e.end <= now
          /\ \A x \in E \ U : Free(x, period, w)
      BY <1>9, <2>0, ProvesFacts
    <2> HIDE DEF w
    <2>2. ASSUME NEW l \in Late(E) PROVE w <= l.start
      <3>1. l \in E /\ l.barrier = "none" /\ l.end > now
        BY <1>5
      <3>2. l \notin U
        BY <1>0, <1>3, <2>1, <3>1
      <3>3. Free(l, period, w)
        BY <2>1, <3>1, <3>2
      <3> QED BY <1>0, <1>3, <2>1, <3>1, <3>3 DEF Free
    <2>3. U \in SUBSET Intervals(D)
      <3>1. ASSUME NEW e \in U PROVE e \in Early(E)
        <4>1. e \in E /\ e.barrier = "none"
          BY DEF Intervals
        <4>2. ASSUME NEW l \in Late(E) PROVE Precedes(e, l)
          <5>1. e.end <= w /\ w <= l.start /\ l \in E
            BY <1>5, <2>1, <2>2
          <5> QED BY <1>3, <2>1, <4>1, <5>1 DEF Precedes
        <4> QED BY <4>1, <4>2 DEF Early
      <3> QED BY <3>1 DEF Intervals
    <2>4. Proves(U, period, D)
      <3> HIDE DEF D
      <3> QED BY <1>0, <1>9 DEF Proves
    <2>5. Through(U, period) <= f
      BY <2>3, <2>4 DEF Best
    <2> QED BY <2>5
  <1> QED BY <1>1, <1>4, <1>8, <1>9 DEF Best

\* A later period, if the earlier one is proven into it: as far, and with intervals
\* of the earlier one.
LEMMA WindowsAgree ==
  ASSUME NEW E, EvidenceOK(E), NEW a, PeriodOK(a, E), NEW b, PeriodOK(b, E), a <= b,
         NEW D \in SUBSET E, NEW T, NEW f, Best(T, f, a, D), NEW U, NEW g, Best(U, g, b, D),
         f > b
  PROVE  g = f /\ U \subseteq T
  <1>0. a \in Nat /\ b \in Nat /\ a >= 1 /\ now \in Nat
    BY DEF PeriodOK
  <1>1. /\ T \in SUBSET Intervals(D) /\ Proves(T, a, D) /\ Through(T, a) = f
        /\ U \in SUBSET Intervals(D) /\ Proves(U, b, D) /\ Through(U, b) = g
    BY DEF Best
  <1>2. /\ f \in Nat /\ f <= now
        /\ \A e \in T : e.end <= f /\ e.end <= now /\ a <= e.start /\ e.attributable
        /\ f > a => \E e \in T : e.end = f
        /\ \A x \in Intervals(D) : x \in T <=> x.start < f /\ a < x.end
        /\ \A t \in a..(f - 1) : \E e \in T : e.start <= t /\ t < e.end
        /\ \A e, x \in T : /\ e # x => ~Overlap(e, x)
                           /\ e.end = x.start => Discontinuity(e, x) = "none"
        /\ \A x \in D \ T : Free(x, a, f)
    BY <1>1, ProvesFacts
  <1>3. /\ g \in Nat /\ g <= now /\ b <= g
        /\ \A e \in U : e.end <= g /\ e.end <= now /\ b <= e.start /\ e.attributable
        /\ g > b => \E e \in U : e.end = g
        /\ \A x \in Intervals(D) : x \in U <=> x.start < g /\ b < x.end
        /\ \A t \in b..(g - 1) : \E e \in U : e.start <= t /\ t < e.end
        /\ \A e, x \in U : /\ e # x => ~Overlap(e, x)
                           /\ e.end = x.start => Discontinuity(e, x) = "none"
        /\ \A x \in D \ U : Free(x, b, g)
    BY <1>1, ProvesFacts
  <1>4. \A e \in Intervals(D) : /\ e.start \in Nat /\ e.end \in Nat /\ e.start < e.end
                                /\ e \in Intervals(E) /\ e.barrier = "none"
    BY DEF Intervals, EvidenceOK
  <1>5. \A e \in Intervals(D) : ~(e.start < b /\ b < e.end)
    BY <1>4 DEF PeriodOK
  <1>d. \A x \in D : x.start \in Nat /\ x.end \in Nat
    BY DEF EvidenceOK
  <1>e. T \in SUBSET Intervals(E) /\ U \in SUBSET Intervals(E)
    BY <1>1, <1>4
  <1>6. f <= g
    <2> DEFINE V == {t \in T : b <= t.start}
               w == Through(V, b)
    <2>1. V \in SUBSET Intervals(D) /\ V \in SUBSET Intervals(E) /\ \A e \in V : e.end <= now
      BY <1>1, <1>2, <1>e
    <2>2. w = f
      <3>1. /\ w \in Nat /\ \A e \in V : e.end <= w
            /\ w > b => \E e \in V : e.end = w
        BY <2>1, ThroughFacts
      <3>2. PICK e \in T : e.end = f
        BY <1>0, <1>2
      <3>3. e \in V
        BY <1>0, <1>1, <1>2, <1>4, <1>5, <3>2
      <3> HIDE DEF w
      <3>4. f <= w
        BY <3>1, <3>2, <3>3
      <3>5. w > b
        BY <1>0, <1>2, <3>1, <3>4
      <3>6. PICK x \in V : x.end = w
        BY <3>1, <3>5
      <3>7. w <= f
        BY <1>2, <3>6
      <3> QED BY <1>2, <3>1, <3>4, <3>7
    <2>3. UNION {e.start..(e.end - 1) : e \in V} = b..(f - 1)
      <3>1. ASSUME NEW e \in V, NEW t \in e.start..(e.end - 1) PROVE t \in b..(f - 1)
        BY <1>0, <1>1, <1>2, <1>4
      <3>2. ASSUME NEW t \in b..(f - 1) PROVE \E e \in V : t \in e.start..(e.end - 1)
        <4>1. t \in a..(f - 1) /\ t \in Int /\ b <= t
          BY <1>0, <1>2
        <4>2. PICK e \in T : e.start <= t /\ t < e.end
          BY <1>2, <4>1
        <4>3. e \in V
          BY <1>0, <1>1, <1>4, <1>5, <4>1, <4>2
        <4>4. t \in e.start..(e.end - 1)
          BY <1>1, <1>4, <4>1, <4>2
        <4> QED BY <4>3, <4>4
      <3> HIDE DEF V
      <3> QED BY <3>1, <3>2
    <2>4. ASSUME NEW x \in D \ V PROVE Free(x, b, f)
      <3>1. CASE x \in T
        BY <1>0, <1>1, <1>4, <1>5, <2>4, <3>1 DEF Free
      <3>2. CASE x \notin T
        <4>1. Free(x, a, f)
          BY <1>2, <3>2
        <4> QED BY <1>0, <1>2, <1>d, <4>1 DEF Free
      <3> QED BY <3>1, <3>2
    <2>5. \A e \in V : e.attributable /\ b <= e.start /\ e.end <= now
      BY <1>2
    <2>6. \A e, x \in V : /\ e # x => ~Overlap(e, x)
                          /\ e.end = x.start => Discontinuity(e, x) = "none"
      BY <1>2
    <2> HIDE DEF V
    <2>7. Proves(V, b, D)
      BY <2>2, <2>3, <2>4, <2>5, <2>6 DEF Proves, Free
    <2>8. w <= g
      BY <2>1, <2>7 DEF Best
    <2> QED BY <2>2, <2>8
  <1>7. g <= f
    <2> DEFINE W == {t \in T : t.start < b}
               V == W \cup U
               w == Through(V, a)
    <2>0. g > b /\ a <= g
      BY <1>0, <1>2, <1>3, <1>6
    <2>1. V \in SUBSET Intervals(D) /\ V \in SUBSET Intervals(E) /\ \A e \in V : e.end <= now
      BY <1>1, <1>2, <1>3, <1>e
    <2>2. ASSUME NEW e \in W PROVE e \in T /\ e.start < b /\ e.end <= b
      BY <1>0, <1>1, <1>4, <1>5
    <2>3. w = g
      <3>1. /\ w \in Nat /\ \A e \in V : e.end <= w
            /\ w > a => \E e \in V : e.end = w
        BY <2>1, ThroughFacts
      <3>2. PICK e \in U : e.end = g
        BY <1>3, <2>0
      <3>3. e \in V
        BY <3>2
      <3> HIDE DEF w
      <3>4. g <= w
        BY <3>1, <3>2, <3>3
      <3>5. w > a
        BY <1>0, <1>3, <2>0, <3>1, <3>4
      <3>6. PICK x \in V : x.end = w
        BY <3>1, <3>5
      <3>7. w <= g
        <4>1. CASE x \in W
          <5>1. x.end <= b
            BY <2>2, <4>1
          <5> QED BY <1>0, <1>3, <2>0, <3>1, <3>6, <5>1
        <4>2. CASE x \in U
          BY <1>3, <3>6, <4>2
        <4> QED BY <3>6, <4>1, <4>2
      <3> QED BY <1>3, <3>1, <3>4, <3>7
    <2>4. UNION {e.start..(e.end - 1) : e \in V} = a..(g - 1)
      <3>1. ASSUME NEW e \in V, NEW t \in e.start..(e.end - 1) PROVE t \in a..(g - 1)
        <4>0. e.start \in Nat /\ e.end \in Nat /\ t \in Int /\ e.start <= t /\ t < e.end
          BY <1>4, <2>1
        <4>1. CASE e \in W
          <5>1. e.end <= b /\ a <= e.start
            BY <1>2, <2>2, <4>1
          <5> QED BY <1>0, <1>3, <2>0, <4>0, <5>1
        <4>2. CASE e \in U
          <5>1. e.end <= g /\ b <= e.start
            BY <1>3, <4>2
          <5> QED BY <1>0, <1>3, <4>0, <5>1
        <4> QED BY <4>1, <4>2
      <3>2. ASSUME NEW t \in a..(g - 1) PROVE \E e \in V : t \in e.start..(e.end - 1)
        <4>0. t \in Int /\ a <= t
          BY <1>0, <1>3
        <4>1. CASE t < b
          <5>1. t \in a..(f - 1)
            BY <1>0, <1>2, <4>0, <4>1
          <5>2. PICK e \in T : e.start <= t /\ t < e.end
            BY <1>2, <5>1
          <5>3. e.start \in Nat /\ e.end \in Nat
            BY <1>1, <1>4
          <5>4. e.start < b /\ t \in e.start..(e.end - 1)
            BY <1>0, <4>0, <4>1, <5>2, <5>3
          <5>5. e \in V
            BY <5>4
          <5> QED BY <5>4, <5>5
        <4>2. CASE ~(t < b)
          <5>1. t \in b..(g - 1)
            BY <1>0, <1>3, <4>0, <4>2
          <5>2. PICK e \in U : e.start <= t /\ t < e.end
            BY <1>3, <5>1
          <5>3. e.start \in Nat /\ e.end \in Nat
            BY <1>1, <1>4
          <5>4. t \in e.start..(e.end - 1) /\ e \in V
            BY <4>0, <5>2, <5>3
          <5> QED BY <5>4
        <4> QED BY <4>1, <4>2
      <3> HIDE DEF V
      <3> QED BY <3>1, <3>2
    <2>5. ASSUME NEW x \in D \ V PROVE Free(x, a, g)
      <3>0. x \notin U /\ Free(x, b, g) /\ x.start \in Nat /\ x.end \in Nat
        BY <1>3, <1>d
      <3>1. CASE x.barrier = "none"
        <4>1. SUFFICES ASSUME x.start < g, a < x.end PROVE FALSE
          BY <3>1 DEF Free
        <4>2. x.end <= b
          BY <1>0, <3>0, <3>1, <4>1 DEF Free
        <4>3. x \in Intervals(D)
          BY <3>1 DEF Intervals
        <4>4. x.start < b
          BY <1>0, <1>4, <3>0, <4>2, <4>3
        <4>5. x \in T
          BY <1>0, <1>2, <3>0, <4>1, <4>3, <4>4
        <4> QED BY <2>5, <4>4, <4>5
      <3>2. CASE x.barrier # "none"
        <4>1. x \notin T
          BY <1>1, <1>4, <3>2
        <4>2. Free(x, a, f)
          BY <1>2, <4>1
        <4> QED BY <1>0, <1>2, <1>3, <3>0, <3>2, <4>2 DEF Free
      <3> QED BY <3>1, <3>2
    <2>6. \A e \in V : e.attributable /\ a <= e.start /\ e.end <= now
      <3>1. \A e \in W : e.attributable /\ a <= e.start /\ e.end <= now
        BY <1>2, <2>2
      <3>2. \A e \in U : e.attributable /\ a <= e.start /\ e.end <= now
        <4>1. \A e \in U : e.start \in Nat
          BY <1>1, <1>4
        <4> QED BY <1>0, <1>3, <4>1
      <3> QED BY <3>1, <3>2
    <2>7. ASSUME NEW e \in V, NEW x \in V
          PROVE  /\ e # x => ~Overlap(e, x)
                 /\ e.end = x.start => Discontinuity(e, x) = "none"
      <3>0. /\ e.start \in Nat /\ e.end \in Nat /\ e.start < e.end
            /\ x.start \in Nat /\ x.end \in Nat /\ x.start < x.end
            /\ e \in Intervals(D) /\ x \in Intervals(D)
        BY <1>4, <2>1
      <3>1. CASE e \in W /\ x \in W
        BY <1>2, <2>2, <3>1
      <3>2. CASE e \in U /\ x \in U
        BY <1>3, <3>2
      <3>3. CASE e \in W /\ x \in U
        <4>1. e.end <= b /\ b <= x.start /\ e \in T
          BY <1>3, <2>2, <3>3
        <4>2. ~Overlap(e, x)
          BY <1>0, <3>0, <4>1 DEF Overlap
        <4>3. ASSUME e.end = x.start PROVE Discontinuity(e, x) = "none"
          <5>1. x.start = b
            BY <1>0, <3>0, <4>1, <4>3
          <5>2. x.start < f /\ a < x.end
            BY <1>0, <1>2, <3>0, <5>1
          <5>3. x \in T
            BY <1>2, <3>0, <5>2
          <5> QED BY <1>2, <4>1, <4>3, <5>3
        <4> QED BY <4>2, <4>3
      <3>4. CASE e \in U /\ x \in W
        <4>1. x.end <= b /\ b <= e.start
          BY <1>3, <2>2, <3>4
        <4>2. ~Overlap(e, x)
          BY <1>0, <3>0, <4>1 DEF Overlap
        <4>3. e.end # x.start
          BY <1>0, <3>0, <4>1
        <4> QED BY <4>2, <4>3
      <3> QED BY <3>1, <3>2, <3>3, <3>4
    <2> HIDE DEF V
    <2>8. Proves(V, a, D)
      BY <2>3, <2>4, <2>5, <2>6, <2>7 DEF Proves, Free
    <2>9. w <= f
      BY <2>1, <2>8 DEF Best
    <2> QED BY <2>3, <2>9
  <1>8. g = f
    BY <1>2, <1>3, <1>6, <1>7
  <1>9. ASSUME NEW x \in U PROVE x \in T
    <2>1. x \in Intervals(D) /\ x.start < g /\ b < x.end
      BY <1>1, <1>3
    <2>2. a < x.end
      BY <1>0, <1>4, <2>1
    <2> QED BY <1>2, <1>8, <2>1, <2>2
  <1> QED BY <1>8, <1>9

-----------------------------------------------------------------------------
(* The rows *)

\* What a stored row may be.
Row == [dev : {p.dev : p \in Producers}, boot : {p.boot : p \in Producers},
        seq : {p.seq : p \in Producers}, kwh : Nat, start : 1..MaxTime,
        end : 1..MaxTime, conflict : BOOLEAN]

\* The inductive invariant of the rows and of the assignments of the point.
CoverageInv ==
    /\ IsFiniteSet(rows) /\ rows \subseteq Row
    /\ \A r \in rows : r.start < r.end /\ ~(r.start < TodayStart /\ TodayStart < r.end)
    /\ \A r, x \in rows :
           r.dev = x.dev /\ r.boot = x.boot /\ r.seq = x.seq => r = x
    /\ IsFiniteSet(legacy) /\ legacy \subseteq 1..MaxTime
    /\ now \in TodayStart..MaxTime
    /\ closed \in {0} \cup TodayStart..now
    /\ opened \in {0} \cup TodayStart..now
    /\ opened # 0 => closed # 0 /\ closed <= opened

\* Whatever is stored, in whatever order, and whenever the device of the point goes or
\* is replaced, the rows and the assignments stay in order.
THEOREM RowsInv == CoverageSpec => []CoverageInv
  <1>0. TodayStart \in Nat /\ TodayStart >= 2 /\ TodayStart <= MaxTime /\ MaxTime \in Nat
    BY CoverageAssumption
  <1>1. CoverageInit => CoverageInv
    <2>1. IsFiniteSet({})
      BY FS_EmptySet
    <2> QED BY <1>0, <2>1 DEF CoverageInit, CoverageInv
  <1>2. CoverageInv /\ [CoverageNext]_coverageVars => CoverageInv'
    <2> SUFFICES ASSUME CoverageInv, [CoverageNext]_coverageVars PROVE CoverageInv'
      OBVIOUS
    <2>1. CASE Store
      <3>1. PICK p \in Producers, s \in MonthStart..MaxTime, e \in MonthStart..MaxTime :
            /\ s < e
            /\ ~(s < TodayStart /\ TodayStart < e)
            /\ \A r \in rows : <<r.dev, r.boot, r.seq>> # <<p.dev, p.boot, p.seq>>
            /\ rows' = rows \cup {[dev |-> p.dev, boot |-> p.boot, seq |-> p.seq,
                          kwh |-> p.kwh, start |-> s, end |-> e, conflict |-> FALSE]}
            /\ UNCHANGED <<legacy, closed, opened, now>>
        BY <2>1 DEF Store
      <3> DEFINE x == [dev |-> p.dev, boot |-> p.boot, seq |-> p.seq,
                          kwh |-> p.kwh, start |-> s, end |-> e, conflict |-> FALSE]
      <3>2. x \in Row
        BY <1>0, CoverageAssumption DEF Row, MonthStart
      <3>3. /\ x.start < x.end /\ ~(x.start < TodayStart /\ TodayStart < x.end)
            /\ x.dev = p.dev /\ x.boot = p.boot /\ x.seq = p.seq
        BY <3>1
      <3>4. rows' = rows \cup {x}
        BY <3>1
      <3>5. \A r \in rows : ~(r.dev = x.dev /\ r.boot = x.boot /\ r.seq = x.seq)
        BY <3>1
      <3> HIDE DEF x
      <3>6. IsFiniteSet(rows')
        BY <3>4, FS_AddElement DEF CoverageInv
      <3>7. \A r, y \in rows' :
                r.dev = y.dev /\ r.boot = y.boot /\ r.seq = y.seq => r = y
        BY <3>4, <3>5 DEF CoverageInv
      <3>8. \A r \in rows' : r.start < r.end /\ ~(r.start < TodayStart /\ TodayStart < r.end)
        BY <3>3, <3>4 DEF CoverageInv
      <3>9. rows' \subseteq Row
        BY <3>2, <3>4 DEF CoverageInv
      <3> QED BY <3>1, <3>6, <3>7, <3>8, <3>9 DEF CoverageInv
    <2>2. CASE StoreLegacy
      <3>1. PICK t \in LegacyTimes : legacy' = {t} /\ UNCHANGED <<rows, closed, opened, now>>
        BY <2>2 DEF StoreLegacy
      <3>2. IsFiniteSet({t})
        BY FS_Singleton
      <3>3. t \in 1..MaxTime
        BY CoverageAssumption
      <3> QED BY <3>1, <3>2, <3>3 DEF CoverageInv
    <2>3. CASE Conflict
      <3>1. PICK r \in rows : /\ rows' = (rows \ {r}) \cup {[r EXCEPT !.conflict = TRUE]}
                              /\ UNCHANGED <<legacy, closed, opened, now>>
        BY <2>3 DEF Conflict
      <3> DEFINE x == [r EXCEPT !.conflict = TRUE]
      <3>2. r \in Row
        BY DEF CoverageInv
      <3>3. /\ x \in Row /\ x.start = r.start /\ x.end = r.end
            /\ x.dev = r.dev /\ x.boot = r.boot /\ x.seq = r.seq
        BY <3>2 DEF Row
      <3>4. rows' = (rows \ {r}) \cup {x}
        BY <3>1
      <3> HIDE DEF x
      <3>6. IsFiniteSet(rows')
        BY <3>4, FS_AddElement, FS_RemoveElement DEF CoverageInv
      <3>7. \A y, z \in rows' :
                z.dev = y.dev /\ z.boot = y.boot /\ z.seq = y.seq => z = y
        BY <3>3, <3>4 DEF CoverageInv
      <3>8. \A y \in rows' : y.start < y.end /\ ~(y.start < TodayStart /\ TodayStart < y.end)
        BY <3>3, <3>4 DEF CoverageInv
      <3>9. rows' \subseteq Row
        BY <3>3, <3>4 DEF CoverageInv
      <3> QED BY <3>1, <3>6, <3>7, <3>8, <3>9 DEF CoverageInv
    <2>4. CASE Unbind
      BY <1>0, <2>4 DEF Unbind, MayClose, CoverageInv
    <2>5. CASE Replace
      BY <1>0, <2>5 DEF Replace, MayClose, CoverageInv
    <2>6. CASE Bind
      BY <1>0, <2>6 DEF Bind, CoverageInv
    <2>7. CASE Tick
      BY <1>0, <2>7 DEF Tick, CoverageInv
    <2>8. CASE UNCHANGED coverageVars
      BY <2>8 DEF coverageVars, CoverageInv
    <2> QED BY <2>1, <2>2, <2>3, <2>4, <2>5, <2>6, <2>7, <2>8 DEF CoverageNext
  <1> QED BY <1>1, <1>2, PTL DEF CoverageSpec

-----------------------------------------------------------------------------
(* The evidence of the rows *)

\* The image of a finite set is finite, and no larger.
LEMMA ImageFinite ==
  ASSUME NEW S, IsFiniteSet(S), NEW f, DOMAIN f = S
  PROVE  LET I == {f[x] : x \in S} IN IsFiniteSet(I) /\ Cardinality(I) <= Cardinality(S)
  <1> DEFINE I == {f[x] : x \in S}
             g == [x \in S |-> f[x]]
  <1>1. g \in Surjection(S, I)
    BY DEF Surjection
  <1> HIDE DEF I, g
  <1>2. IsFiniteSet(I) /\ Cardinality(I) <= Cardinality(S)
    BY <1>1, FS_Surjection
  <1> QED BY <1>2 DEF I

\* The evidence of finitely many rows.
LEMMA EvidenceFinite ==
  ASSUME CoverageInv
  PROVE  IsFiniteSet(LoadEvidence)
  <1> DEFINE A == {x \in rows : x.start < now}
             B == {x \in legacy : x < now}
             f == [r \in A |-> EvidenceOf(r)]
             g == [t \in B |-> Barrier(t, "UNKNOWN")]
  <1>1. IsFiniteSet(A) /\ IsFiniteSet(B)
    BY FS_Subset DEF CoverageInv
  <1>2. LoadEvidence = {f[r] : r \in A} \cup {g[t] : t \in B}
    BY DEF LoadEvidence
  <1> HIDE DEF A, B
  <1>3. DOMAIN f = A /\ DOMAIN g = B
    OBVIOUS
  <1> HIDE DEF f, g
  <1>4. IsFiniteSet({f[r] : r \in A}) /\ IsFiniteSet({g[t] : t \in B})
    BY <1>1, <1>3, ImageFinite
  <1> QED BY <1>2, <1>4, FS_Union

\* What a row contributes.
LEMMA EvidenceOfRow ==
  ASSUME CoverageInv, NEW r \in rows
  PROVE  LET e == EvidenceOf(r)
         IN /\ e.start = r.start /\ e.start \in Nat /\ e.end \in Nat /\ e.kwh \in Nat
            /\ e.attributable \in BOOLEAN
            /\ ~r.conflict => /\ e.barrier = "none" /\ e.end = r.end /\ e.dev = r.dev
                              /\ e.boot = r.boot /\ e.seq = r.seq /\ e.kwh = r.kwh
                              /\ (e.attributable <=>
                                    AssignmentCovers(LoadAssignments, r.dev, r.start, r.end))
            /\ r.conflict => e.barrier = "AMBIGUOUS" /\ e.end = 0
  <1>1. /\ r.start \in Nat /\ r.end \in Nat /\ r.kwh \in Nat /\ r.conflict \in BOOLEAN
    BY CoverageAssumption DEF CoverageInv, Row
  <1>2. CASE r.conflict
    BY <1>1, <1>2 DEF EvidenceOf, Barrier
  <1>3. CASE ~r.conflict
    <2>1. AssignmentCovers(LoadAssignments, r.dev, r.start, r.end) \in BOOLEAN
      BY DEF AssignmentCovers
    <2> HIDE DEF CoverageInv
    <2> QED BY <1>1, <1>3, <2>1 DEF EvidenceOf
  <1> QED BY <1>1, <1>2, <1>3

\* Intervals of the evidence are the rows without a conflict.
LEMMA IntervalRows ==
  ASSUME CoverageInv, NEW e \in LoadEvidence, e.barrier = "none"
  PROVE  \E r \in rows : r.start < now /\ ~r.conflict /\ e = EvidenceOf(r)
  <1>1. CASE \E t \in legacy : e = Barrier(t, "UNKNOWN")
    BY <1>1 DEF Barrier
  <1>2. CASE \E r \in rows : r.start < now /\ e = EvidenceOf(r)
    <2>1. PICK r \in rows : r.start < now /\ e = EvidenceOf(r)
      BY <1>2
    <2>2. ~r.conflict
      BY <2>1 DEF EvidenceOf, Barrier
    <2> QED BY <2>1, <2>2
  <1> QED BY <1>1, <1>2 DEF LoadEvidence

\* The query makes evidence of the rows that Evaluate can read.
LEMMA EvidenceIsOK ==
  ASSUME CoverageInv
  PROVE  EvidenceOK(LoadEvidence)
  <1>1. ASSUME NEW e \in LoadEvidence
        PROVE  /\ e.start \in Nat /\ e.end \in Nat /\ e.kwh \in Nat
               /\ e.barrier \in {"none", "UNKNOWN", "AMBIGUOUS"}
               /\ e.attributable \in BOOLEAN
               /\ e.barrier = "none" => e.start < e.end
               /\ e.barrier # "none" => e.end = 0
    <2>1. CASE \E t \in legacy : e = Barrier(t, "UNKNOWN")
      <3>1. PICK t \in legacy : e = Barrier(t, "UNKNOWN")
        BY <2>1
      <3>2. t \in Nat
        BY CoverageAssumption DEF CoverageInv
      <3> HIDE DEF CoverageInv
      <3> QED BY <3>1, <3>2 DEF Barrier
    <2>2. CASE \E r \in rows : r.start < now /\ e = EvidenceOf(r)
      <3>1. PICK r \in rows : r.start < now /\ e = EvidenceOf(r)
        BY <2>2
      <3>2. r.start < r.end /\ r.conflict \in BOOLEAN
        BY DEF CoverageInv, Row
      <3> QED BY <3>1, <3>2, EvidenceOfRow
    <2> QED BY <2>1, <2>2 DEF LoadEvidence
  <1> QED BY <1>1, EvidenceFinite DEF EvidenceOK

\* No row reaches over local midnight.
LEMMA PeriodsAreOK ==
  ASSUME CoverageInv
  PROVE  PeriodOK(MonthStart, LoadEvidence) /\ PeriodOK(TodayStart, LoadEvidence)
  <1>0. /\ TodayStart \in Nat /\ TodayStart >= 2 /\ MaxTime \in Nat
        /\ now \in Nat /\ TodayStart <= now
    BY CoverageAssumption DEF CoverageInv
  <1>1. ASSUME NEW e \in Intervals(LoadEvidence)
        PROVE  e.start >= 1 /\ ~(e.start < TodayStart /\ TodayStart < e.end) /\ e.start \in Nat
    <2>1. PICK r \in rows : r.start < now /\ ~r.conflict /\ e = EvidenceOf(r)
      BY IntervalRows DEF Intervals
    <2>2. e.start = r.start /\ e.end = r.end
      BY <2>1, EvidenceOfRow
    <2>3. r.start \in 1..MaxTime /\ ~(r.start < TodayStart /\ TodayStart < r.end)
      BY DEF CoverageInv, Row
    <2> QED BY <1>0, <2>2, <2>3
  <1>2. PeriodOK(TodayStart, LoadEvidence)
    BY <1>0, <1>1 DEF PeriodOK
  <1>3. PeriodOK(MonthStart, LoadEvidence)
    BY <1>0, <1>1 DEF PeriodOK, MonthStart
  <1> QED BY <1>2, <1>3

-----------------------------------------------------------------------------
(* The windows of one answer *)

\* WatermarkIsProven for one period.
PeriodProven(period) ==
    LET result == Evaluate(period, now, SetToSeq(LoadEvidence))
        provable == {tiles \in SUBSET Intervals(LoadEvidence) :
                        Proves(tiles, period, LoadEvidence)}
    IN /\ \A tiles \in provable : Through(tiles, period) <= result.through
       /\ \E tiles \in provable : /\ Through(tiles, period) = result.through
                                  /\ KwhSum(tiles) = result.kwh

\* What a window of the answer is.
LEMMA ResultOfWindow ==
  ASSUME CoverageInv, NEW period \in {MonthStart, TodayStart}
  PROVE  /\ EvidenceOK(LoadEvidence) /\ PeriodOK(period, LoadEvidence)
         /\ Window(period) = Evaluate(period, now, SetToSeq(LoadEvidence))
         /\ \E T : IsResult(Window(period), T, period, LoadEvidence)
  <1> DEFINE E == LoadEvidence
  <1>1. EvidenceOK(E) /\ PeriodOK(period, E)
    BY EvidenceIsOK, PeriodsAreOK
  <1>2. IsFiniteSet(E)
    BY <1>1 DEF EvidenceOK
  <1> HIDE DEF E
  <1>3. Enumerates(SetToSeq(E), E)
    BY <1>2, SetToSeqEnumerates
  <1>4. \E T : IsResult(Evaluate(period, now, SetToSeq(E)), T, period, E)
    BY <1>1, <1>3, EvaluateResult
  <1> QED BY <1>1, <1>4 DEF Window, E

\* A window is the longest prefix that the evidence proves, with its energy.
LEMMA WindowsAreProven ==
  ASSUME CoverageInv, NoLateOverlap(LoadEvidence), NEW period \in {MonthStart, TodayStart}
  PROVE  PeriodProven(period)
  <1> DEFINE E == LoadEvidence
             r == Evaluate(period, now, SetToSeq(E))
  <1>1. PICK T : IsResult(r, T, period, E)
    BY ResultOfWindow
  <1>2. EvidenceOK(E) /\ PeriodOK(period, E) /\ NoLateOverlap(E)
    BY ResultOfWindow
  <1> HIDE DEF E
  <1>3. Best(T, r.through, period, Early(E)) /\ r.kwh = KwhSum(T)
    BY <1>1 DEF IsResult
  <1>4. Best(T, r.through, period, E)
    BY <1>2, <1>3, LateHidesNothing
  <1> HIDE DEF r
  <1>5. /\ T \in SUBSET Intervals(E) /\ Proves(T, period, E) /\ Through(T, period) = r.through
        /\ \A U \in SUBSET Intervals(E) :
               Proves(U, period, E) => Through(U, period) <= r.through
    BY <1>4 DEF Best
  <1> QED BY <1>3, <1>5 DEF PeriodProven, r, E

\* So Evaluate agrees with its reference.
LEMMA WatermarkHolds ==
  ASSUME CoverageInv
  PROVE  WatermarkIsProven
  <1>1. ASSUME NoLateOverlap(LoadEvidence)
        PROVE  \A period \in {MonthStart, TodayStart} : PeriodProven(period)
    BY <1>1, WindowsAreProven
  <1> QED BY <1>1 DEF WatermarkIsProven, PeriodProven, KwhSum, Intervals

\* Evaluate does not depend on the order of the rows.
LEMMA OrderHolds ==
  ASSUME CoverageInv
  PROVE  OrderIrrelevant
  <1> DEFINE E == LoadEvidence
             r == Evaluate(MonthStart, now, SetToSeq(E))
  <1>1. PICK T : IsResult(r, T, MonthStart, E)
    BY ResultOfWindow
  <1>2. EvidenceOK(E) /\ PeriodOK(MonthStart, E)
    BY ResultOfWindow
  <1>3. Early(E) \in SUBSET E
    BY DEF Early
  <1> HIDE DEF E
  <1>4. ASSUME NEW seq \in SetToSeqs(E)
        PROVE  LET other == Evaluate(MonthStart, now, seq)
               IN other.through = r.through /\ other.kwh = r.kwh
    <2> DEFINE other == Evaluate(MonthStart, now, seq)
    <2>1. Enumerates(seq, E)
      BY DEF SetToSeqs, Enumerates
    <2>2. PICK U : IsResult(other, U, MonthStart, E)
      BY <1>2, <2>1, EvaluateResult
    <2> HIDE DEF other, r
    <2>3. T = U /\ r.through = other.through
      BY <1>1, <1>2, <1>3, <2>2, OneBest DEF IsResult
    <2>4. r.kwh = other.kwh
      BY <1>1, <2>2, <2>3 DEF IsResult
    <2> QED BY <2>3, <2>4 DEF other
  <1> QED BY <1>4 DEF OrderIrrelevant, r, E

\* The windows of one answer agree.
LEMMA TodayHolds ==
  ASSUME CoverageInv
  PROVE  TodayAgreesWithMonth
  <1> DEFINE E == LoadEvidence
             m == Window(MonthStart)
             d == Window(TodayStart)
  <1>1. PICK T : IsResult(m, T, MonthStart, E)
    BY ResultOfWindow
  <1>2. PICK U : IsResult(d, U, TodayStart, E)
    BY ResultOfWindow
  <1>3. /\ EvidenceOK(E) /\ PeriodOK(MonthStart, E) /\ PeriodOK(TodayStart, E)
        /\ MonthStart <= TodayStart
    BY ResultOfWindow, CoverageAssumption DEF MonthStart
  <1>4. Early(E) \in SUBSET E /\ Metered(E)
    BY <1>3 DEF Early, EvidenceOK, Metered
  <1> HIDE DEF E, m, d
  <1>5. ASSUME m.through > TodayStart PROVE d.through = m.through /\ d.kwh <= m.kwh
    <2>1. d.through = m.through /\ U \in SUBSET T
      BY <1>1, <1>2, <1>3, <1>4, <1>5, WindowsAgree DEF IsResult
    <2>2. T \in SUBSET E
      BY <1>1, <1>4 DEF IsResult, Best, Intervals
    <2>3. Metered(T)
      BY <1>4, <2>2, SubsetMetered
    <2>4. KwhSum(U) <= KwhSum(T)
      BY <2>1, <2>3, SumOfSubset
    <2> QED BY <1>1, <1>2, <2>1, <2>4 DEF IsResult
  <1> QED BY <1>5 DEF TodayAgreesWithMonth, m, d

-----------------------------------------------------------------------------
(* The sweep over sorted intervals *)

\* Intervals without anything else.
Bounds == [start : Nat, end : Nat]

\* The variables of the sweep of unionSortedDuration.
SweepState == {v \in [start : Nat, end : Nat, total : Nat] : v.start <= v.end}

\* The sweep starts with nothing.
SweepInit == [start |-> 0, end |-> 0, total |-> 0]

\* The sweep.
SweepFold(q) == FoldLeft(Sweep, SweepInit, q)

\* What a turn of the sweep does.
LEMMA SweepType ==
  ASSUME NEW v \in SweepState, NEW i \in Bounds, i.start < i.end
  PROVE  /\ Sweep(v, i) \in SweepState
         /\ i.start <= v.end /\ i.end <= v.end => Sweep(v, i) = v
         /\ i.start <= v.end /\ i.end > v.end =>
               /\ Sweep(v, i).start = v.start /\ Sweep(v, i).end = i.end
               /\ Sweep(v, i).total = v.total
         /\ i.start > v.end =>
               /\ Sweep(v, i).start = i.start /\ Sweep(v, i).end = i.end
               /\ Sweep(v, i).total = v.total + (v.end - v.start)
  <1>1. v \in [start : Nat, end : Nat, total : Nat] /\ v.start <= v.end
    BY DEF SweepState
  <1>2. i.start \in Nat /\ i.end \in Nat
    BY DEF Bounds
  <1>3. CASE i.start <= v.end /\ i.end <= v.end
    <2>1. Sweep(v, i) = [v EXCEPT !.end = v.end]
      BY <1>1, <1>2, <1>3 DEF Sweep
    <2> QED BY <1>1, <1>2, <1>3, <2>1 DEF SweepState
  <1>4. CASE i.start <= v.end /\ i.end > v.end
    <2>1. Sweep(v, i) = [v EXCEPT !.end = i.end]
      BY <1>1, <1>2, <1>4 DEF Sweep
    <2> QED BY <1>1, <1>2, <1>4, <2>1 DEF SweepState
  <1>5. CASE i.start > v.end
    <2>1. Sweep(v, i) = [start |-> i.start, end |-> i.end,
                         total |-> v.total + (v.end - v.start)]
      BY <1>1, <1>2, <1>5 DEF Sweep
    <2> QED BY <1>1, <1>2, <1>5, <2>1 DEF SweepState
  <1> QED BY <1>1, <1>2, <1>3, <1>4, <1>5

\* The same, turn by turn.
IsSweep(acc, q, n) ==
    /\ acc \in [0..n -> SweepState]
    /\ acc[0] = SweepInit
    /\ \A i \in 1..n : acc[i] = Sweep(acc[i - 1], q[i])

\* The fold is the last of its turns.
LEMMA SweepTrace ==
  ASSUME NEW n \in Nat, NEW q \in [1..n -> Bounds], \A i \in 1..n : q[i].start < q[i].end
  PROVE  \E acc : IsSweep(acc, q, n) /\ SweepFold(q) = acc[n]
  <1> DEFINE V == SweepState
             base == SweepInit
             Turn(g) == [s \in SUBSET DOMAIN q |->
                            IF s = {} THEN base ELSE Sweep(g[s \ {Max(s)}], q[Max(s)])]
             iter == CHOOSE g : g = Turn(g)
             f == [i \in 1..n |-> [v \in V |-> Sweep(v, q[i])]]
  <1>1. SweepFold(q) = iter[DOMAIN q]
    BY DEF SweepFold, FoldLeft, MapThenFoldSet
  <1>2. DOMAIN q = 1..n /\ \A i \in 1..n : q[i] \in Bounds
    OBVIOUS
  <1>b. base \in V
    BY DEF SweepState, SweepInit
  <1> HIDE DEF base
  <1>3. f \in TurnFunctions(V, n)
    <2>1. \A i \in 1..n : \A v \in V : Sweep(v, q[i]) \in V
      BY <1>2, SweepType
    <2> HIDE DEF V
    <2> QED BY <2>1 DEF TurnFunctions
  <1> HIDE DEF V
  <1>4. PICK g : IsTurns(g, V, base, n, f)
    <2> HIDE DEF f
    <2> QED BY <1>b, <1>3, TurnsExist
  <1>5. \A s \in SUBSET (1..n) : s # {} => Max(s) \in 1..n /\ s \ {Max(s)} \in SUBSET (1..n)
    BY MaxOfSet
  <1>6. g = Turn(g)
    <2>1. ASSUME NEW s \in SUBSET (1..n), s # {}
          PROVE  g[s] = Sweep(g[s \ {Max(s)}], q[Max(s)])
      BY <1>4, <1>5, <2>1 DEF IsTurns
    <2> HIDE DEF f
    <2> QED BY <1>2, <1>4, <2>1 DEF IsTurns
  <1>7. iter = Turn(iter)
    <2> HIDE DEF Turn
    <2> QED BY <1>6, Zenon
  <1> HIDE DEF iter
  <1>8. IsLoop(iter, V, base, n, f)
    <2>1. iter[{}] = base
      BY <1>7
    <2>2. ASSUME NEW s \in SUBSET (1..n), s # {}, iter[s \ {Max(s)}] \in V
          PROVE  iter[s] = f[Max(s)][iter[s \ {Max(s)}]]
      <3>1. iter[s] = Sweep(iter[s \ {Max(s)}], q[Max(s)])
        BY <1>2, <1>7, <2>2
      <3> QED BY <1>5, <2>2, <3>1
    <2> HIDE DEF f
    <2> QED BY <2>1, <2>2 DEF IsLoop
  <1> HIDE DEF Turn
  <1>9. PICK acc : IsTrace(acc, V, base, n, f) /\ iter[1..n] = acc[n]
    <2> HIDE DEF f
    <2>2. HasTrace(iter, V, base, n, f)
      BY <1>b, <1>3, <1>8, LoopTrace
    <2> QED BY <2>2 DEF HasTrace
  <1>10. ASSUME NEW i \in 1..n PROVE acc[i] = Sweep(acc[i - 1], q[i])
    <2>1. acc[i] = f[i][acc[i - 1]] /\ acc[i - 1] \in V
      <3> HIDE DEF f
      <3> QED BY <1>9 DEF IsTrace
    <2> QED BY <2>1
  <1> HIDE DEF f
  <1>11. acc \in [0..n -> V] /\ acc[0] = base
    BY <1>9 DEF IsTrace
  <1>12. SweepFold(q) = acc[n]
    BY <1>1, <1>2, <1>9
  <1>13. IsSweep(acc, q, n)
    BY <1>10, <1>11 DEF IsSweep, V, base
  <1> QED BY <1>12, <1>13

\* Instants after those of a set add to its size.
LEMMA AddRun ==
  ASSUME NEW C, IsFiniteSet(C), NEW lo \in Nat, NEW hi \in Nat, lo <= hi,
         \A t \in C : t \in Nat /\ t < lo
  PROVE  /\ IsFiniteSet(C \cup lo..(hi - 1))
         /\ Cardinality(C \cup lo..(hi - 1)) = Cardinality(C) + (hi - lo)
  <1> DEFINE I == lo..(hi - 1)
  <1>1. IsFiniteSet(I) /\ Cardinality(I) = hi - lo
    <2>1. lo \in Int /\ hi - 1 \in Int
      OBVIOUS
    <2>2. IsFiniteSet(I) /\ Cardinality(I) = IF lo > hi - 1 THEN 0 ELSE (hi - 1) - lo + 1
      BY <2>1, FS_Interval
    <2> QED BY <2>2
  <1>2. C \cap I = {}
    OBVIOUS
  <1> HIDE DEF I
  <1>3. Cardinality(C \cap I) = 0 /\ Cardinality(C) \in Nat
    BY <1>2, FS_EmptySet, FS_CardinalityType
  <1>4. /\ IsFiniteSet(C \cup I)
        /\ Cardinality(C \cup I) = Cardinality(C) + Cardinality(I) - Cardinality(C \cap I)
    BY <1>1, FS_Union
  <1> QED BY <1>1, <1>3, <1>4 DEF I

\* The instants of the first k intervals.
Covered(q, k) == UNION {Instants(q[i]) : i \in 1..k}

\* What the sweep has counted, and the run of instants it is at.
Counted(v, q, k, n) ==
    /\ IsFiniteSet(Covered(q, k))
    /\ v.total + (v.end - v.start) = Cardinality(Covered(q, k))
    /\ \A t \in v.start..(v.end - 1) : t \in Covered(q, k)
    /\ \A t \in Covered(q, k) : t \in Nat /\ t < v.end
    /\ \A i \in (k + 1)..n : v.start <= q[i].start

\* A turn of the sweep counts the instants of its interval that were not counted.
LEMMA SweepTurn ==
  ASSUME NEW n \in Nat, NEW q \in [1..n -> Bounds], \A i \in 1..n : q[i].start < q[i].end,
         \A i, j \in 1..n : i < j => q[i].start <= q[j].start,
         NEW k \in 1..n, NEW v \in SweepState, Counted(v, q, k - 1, n)
  PROVE  Counted(Sweep(v, q[k]), q, k, n)
  <1> DEFINE C == Covered(q, k - 1)
             w == Sweep(v, q[k])
             x == q[k]
  <1>0. /\ v.start \in Nat /\ v.end \in Nat /\ v.total \in Nat /\ v.start <= v.end
        /\ x \in Bounds /\ x.start \in Nat /\ x.end \in Nat /\ x.start < x.end
    BY DEF SweepState, Bounds
  <1>1. /\ IsFiniteSet(C)
        /\ v.total + (v.end - v.start) = Cardinality(C)
        /\ \A t \in v.start..(v.end - 1) : t \in C
        /\ \A t \in C : t \in Nat /\ t < v.end
        /\ \A i \in k..n : v.start <= q[i].start
    BY DEF Counted
  <1>2. Covered(q, k) = C \cup Instants(x)
    <2>1. 1..k = 1..(k - 1) \cup {k}
      OBVIOUS
    <2> QED BY <2>1 DEF Covered
  <1>3. v.start <= x.start /\ \A i \in (k + 1)..n : x.start <= q[i].start /\ v.start <= q[i].start
    BY <1>1
  <1>c. Cardinality(C) \in Nat
    BY <1>1, FS_CardinalityType
  <1>4. /\ w \in SweepState
        /\ x.start <= v.end /\ x.end <= v.end => w = v
        /\ x.start <= v.end /\ x.end > v.end =>
              w.start = v.start /\ w.end = x.end /\ w.total = v.total
        /\ x.start > v.end =>
              /\ w.start = x.start /\ w.end = x.end
              /\ w.total = v.total + (v.end - v.start)
    BY <1>0, SweepType
  <1>5. \A t : t \in Instants(x) <=> t \in Nat /\ x.start <= t /\ t < x.end
    BY <1>0 DEF Instants
  <1> HIDE DEF C, w, x
  <1>6. CASE x.start <= v.end /\ x.end <= v.end
    <2>1. Covered(q, k) = C
      BY <1>0, <1>1, <1>2, <1>3, <1>5, <1>6
    <2> QED BY <1>1, <1>3, <1>4, <1>6, <2>1 DEF Counted, w, x
  <1>7. CASE x.start <= v.end /\ x.end > v.end
    <2>1. Covered(q, k) = C \cup v.end..(x.end - 1)
      <3>1. ASSUME NEW t \in Instants(x) PROVE t \in C \/ t \in v.end..(x.end - 1)
        <4>1. t \in Nat /\ x.start <= t /\ t < x.end
          BY <1>5
        <4>2. CASE t < v.end
          <5>1. t \in v.start..(v.end - 1)
            BY <1>0, <1>3, <4>1, <4>2
          <5> QED BY <1>1, <5>1
        <4>3. CASE ~(t < v.end)
          BY <1>0, <4>1, <4>3
        <4> QED BY <4>2, <4>3
      <3>2. ASSUME NEW t \in v.end..(x.end - 1) PROVE t \in Instants(x)
        BY <1>0, <1>5, <1>7
      <3> QED BY <1>2, <3>1, <3>2
    <2>2. /\ IsFiniteSet(Covered(q, k))
          /\ Cardinality(Covered(q, k)) = Cardinality(C) + (x.end - v.end)
      <3>1. \A t \in C : t \in Nat /\ t < v.end
        BY <1>1
      <3>2. /\ IsFiniteSet(C \cup v.end..(x.end - 1))
            /\ Cardinality(C \cup v.end..(x.end - 1)) = Cardinality(C) + (x.end - v.end)
        <4>1. v.end <= x.end
          BY <1>0, <1>7
        <4>2. IsFiniteSet(C)
          BY <1>1
        <4> QED BY <1>0, <3>1, <4>1, <4>2, AddRun
      <3> QED BY <2>1, <3>2
    <2>3. w.start = v.start /\ w.end = x.end /\ w.total = v.total
      BY <1>4, <1>7
    <2>4. w.total + (w.end - w.start) = Cardinality(Covered(q, k))
      BY <1>0, <1>1, <1>c, <2>2, <2>3
    <2>5. \A t \in w.start..(w.end - 1) : t \in Covered(q, k)
      BY <1>0, <1>1, <2>1, <2>3
    <2>6. \A t \in Covered(q, k) : t \in Nat /\ t < w.end
      BY <1>0, <1>1, <1>7, <2>1, <2>3
    <2> QED BY <1>3, <2>2, <2>3, <2>4, <2>5, <2>6 DEF Counted, w, x
  <1>8. CASE x.start > v.end
    <2>1. Covered(q, k) = C \cup x.start..(x.end - 1)
      BY <1>2 DEF Instants
    <2>0. \A t \in C : t \in Nat /\ t < x.start
      BY <1>0, <1>1, <1>8
    <2>2. /\ IsFiniteSet(Covered(q, k))
          /\ Cardinality(Covered(q, k)) = Cardinality(C) + (x.end - x.start)
      <3>1. /\ IsFiniteSet(C \cup x.start..(x.end - 1))
            /\ Cardinality(C \cup x.start..(x.end - 1)) = Cardinality(C) + (x.end - x.start)
        <4>1. x.start <= x.end
          BY <1>0
        <4>2. IsFiniteSet(C)
          BY <1>1
        <4> QED BY <1>0, <2>0, <4>1, <4>2, AddRun
      <3> QED BY <2>1, <3>1
    <2>3. w.start = x.start /\ w.end = x.end /\ w.total = v.total + (v.end - v.start)
      BY <1>4, <1>8
    <2>4. w.total + (w.end - w.start) = Cardinality(Covered(q, k))
      BY <1>0, <1>1, <1>c, <2>2, <2>3
    <2>5. \A t \in w.start..(w.end - 1) : t \in Covered(q, k)
      BY <2>1, <2>3
    <2>6. \A t \in Covered(q, k) : t \in Nat /\ t < w.end
      BY <1>0, <2>0, <2>1, <2>3
    <2> QED BY <1>3, <2>2, <2>3, <2>4, <2>5, <2>6 DEF Counted, w, x
  <1> QED BY <1>0, <1>6, <1>7, <1>8

\* The duration is the number of instants in some interval.
LEMMA SweepCounts ==
  ASSUME NEW S \in SUBSET Bounds, IsFiniteSet(S), \A i \in S : i.start < i.end
  PROVE  /\ IsFiniteSet(UNION {Instants(i) : i \in S})
         /\ UnionSortedDuration(S) = Cardinality(UNION {Instants(i) : i \in S})
  <1> DEFINE n == Cardinality(S)
             R == ByStart(S)
             q == SortedBy(S, R)
  <1>0. n \in Nat
    BY FS_CardinalityType
  <1>1. \A x, y \in S : <<x, y>> \in R <=> (x.start < y.start \/ (x.start = y.start /\ x.end < y.end))
    BY DEF ByStart
  <1>2. \A x \in S : x.start \in Nat /\ x.end \in Nat
    BY DEF Bounds
  <1>3. IsOrder(S, R)
    <2>1. \A x, y \in S : x = y \/ <<x, y>> \in R \/ <<y, x>> \in R
      <3>1. \A x, y \in S : x.start = y.start /\ x.end = y.end => x = y
        BY DEF Bounds
      <3>2. \A x, y \in S : \/ x.start < y.start
                            \/ y.start < x.start
                            \/ x.start = y.start /\ (x.end < y.end \/ y.end < x.end)
                            \/ x.start = y.start /\ x.end = y.end
        BY <1>2
      <3> HIDE DEF R
      <3> QED BY <1>1, <3>1, <3>2
    <2> HIDE DEF R
    <2>2. \A x \in S : <<x, x>> \notin R
      BY <1>1, <1>2
    <2>3. \A x, y, z \in S : <<x, y>> \in R /\ <<y, z>> \in R => <<x, z>> \in R
      BY <1>1, <1>2
    <2> QED BY <2>1, <2>2, <2>3 DEF IsOrder
  <1>4. Lists(q, S, R)
    <2> HIDE DEF R
    <2> QED BY <1>3, SortedByLists
  <1>u. UnionSortedDuration(S) = SweepFold(q).total + (SweepFold(q).end - SweepFold(q).start)
    BY DEF UnionSortedDuration, SweepFold, SweepInit
  <1> HIDE DEF q, R
  <1>5. /\ q \in [1..n -> S]
        /\ \A x \in S : \E i \in 1..n : q[i] = x
        /\ \A i, j \in 1..n : i < j => <<q[i], q[j]>> \in R
    BY <1>4 DEF Lists
  <1> HIDE DEF n
  <1>6. /\ q \in [1..n -> Bounds] /\ \A i \in 1..n : q[i].start < q[i].end
        /\ \A i, j \in 1..n : i < j => q[i].start <= q[j].start
    <2>1. q \in [1..n -> Bounds] /\ \A i \in 1..n : q[i].start < q[i].end
      BY <1>5
    <2>2. ASSUME NEW i \in 1..n, NEW j \in 1..n, i < j PROVE q[i].start <= q[j].start
      <3>1. q[i] \in S /\ q[j] \in S /\ <<q[i], q[j]>> \in R
        BY <1>5, <2>2
      <3> QED BY <1>1, <1>2, <3>1
    <2> QED BY <2>1, <2>2
  <1>7. PICK acc : IsSweep(acc, q, n) /\ SweepFold(q) = acc[n]
    BY <1>0, <1>6, SweepTrace
  <1>8. /\ acc \in [0..n -> SweepState] /\ acc[0] = SweepInit
        /\ \A i \in 1..n : acc[i] = Sweep(acc[i - 1], q[i])
    BY <1>7 DEF IsSweep
  <1> DEFINE Bad == {k \in 0..n : ~Counted(acc[k], q, k, n)}
  <1>9. Counted(acc[0], q, 0, n)
    <2>1. Covered(q, 0) = {}
      BY DEF Covered
    <2>2. acc[0].start = 0 /\ acc[0].end = 0 /\ acc[0].total = 0
      BY <1>8 DEF SweepInit
    <2>3. IsFiniteSet({}) /\ Cardinality({}) = 0
      BY FS_EmptySet
    <2>4. \A i \in (0 + 1)..n : acc[0].start <= q[i].start
      BY <1>2, <1>5, <2>2
    <2> QED BY <2>1, <2>2, <2>3, <2>4 DEF Counted
  <1>10. Bad = {}
    <2>1. SUFFICES ASSUME Bad # {} PROVE FALSE
      OBVIOUS
    <2>2. PICK k \in Bad : \A j \in Bad : k <= j
      <3>1. Bad \subseteq Nat
        OBVIOUS
      <3> HIDE DEF Bad
      <3> QED BY <2>1, <3>1, LeastNumber
    <2>3. k \in 1..n /\ ~Counted(acc[k], q, k, n)
      BY <1>9, <2>2
    <2>4. k - 1 \in 0..n /\ k - 1 \notin Bad
      <3>1. k - 1 \in 0..n /\ ~(k <= k - 1)
        BY <1>0, <2>3
      <3> HIDE DEF Bad
      <3> QED BY <2>2, <3>1
    <2>5. Counted(acc[k - 1], q, k - 1, n) /\ acc[k - 1] \in SweepState
      BY <1>8, <2>4
    <2>6. Counted(Sweep(acc[k - 1], q[k]), q, k, n)
      BY <1>0, <1>6, <2>3, <2>5, SweepTurn
    <2> QED BY <1>8, <2>3, <2>6
  <1>11. Counted(acc[n], q, n, n)
    BY <1>0, <1>10
  <1>12. Covered(q, n) = UNION {Instants(i) : i \in S}
    BY <1>5 DEF Covered
  <1> QED BY <1>7, <1>11, <1>12, <1>u DEF Counted

-----------------------------------------------------------------------------
(* Groups of observations *)

\* What an observation may be.
Item == [start : Nat, end : Nat, kwh : Nat]

\* The variables of the loop over observations.
JoinState(S) == [group : Seq(S), maxEnd : Nat, accepted : SUBSET S, overlap : BOOLEAN]

\* The loop starts without a group.
JoinInit == [group |-> <<>>, maxEnd |-> 0, accepted |-> {}, overlap |-> FALSE]

\* The loop.
JoinFold(q) == FoldLeft(Join, JoinInit, q)

\* What closing a group does.
LEMMA CloseType ==
  ASSUME NEW S, NEW v \in JoinState(S)
  PROVE  LET w == Close(v)
         IN /\ w \in JoinState(S) /\ w.group = v.group /\ w.maxEnd = v.maxEnd
            /\ Len(v.group) = 1 => /\ w.accepted = v.accepted \cup {v.group[1]}
                                   /\ w.overlap = v.overlap
            /\ Len(v.group) # 1 => /\ w.accepted = v.accepted
                                   /\ w.overlap = (v.overlap \/ Len(v.group) > 1)
  <1>1. v.group \in Seq(S) /\ v.accepted \in SUBSET S /\ v.overlap \in BOOLEAN
    BY DEF JoinState
  <1>2. CASE Len(v.group) = 1
    <2>1. v.group[1] \in S
      BY <1>1, <1>2
    <2>2. Close(v) = [v EXCEPT !.accepted = v.accepted \cup {v.group[1]}]
      BY <1>2 DEF Close
    <2> DEFINE new == v.accepted \cup {v.group[1]}
    <2>3. new \in SUBSET S /\ Close(v) = [v EXCEPT !.accepted = new]
      BY <1>1, <2>1, <2>2
    <2> HIDE DEF new
    <2>4. Close(v) \in JoinState(S) /\ Close(v).group = v.group /\ Close(v).maxEnd = v.maxEnd
          /\ Close(v).accepted = new /\ Close(v).overlap = v.overlap
      BY <2>3 DEF JoinState
    <2> QED BY <1>2, <2>4 DEF new
  <1>3. CASE Len(v.group) # 1
    <2> DEFINE new == v.overlap \/ Len(v.group) > 1
    <2>1. new \in BOOLEAN /\ Close(v) = [v EXCEPT !.overlap = new]
      BY <1>1, <1>3 DEF Close
    <2> HIDE DEF new
    <2>2. Close(v) \in JoinState(S) /\ Close(v).group = v.group /\ Close(v).maxEnd = v.maxEnd
          /\ Close(v).accepted = v.accepted /\ Close(v).overlap = new
      BY <2>1 DEF JoinState
    <2> QED BY <1>3, <2>2 DEF new
  <1> QED BY <1>2, <1>3

\* What a turn of the loop does.
LEMMA JoinType ==
  ASSUME NEW S \in SUBSET Item, NEW v \in JoinState(S), NEW x \in S
  PROVE  LET w == Join(v, x)
             joins == v.group # <<>> /\ x.start < v.maxEnd
         IN /\ w \in JoinState(S)
            /\ joins => /\ w.group = Append(v.group, x)
                        /\ w.maxEnd = IF x.end > v.maxEnd THEN x.end ELSE v.maxEnd
                        /\ w.accepted = v.accepted /\ w.overlap = v.overlap
            /\ ~joins => /\ w.group = <<x>> /\ w.maxEnd = x.end
                         /\ w.accepted = Close(v).accepted /\ w.overlap = Close(v).overlap
  <1>1. v.group \in Seq(S) /\ v.maxEnd \in Nat /\ x.end \in Nat
    BY DEF JoinState, Item
  <1>2. CASE v.group # <<>> /\ x.start < v.maxEnd
    <2> DEFINE g == Append(v.group, x)
               m == IF x.end > v.maxEnd THEN x.end ELSE v.maxEnd
    <2>1. g \in Seq(S) /\ m \in Nat
      BY <1>1
    <2>2. Join(v, x) = [v EXCEPT !.group = g, !.maxEnd = m]
      BY <1>2 DEF Join
    <2> HIDE DEF g, m
    <2>3. Join(v, x) \in JoinState(S) /\ Join(v, x).group = g /\ Join(v, x).maxEnd = m
          /\ Join(v, x).accepted = v.accepted /\ Join(v, x).overlap = v.overlap
      BY <2>1, <2>2 DEF JoinState
    <2> QED BY <1>2, <2>3 DEF g, m
  <1>3. CASE ~(v.group # <<>> /\ x.start < v.maxEnd)
    <2> DEFINE w == Close(v)
               g == <<x>>
    <2>1. w \in JoinState(S) /\ g \in Seq(S)
      BY CloseType
    <2>2. Join(v, x) = [w EXCEPT !.group = g, !.maxEnd = x.end]
      BY <1>3 DEF Join
    <2> HIDE DEF w, g
    <2>3. Join(v, x) \in JoinState(S) /\ Join(v, x).group = g /\ Join(v, x).maxEnd = x.end
          /\ Join(v, x).accepted = w.accepted /\ Join(v, x).overlap = w.overlap
      BY <1>1, <2>1, <2>2 DEF JoinState
    <2> QED BY <1>3, <2>3 DEF w, g
  <1> QED BY <1>2, <1>3

\* The same, turn by turn.
IsJoin(acc, S, q, n) ==
    /\ acc \in [0..n -> JoinState(S)]
    /\ acc[0] = JoinInit
    /\ \A i \in 1..n : acc[i] = Join(acc[i - 1], q[i])

\* The fold is the last of its turns.
LEMMA JoinTrace ==
  ASSUME NEW S \in SUBSET Item, NEW n \in Nat, NEW q \in [1..n -> S]
  PROVE  \E acc : IsJoin(acc, S, q, n) /\ JoinFold(q) = acc[n]
  <1> DEFINE V == JoinState(S)
             base == JoinInit
             Turn(g) == [s \in SUBSET DOMAIN q |->
                            IF s = {} THEN base ELSE Join(g[s \ {Max(s)}], q[Max(s)])]
             iter == CHOOSE g : g = Turn(g)
             f == [i \in 1..n |-> [v \in V |-> Join(v, q[i])]]
  <1>1. JoinFold(q) = iter[DOMAIN q]
    BY DEF JoinFold, FoldLeft, MapThenFoldSet
  <1>2. DOMAIN q = 1..n /\ \A i \in 1..n : q[i] \in S
    OBVIOUS
  <1>b. base \in V
    <2>1. <<>> \in Seq(S) /\ {} \in SUBSET S
      OBVIOUS
    <2> QED BY <2>1 DEF JoinState, JoinInit
  <1> HIDE DEF base
  <1>3. f \in TurnFunctions(V, n)
    <2>1. \A i \in 1..n : \A v \in V : Join(v, q[i]) \in V
      BY <1>2, JoinType
    <2> HIDE DEF V
    <2> QED BY <2>1 DEF TurnFunctions
  <1> HIDE DEF V
  <1>4. PICK g : IsTurns(g, V, base, n, f)
    <2> HIDE DEF f
    <2> QED BY <1>b, <1>3, TurnsExist
  <1>5. \A s \in SUBSET (1..n) : s # {} => Max(s) \in 1..n /\ s \ {Max(s)} \in SUBSET (1..n)
    BY MaxOfSet
  <1>6. g = Turn(g)
    <2>1. ASSUME NEW s \in SUBSET (1..n), s # {}
          PROVE  g[s] = Join(g[s \ {Max(s)}], q[Max(s)])
      BY <1>4, <1>5, <2>1 DEF IsTurns
    <2> HIDE DEF f
    <2> QED BY <1>2, <1>4, <2>1 DEF IsTurns
  <1>7. iter = Turn(iter)
    <2> HIDE DEF Turn
    <2> QED BY <1>6, Zenon
  <1> HIDE DEF iter
  <1>8. IsLoop(iter, V, base, n, f)
    <2>1. iter[{}] = base
      BY <1>7
    <2>2. ASSUME NEW s \in SUBSET (1..n), s # {}, iter[s \ {Max(s)}] \in V
          PROVE  iter[s] = f[Max(s)][iter[s \ {Max(s)}]]
      <3>1. iter[s] = Join(iter[s \ {Max(s)}], q[Max(s)])
        BY <1>2, <1>7, <2>2
      <3> QED BY <1>5, <2>2, <3>1
    <2> HIDE DEF f
    <2> QED BY <2>1, <2>2 DEF IsLoop
  <1> HIDE DEF Turn
  <1>9. PICK acc : IsTrace(acc, V, base, n, f) /\ iter[1..n] = acc[n]
    <2> HIDE DEF f
    <2>2. HasTrace(iter, V, base, n, f)
      BY <1>b, <1>3, <1>8, LoopTrace
    <2> QED BY <2>2 DEF HasTrace
  <1>10. ASSUME NEW i \in 1..n PROVE acc[i] = Join(acc[i - 1], q[i])
    <2>1. acc[i] = f[i][acc[i - 1]] /\ acc[i - 1] \in V
      <3> HIDE DEF f
      <3> QED BY <1>9 DEF IsTrace
    <2> QED BY <2>1
  <1> HIDE DEF f
  <1>11. acc \in [0..n -> V] /\ acc[0] = base
    BY <1>9 DEF IsTrace
  <1>12. JoinFold(q) = acc[n]
    BY <1>1, <1>2, <1>9
  <1>13. IsJoin(acc, S, q, n)
    BY <1>10, <1>11 DEF IsJoin, V, base
  <1> QED BY <1>12, <1>13

\* Observations by their start.
ByStartOf(q, n, S) ==
    /\ S \in SUBSET Item /\ n \in Nat /\ q \in [1..n -> S]
    /\ \A i \in 1..n : q[i].start \in Nat /\ q[i].end \in Nat /\ q[i].start < q[i].end
    /\ \A i, j \in 1..n : i < j => q[i].start <= q[j].start

\* The observation at i overlaps no other one.
AloneAt(i, q, n) == \A j \in 1..n : j # i => Disjoint(q[i], q[j])

\* After k observations: the group is from m to k, everything before it has ended,
\* and what was alone before it is accepted.
Grouped(v, m, q, k, n) ==
    /\ m \in 1..(k + 1) /\ Len(v.group) = k + 1 - m /\ (k > 0 => m <= k)
    /\ m = k /\ k > 0 => v.group[1] = q[k]
    /\ \A i \in m..k : q[i].end <= v.maxEnd
    /\ m <= k => \E i \in m..k : q[i].end = v.maxEnd
    /\ \A i \in 1..(m - 1), j \in m..n : q[i].end <= q[j].start
    /\ v.accepted = {q[i] : i \in {j \in 1..(m - 1) : AloneAt(j, q, n)}}
    /\ m < k => \A i \in m..k : \E j \in m..k : j # i /\ ~Disjoint(q[i], q[j])
    /\ ~v.overlap => \A i \in 1..(m - 1) : AloneAt(i, q, n)

\* There is such a group.
HasGroups(v, q, k, n) == \E m : Grouped(v, m, q, k, n)

\* What is accepted and what is known when the first k make complete groups.
Settles(v, q, k, n) ==
    /\ v.accepted = {q[i] : i \in {j \in 1..k : AloneAt(j, q, n)}}
    /\ ~v.overlap => \A i \in 1..k : AloneAt(i, q, n)

\* The group is closed when the next observation starts behind it.
LEMMA CloseSettles ==
  ASSUME NEW S, NEW n, NEW q, ByStartOf(q, n, S), NEW k \in 0..n, NEW v \in JoinState(S),
         HasGroups(v, q, k, n), k > 0 => \A j \in (k + 1)..n : v.maxEnd <= q[j].start
  PROVE  Settles(Close(v), q, k, n) /\ \A i \in 1..k, j \in (k + 1)..n : q[i].end <= q[j].start
  <1>0. /\ S \in SUBSET Item /\ n \in Nat /\ q \in [1..n -> S]
        /\ \A i \in 1..n : q[i].start \in Nat /\ q[i].end \in Nat /\ q[i].start < q[i].end
        /\ \A i, j \in 1..n : i < j => q[i].start <= q[j].start
        /\ v.maxEnd \in Nat /\ v.overlap \in BOOLEAN /\ k \in Nat
    BY DEF ByStartOf, JoinState
  <1>1. PICK m : Grouped(v, m, q, k, n)
    BY DEF HasGroups
  <1>2. /\ m \in 1..(k + 1) /\ Len(v.group) = k + 1 - m /\ (k > 0 => m <= k)
        /\ m = k /\ k > 0 => v.group[1] = q[k]
        /\ \A i \in m..k : q[i].end <= v.maxEnd
        /\ \A i \in 1..(m - 1), j \in m..n : q[i].end <= q[j].start
        /\ v.accepted = {q[i] : i \in {j \in 1..(m - 1) : AloneAt(j, q, n)}}
        /\ m < k => \A i \in m..k : \E j \in m..k : j # i /\ ~Disjoint(q[i], q[j])
        /\ ~v.overlap => \A i \in 1..(m - 1) : AloneAt(i, q, n)
    BY <1>1 DEF Grouped
  <1>3. ASSUME NEW i \in 1..k, NEW j \in (k + 1)..n PROVE q[i].end <= q[j].start
    <2>1. CASE i < m
      <3>1. i \in 1..(m - 1) /\ j \in m..n
        <4>1. m \in Int /\ m <= k + 1
          BY <1>0, <1>2
        <4> QED BY <1>0, <2>1, <4>1
      <3> QED BY <1>2, <3>1
    <2>2. CASE ~(i < m)
      <3>1. i \in m..k /\ k > 0
        BY <1>0, <1>2, <2>2
      <3>2. q[i].end <= v.maxEnd /\ v.maxEnd <= q[j].start
        BY <1>2, <3>1
      <3> QED BY <1>0, <3>2
    <2> QED BY <2>1, <2>2
  <1>4. CASE m = k /\ k > 0
    <2>1. AloneAt(k, q, n)
      <3>1. ASSUME NEW j \in 1..n, j # k PROVE Disjoint(q[k], q[j])
        <4>1. CASE j < k
          <5>1. j \in 1..(m - 1) /\ k \in m..n
            BY <1>0, <1>4, <4>1
          <5>2. q[j].end <= q[k].start
            BY <1>2, <5>1
          <5> QED BY <5>2 DEF Disjoint
        <4>2. CASE ~(j < k)
          <5>1. j \in (k + 1)..n /\ k \in 1..k
            BY <1>0, <1>4, <3>1, <4>2
          <5>2. q[k].end <= q[j].start
            BY <1>3, <5>1
          <5> QED BY <5>2 DEF Disjoint
        <4> QED BY <4>1, <4>2
      <3> QED BY <3>1 DEF AloneAt
    <2>2. Len(v.group) = 1 /\ v.group[1] = q[k]
      BY <1>0, <1>2, <1>4
    <2>3. /\ Close(v).accepted = v.accepted \cup {q[k]} /\ Close(v).overlap = v.overlap
      BY <2>2, CloseType
    <2>4. 1..k = 1..(m - 1) \cup {k}
      BY <1>0, <1>4
    <2>5. Close(v).accepted = {q[i] : i \in {j \in 1..k : AloneAt(j, q, n)}}
      BY <1>2, <2>1, <2>3, <2>4
    <2>6. ~Close(v).overlap => \A i \in 1..k : AloneAt(i, q, n)
      BY <1>2, <2>1, <2>3, <2>4
    <2> QED BY <1>3, <2>5, <2>6 DEF Settles
  <1>5. CASE m < k
    <2>1. Len(v.group) # 1 /\ Len(v.group) > 1
      BY <1>0, <1>2, <1>5
    <2>2. Close(v).accepted = v.accepted /\ Close(v).overlap
      BY <1>0, <2>1, CloseType
    <2>3. ASSUME NEW i \in m..k PROVE ~AloneAt(i, q, n)
      <3>1. PICK j \in m..k : j # i /\ ~Disjoint(q[i], q[j])
        BY <1>2, <1>5
      <3>2. j \in 1..n
        BY <1>0, <1>2
      <3> QED BY <3>1, <3>2 DEF AloneAt
    <2>4. {j \in 1..(m - 1) : AloneAt(j, q, n)} = {j \in 1..k : AloneAt(j, q, n)}
      <3>1. ASSUME NEW j \in 1..k, AloneAt(j, q, n) PROVE j \in 1..(m - 1)
        BY <1>0, <1>2, <2>3, <3>1
      <3>2. 1..(m - 1) \subseteq 1..k
        BY <1>0, <1>2
      <3> QED BY <3>1, <3>2
    <2> QED BY <1>2, <1>3, <2>2, <2>4 DEF Settles
  <1>6. CASE k = 0
    <2>1. m = 1 /\ Len(v.group) = 0
      BY <1>2, <1>6
    <2>2. Close(v).accepted = v.accepted /\ Close(v).overlap = (v.overlap \/ 0 > 1)
      <3>1. Len(v.group) # 1
        BY <2>1
      <3> QED BY <2>1, <3>1, CloseType
    <2>3. 1..k = {} /\ 1..(m - 1) = {}
      BY <1>6, <2>1
    <2> QED BY <1>2, <1>3, <2>2, <2>3 DEF Settles
  <1> QED BY <1>0, <1>2, <1>4, <1>5, <1>6

\* A turn of the loop keeps that.
LEMMA JoinTurn ==
  ASSUME NEW S, NEW n, NEW q, ByStartOf(q, n, S), NEW k \in 1..n, NEW v \in JoinState(S),
         HasGroups(v, q, k - 1, n)
  PROVE  HasGroups(Join(v, q[k]), q, k, n)
  <1> DEFINE x == q[k]
             w == Join(v, x)
             h == k - 1
  <1>0. /\ S \in SUBSET Item /\ n \in Nat /\ q \in [1..n -> S] /\ x \in S
        /\ \A i \in 1..n : q[i].start \in Nat /\ q[i].end \in Nat /\ q[i].start < q[i].end
        /\ \A i, j \in 1..n : i < j => q[i].start <= q[j].start
        /\ v.maxEnd \in Nat /\ v.overlap \in BOOLEAN /\ k \in Nat /\ v.group \in Seq(S)
    BY DEF ByStartOf, JoinState
  <1>h. h \in 0..n /\ h \in Nat /\ h + 1 = k /\ h = k - 1
    BY <1>0
  <1>x. x = q[k] /\ x.start \in Nat /\ x.end \in Nat /\ x.start < x.end
    BY <1>0
  <1>1. /\ w \in JoinState(S)
        /\ v.group # <<>> /\ x.start < v.maxEnd =>
              /\ w.group = Append(v.group, x)
              /\ w.maxEnd = IF x.end > v.maxEnd THEN x.end ELSE v.maxEnd
              /\ w.accepted = v.accepted /\ w.overlap = v.overlap
        /\ ~(v.group # <<>> /\ x.start < v.maxEnd) =>
              /\ w.group = <<x>> /\ w.maxEnd = x.end
              /\ w.accepted = Close(v).accepted /\ w.overlap = Close(v).overlap
    BY <1>0, JoinType
  <1>2. HasGroups(v, q, h, n)
    OBVIOUS
  <1> HIDE DEF x, w, h
  <1>3. PICK m : Grouped(v, m, q, h, n)
    BY <1>2 DEF HasGroups
  <1>4. /\ m \in 1..(h + 1) /\ Len(v.group) = h + 1 - m /\ (h > 0 => m <= h)
        /\ \A i \in m..h : q[i].end <= v.maxEnd
        /\ m <= h => \E i \in m..h : q[i].end = v.maxEnd
        /\ \A i \in 1..(m - 1), j \in m..n : q[i].end <= q[j].start
        /\ v.accepted = {q[i] : i \in {j \in 1..(m - 1) : AloneAt(j, q, n)}}
        /\ m < h => \A i \in m..h : \E j \in m..h : j # i /\ ~Disjoint(q[i], q[j])
        /\ ~v.overlap => \A i \in 1..(m - 1) : AloneAt(i, q, n)
    BY <1>3 DEF Grouped
  <1>5. v.group # <<>> <=> h > 0
    <2>1. v.group # <<>> <=> Len(v.group) > 0
      BY <1>0
    <2> QED BY <1>4, <1>h, <2>1
  <1>6. CASE h > 0 /\ x.start < v.maxEnd
    <2>1. /\ w.group = Append(v.group, x) /\ w.accepted = v.accepted /\ w.overlap = v.overlap
          /\ w.maxEnd \in Nat /\ v.maxEnd <= w.maxEnd /\ x.end <= w.maxEnd
          /\ w.maxEnd = v.maxEnd \/ w.maxEnd = x.end
      BY <1>0, <1>1, <1>5, <1>6, <1>x
    <2>2. Len(w.group) = k + 1 - m
      BY <1>0, <1>4, <1>h, <2>1
    <2>3. /\ m \in 1..(k + 1) /\ m <= k /\ m < k /\ m <= h /\ k \in m..k /\ m..h \subseteq m..k
          /\ \A i \in m..k : i = k \/ i \in m..h
      BY <1>0, <1>4, <1>6, <1>h
    <2>4. \A i \in m..k : q[i].end <= w.maxEnd
      <3>1. \A i \in m..h : q[i].end \in Nat
        BY <1>0, <1>4, <1>h
      <3> QED BY <1>0, <1>4, <1>x, <2>1, <2>3, <3>1
    <2>5. \E i \in m..k : q[i].end = w.maxEnd
      BY <1>4, <1>x, <2>1, <2>3
    <2>6. PICK p \in m..h : q[p].end = v.maxEnd
      BY <1>4, <2>3
    <2>7. p # k /\ ~Disjoint(q[p], q[k]) /\ ~Disjoint(q[k], q[p])
      <3>1. p \in 1..n /\ p < k
        BY <1>0, <1>4, <1>h
      <3>2. q[p].start <= q[k].start /\ q[p].start \in Nat
        BY <1>0, <3>1
      <3> QED BY <1>0, <1>6, <1>x, <2>6, <3>1, <3>2 DEF Disjoint
    <2>8. \A i \in m..k : \E j \in m..k : j # i /\ ~Disjoint(q[i], q[j])
      <3> SUFFICES ASSUME NEW i \in m..k PROVE \E j \in m..k : j # i /\ ~Disjoint(q[i], q[j])
        OBVIOUS
      <3>1. CASE i = k
        BY <2>3, <2>6, <2>7, <3>1
      <3>2. CASE i # k /\ m < h
        BY <1>4, <2>3, <3>2
      <3>3. CASE i # k /\ ~(m < h)
        <4>1. i = p
          BY <1>4, <1>h, <2>3, <2>6, <3>3
        <4> QED BY <2>3, <2>7, <4>1
      <3> QED BY <3>1, <3>2, <3>3
    <2>9. m # k
      BY <1>0, <2>3
    <2>10. Grouped(w, m, q, k, n)
      BY <1>4, <2>1, <2>2, <2>3, <2>4, <2>5, <2>8, <2>9 DEF Grouped
    <2> QED BY <2>10 DEF HasGroups, w, x
  <1>7. CASE ~(h > 0 /\ x.start < v.maxEnd)
    <2>1. /\ w.group = <<x>> /\ w.maxEnd = x.end
          /\ w.accepted = Close(v).accepted /\ w.overlap = Close(v).overlap
      BY <1>1, <1>5, <1>7
    <2>2. h > 0 => \A j \in (h + 1)..n : v.maxEnd <= q[j].start
      <3> SUFFICES ASSUME h > 0, NEW j \in k..n PROVE v.maxEnd <= q[j].start
        BY <1>h
      <3>1. v.maxEnd <= x.start
        BY <1>0, <1>7, <1>x
      <3>2. x.start <= q[j].start /\ q[j].start \in Nat
        BY <1>0, <1>x
      <3> QED BY <1>0, <1>x, <3>1, <3>2
    <2>3. /\ Settles(Close(v), q, h, n)
          /\ \A i \in 1..h, j \in (h + 1)..n : q[i].end <= q[j].start
      BY <1>2, <1>h, <2>2, CloseSettles
    <2>4. /\ w.accepted = {q[i] : i \in {j \in 1..h : AloneAt(j, q, n)}}
          /\ ~w.overlap => \A i \in 1..h : AloneAt(i, q, n)
      BY <2>1, <2>3 DEF Settles
    <2>5. \A i \in 1..(k - 1), j \in k..n : q[i].end <= q[j].start
      BY <1>h, <2>3
    <2>6. Len(w.group) = 1 /\ w.group[1] = q[k]
      BY <1>x, <2>1
    <2>7. k..k = {k} /\ k \in 1..(k + 1) /\ k + 1 - k = 1 /\ ~(k < k) /\ k <= k
      BY <1>0
    <2>8. \A i \in k..k : q[i].end <= w.maxEnd
      BY <1>x, <2>1, <2>7
    <2>9. \E i \in k..k : q[i].end = w.maxEnd
      BY <1>x, <2>1, <2>7
    <2>10. Grouped(w, k, q, k, n)
      BY <1>h, <2>4, <2>5, <2>6, <2>7, <2>8, <2>9 DEF Grouped
    <2> QED BY <2>10 DEF HasGroups, w, x
  <1> QED BY <1>6, <1>7

\* The observations of S that overlap no other one.
Uncontested(S) == {o \in S : \A x \in S \ {o} : Disjoint(o, x)}

\* What the sweep over groups accepts, and what no overlap means.
LEMMA GroupsAccept ==
  ASSUME NEW S \in SUBSET Item, IsFiniteSet(S), \A o \in S : o.start < o.end
  PROVE  LET v == Close(JoinFold(SortedBy(S, ByBounds(S))))
         IN /\ v.accepted = Uncontested(S) /\ v.overlap \in BOOLEAN
            /\ ~v.overlap => Uncontested(S) = S
  <1> DEFINE n == Cardinality(S)
             R == ByBounds(S)
             q == SortedBy(S, R)
             Before(x, y) == \/ x.start < y.start
                             \/ x.start = y.start /\ x.end < y.end
                             \/ x.start = y.start /\ x.end = y.end /\ x.kwh < y.kwh
  <1>0. n \in Nat
    BY FS_CardinalityType
  <1>1. \A x, y \in S : <<x, y>> \in R <=> Before(x, y)
    BY DEF ByBounds, ByStart
  <1>2. \A x \in S : x.start \in Nat /\ x.end \in Nat /\ x.kwh \in Nat
    BY DEF Item
  <1>3. IsOrder(S, R)
    <2>1. \A x, y \in S : x.start = y.start /\ x.end = y.end /\ x.kwh = y.kwh => x = y
      BY DEF Item
    <2>2. \A x \in S : ~Before(x, x)
      BY <1>2
    <2>3. \A x, y, z \in S : Before(x, y) /\ Before(y, z) => Before(x, z)
      BY <1>2
    <2>4. \A x, y \in S : \/ Before(x, y) \/ Before(y, x)
                          \/ x.start = y.start /\ x.end = y.end /\ x.kwh = y.kwh
      BY <1>2
    <2> HIDE DEF R, Before
    <2> QED BY <1>1, <2>1, <2>2, <2>3, <2>4 DEF IsOrder
  <1>4. Lists(q, S, R)
    <2> HIDE DEF R
    <2> QED BY <1>3, SortedByLists
  <1> HIDE DEF q, R
  <1>5. /\ q \in [1..n -> S]
        /\ \A x \in S : \E i \in 1..n : q[i] = x
        /\ \A i, j \in 1..n : i < j => <<q[i], q[j]>> \in R
    BY <1>4 DEF Lists
  <1> HIDE DEF n
  <1>6. ASSUME NEW i \in 1..n, NEW j \in 1..n, i < j
        PROVE  q[i].start <= q[j].start /\ q[i] # q[j]
    <2>1. q[i] \in S /\ q[j] \in S /\ <<q[i], q[j]>> \in R
      BY <1>5, <1>6
    <2>2. q[i] # q[j]
      BY <1>3, <2>1 DEF IsOrder
    <2> QED BY <1>1, <1>2, <2>1, <2>2
  <1>7. ByStartOf(q, n, S)
    BY <1>0, <1>2, <1>5, <1>6 DEF ByStartOf
  <1>8. PICK acc : IsJoin(acc, S, q, n) /\ JoinFold(q) = acc[n]
    BY <1>0, <1>5, JoinTrace
  <1>9. /\ acc \in [0..n -> JoinState(S)] /\ acc[0] = JoinInit
        /\ \A i \in 1..n : acc[i] = Join(acc[i - 1], q[i])
    BY <1>8 DEF IsJoin
  <1> DEFINE Bad == {k \in 0..n : ~HasGroups(acc[k], q, k, n)}
  <1>10. HasGroups(acc[0], q, 0, n)
    <2>1. acc[0].group = <<>> /\ acc[0].accepted = {} /\ acc[0].overlap = FALSE
      BY <1>9 DEF JoinInit
    <2>2. 1..(1 - 1) = {} /\ 1..0 = {} /\ 1 \in 1..(0 + 1) /\ Len(<<>>) = 0
      OBVIOUS
    <2>3. Grouped(acc[0], 1, q, 0, n)
      BY <2>1, <2>2 DEF Grouped
    <2> QED BY <2>3 DEF HasGroups
  <1>11. Bad = {}
    <2>1. SUFFICES ASSUME Bad # {} PROVE FALSE
      OBVIOUS
    <2>2. PICK k \in Bad : \A j \in Bad : k <= j
      <3>1. Bad \subseteq Nat
        OBVIOUS
      <3> HIDE DEF Bad
      <3> QED BY <2>1, <3>1, LeastNumber
    <2>3. k \in 1..n /\ ~HasGroups(acc[k], q, k, n)
      BY <1>0, <1>10, <2>2
    <2>4. k - 1 \in 0..n /\ k - 1 \notin Bad
      <3>1. k - 1 \in 0..n /\ ~(k <= k - 1)
        BY <1>0, <2>3
      <3> HIDE DEF Bad
      <3> QED BY <2>2, <3>1
    <2>5. HasGroups(acc[k - 1], q, k - 1, n) /\ acc[k - 1] \in JoinState(S)
      BY <1>9, <2>4
    <2>6. HasGroups(Join(acc[k - 1], q[k]), q, k, n)
      BY <1>7, <2>3, <2>5, JoinTurn
    <2> QED BY <1>9, <2>3, <2>6
  <1>12. n \in 0..n /\ HasGroups(acc[n], q, n, n) /\ acc[n] \in JoinState(S)
    BY <1>0, <1>9, <1>11
  <1>13. (n + 1)..n = {}
    BY <1>0
  <1>14. Settles(Close(acc[n]), q, n, n)
    BY <1>7, <1>12, <1>13, CloseSettles
  <1>15. ASSUME NEW i \in 1..n PROVE AloneAt(i, q, n) <=> q[i] \in Uncontested(S)
    <2>1. \A j \in 1..n : j # i => q[j] # q[i]
      BY <1>0, <1>6
    <2> QED BY <1>5, <2>1 DEF AloneAt, Uncontested
  <1>16. {q[i] : i \in {j \in 1..n : AloneAt(j, q, n)}} = Uncontested(S)
    <2>1. Uncontested(S) \subseteq S
      BY DEF Uncontested
    <2> QED BY <1>5, <1>15, <2>1
  <1>17. (\A i \in 1..n : AloneAt(i, q, n)) => Uncontested(S) = S
    <2>1. Uncontested(S) \subseteq S
      BY DEF Uncontested
    <2> QED BY <1>5, <1>15, <2>1
  <1>18. Close(acc[n]).overlap \in BOOLEAN
    <2>1. Close(acc[n]) \in JoinState(S)
      BY <1>12, CloseType
    <2> QED BY <2>1 DEF JoinState
  <1> QED BY <1>8, <1>14, <1>16, <1>17, <1>18 DEF Settles, q, R

-----------------------------------------------------------------------------
(* What billing reads *)

\* The assignments of the point do not overlap, and each is of another device.
LEMMA AssignmentFacts ==
  ASSUME CoverageInv
  PROVE  /\ IsFiniteSet(Assignments) /\ now \in Nat /\ now > 1 /\ Forever \in Nat /\ now < Forever
         /\ \A a \in Assignments :
                /\ a.dev \in {Old, New} /\ a.from \in Nat /\ a.to \in Nat /\ 1 <= a.from
                /\ a.from <= now /\ a.to > 1 /\ (a.to = Forever \/ a.to <= now)
                /\ a.to # Forever => a.from < a.to
         /\ \A a, b \in Assignments :
                a # b => a.dev # b.dev /\ (a.to <= b.from \/ b.to <= a.from)
  <1> DEFINE O == [dev |-> Old, from |-> MonthStart, to |-> IF closed = 0 THEN Forever ELSE closed]
             N == [dev |-> New, from |-> opened, to |-> Forever]
  <1>0. /\ now \in Nat /\ now > 1 /\ Forever \in Nat /\ now < Forever
        /\ closed \in Nat /\ opened \in Nat /\ (closed # 0 => closed > 1 /\ closed <= now)
        /\ opened # 0 => opened > 1 /\ opened <= now /\ closed # 0 /\ closed <= opened
        /\ Old # New
    BY CoverageAssumption DEF CoverageInv, Forever
  <1>1. Assignments = {O} \cup (IF opened = 0 THEN {} ELSE {N})
    BY DEF Assignments
  <1>2. /\ O.dev = Old /\ O.from = 1 /\ O.to = (IF closed = 0 THEN Forever ELSE closed)
        /\ N.dev = New /\ N.from = opened /\ N.to = Forever
    BY DEF MonthStart
  <1> HIDE DEF O, N
  <1>3. IsFiniteSet(Assignments)
    <2>1. IsFiniteSet({O}) /\ IsFiniteSet({N}) /\ IsFiniteSet({})
      BY FS_Singleton, FS_EmptySet
    <2>2. IsFiniteSet({O} \cup {N}) /\ {O} \cup {} = {O}
      BY <2>1, FS_Union
    <2> QED BY <1>1, <2>1, <2>2
  <1>4. ASSUME NEW a \in Assignments
        PROVE  /\ a.dev \in {Old, New} /\ a.from \in Nat /\ a.to \in Nat /\ 1 <= a.from
               /\ a.from <= now /\ a.to > 1 /\ (a.to = Forever \/ a.to <= now)
               /\ a.to # Forever => a.from < a.to
    <2>1. CASE a = O
      BY <1>0, <1>2, <2>1
    <2>2. CASE a = N /\ opened # 0
      BY <1>0, <1>2, <2>2
    <2> QED BY <1>1, <2>1, <2>2
  <1>5. ASSUME NEW a \in Assignments, NEW b \in Assignments, a # b
        PROVE  a.dev # b.dev /\ (a.to <= b.from \/ b.to <= a.from)
    <2>1. opened # 0 /\ ((a = O /\ b = N) \/ (a = N /\ b = O))
      BY <1>1, <1>5
    <2>2. O.to <= N.from
      BY <1>0, <1>2, <2>1
    <2> QED BY <1>0, <1>2, <2>1, <2>2
  <1> QED BY <1>0, <1>3, <1>4, <1>5

\* An assignment as billing sees it.
Billed(a) == [dev |-> a.dev, start |-> a.from, end |-> IF a.to = Forever THEN now ELSE a.to]

\* Billing reads the assignments of the window.
LEMMA BilledAssignments ==
  BillingAssignments = {Billed(a) : a \in LoadAssignments}
  <1> DEFINE Span(x) == [dev |-> x.dev, start |-> x.from, end |-> x.to]
             Cut(a) == [a EXCEPT !.end = IF @ = Forever THEN now ELSE @]
  <1>1. \A x : Cut(Span(x)) = Billed(x)
    BY DEF Billed
  <1>2. BillingAssignments = {Cut(a) : a \in {Span(x) : x \in LoadAssignments}}
    BY DEF BillingAssignments
  <1> HIDE DEF Span, Cut
  <1>3. BillingAssignments = {Cut(Span(x)) : x \in LoadAssignments}
    BY <1>2
  <1> QED BY <1>1, <1>3

\* What an assignment may be in a bill.
Terms == [dev : {Old, New}, start : Nat, end : Nat]

\* The assignments that billing reads lie in the month so far and do not overlap.
LEMMA BillingFacts ==
  ASSUME CoverageInv
  PROVE  /\ IsFiniteSet(BillingAssignments) /\ BillingAssignments \subseteq Terms
         /\ \A b \in BillingAssignments :
                /\ 1 <= b.start /\ b.start < b.end /\ b.end <= now
                /\ b.start \in Nat /\ b.end \in Nat
         /\ \A b, c \in BillingAssignments :
                b # c => b.dev # c.dev /\ (b.end <= c.start \/ c.end <= b.start)
  <1>1. /\ IsFiniteSet(Assignments) /\ now \in Nat /\ now > 1 /\ Forever \in Nat /\ now < Forever
        /\ \A a \in Assignments :
                /\ a.dev \in {Old, New} /\ a.from \in Nat /\ a.to \in Nat /\ 1 <= a.from
                /\ a.from <= now /\ a.to > 1 /\ (a.to = Forever \/ a.to <= now)
                /\ a.to # Forever => a.from < a.to
        /\ \A a, b \in Assignments :
                a # b => a.dev # b.dev /\ (a.to <= b.from \/ b.to <= a.from)
    BY AssignmentFacts
  <1>2. LoadAssignments \in SUBSET Assignments /\ \A a \in LoadAssignments : a.from < now
    BY DEF LoadAssignments
  <1>3. IsFiniteSet(BillingAssignments)
    <2> DEFINE f == [a \in LoadAssignments |-> Billed(a)]
    <2>1. IsFiniteSet(LoadAssignments)
      BY <1>1, <1>2, FS_Subset
    <2>2. DOMAIN f = LoadAssignments /\ BillingAssignments = {f[a] : a \in LoadAssignments}
      BY BilledAssignments
    <2> HIDE DEF f
    <2> QED BY <2>1, <2>2, ImageFinite
  <1>4. ASSUME NEW a \in LoadAssignments
        PROVE  /\ Billed(a) \in Terms /\ Billed(a).dev = a.dev /\ Billed(a).start = a.from
               /\ Billed(a).end = (IF a.to = Forever THEN now ELSE a.to)
               /\ 1 <= Billed(a).start /\ Billed(a).start < Billed(a).end /\ Billed(a).end <= now
    <2>1. /\ a.dev \in {Old, New} /\ a.from \in Nat /\ a.to \in Nat /\ 1 <= a.from
          /\ a.from < now /\ a.to > 1 /\ (a.to = Forever \/ a.to <= now)
          /\ a.to # Forever => a.from < a.to
      BY <1>1, <1>2
    <2> QED BY <1>1, <2>1 DEF Billed, Terms
  <1>5. ASSUME NEW b \in BillingAssignments
        PROVE  /\ b \in Terms /\ 1 <= b.start /\ b.start < b.end /\ b.end <= now
               /\ b.start \in Nat /\ b.end \in Nat
    <2>1. PICK a \in LoadAssignments : b = Billed(a)
      BY BilledAssignments
    <2>2. b \in Terms /\ 1 <= b.start /\ b.start < b.end /\ b.end <= now
      BY <1>4, <2>1
    <2> QED BY <2>2 DEF Terms
  <1>6. ASSUME NEW b \in BillingAssignments, NEW c \in BillingAssignments, b # c
        PROVE  b.dev # c.dev /\ (b.end <= c.start \/ c.end <= b.start)
    <2>1. PICK a \in LoadAssignments : b = Billed(a)
      BY BilledAssignments
    <2>2. PICK d \in LoadAssignments : c = Billed(d)
      BY BilledAssignments
    <2>3. a # d /\ a \in Assignments /\ d \in Assignments
      BY <1>2, <1>6, <2>1, <2>2
    <2>4. a.dev # d.dev /\ (a.to <= d.from \/ d.to <= a.from)
      BY <1>1, <2>3
    <2>5. /\ a.from \in Nat /\ a.to \in Nat /\ d.from \in Nat /\ d.to \in Nat
          /\ a.from < now /\ d.from < now
      BY <1>1, <1>2, <2>3
    <2>6. /\ b.dev = a.dev /\ b.start = a.from /\ b.end = (IF a.to = Forever THEN now ELSE a.to)
          /\ c.dev = d.dev /\ c.start = d.from /\ c.end = (IF d.to = Forever THEN now ELSE d.to)
      BY <1>4, <2>1, <2>2
    <2> QED BY <1>1, <2>4, <2>5, <2>6
  <1> QED BY <1>3, <1>5, <1>6

\* Clipping leaves what is in the window as it is.
LEMMA ClippedTerms ==
  ASSUME NEW I \in SUBSET Terms, NEW lower \in Nat, NEW upper \in Nat,
         \A b \in I : lower <= b.start /\ b.start < b.end /\ b.end <= upper
  PROVE  Clipped(I, lower, upper) = I
  <1> DEFINE Cut(x) == [x EXCEPT !.start = IF @ < lower THEN lower ELSE @,
                                 !.end = IF @ > upper THEN upper ELSE @]
  <1>1. ASSUME NEW x \in I PROVE Cut(x) = x
    <2>1. x \in Terms /\ x.start \in Nat /\ x.end \in Nat
      BY DEF Terms
    <2>2. ~(x.start < lower) /\ ~(x.end > upper)
      BY <2>1
    <2>3. Cut(x) = [x EXCEPT !.start = x.start, !.end = x.end]
      BY <2>2
    <2>4. [x EXCEPT !.start = x.start, !.end = x.end] = x
      BY <2>1 DEF Terms
    <2> QED BY <2>3, <2>4
  <1>2. Clipped(I, lower, upper) = {i \in {Cut(x) : x \in I} : i.start < i.end}
    BY DEF Clipped
  <1> HIDE DEF Cut
  <1> QED BY <1>1, <1>2

\* The same for observations.
LEMMA ClippedItems ==
  ASSUME NEW I \in SUBSET Item, NEW lower \in Nat, NEW upper \in Nat,
         \A b \in I : lower <= b.start /\ b.start < b.end /\ b.end <= upper
  PROVE  Clipped(I, lower, upper) = I
  <1> DEFINE Cut(x) == [x EXCEPT !.start = IF @ < lower THEN lower ELSE @,
                                 !.end = IF @ > upper THEN upper ELSE @]
  <1>1. ASSUME NEW x \in I PROVE Cut(x) = x
    <2>1. x \in Item /\ x.start \in Nat /\ x.end \in Nat
      BY DEF Item
    <2>2. ~(x.start < lower) /\ ~(x.end > upper)
      BY <2>1
    <2>3. Cut(x) = [x EXCEPT !.start = x.start, !.end = x.end]
      BY <2>2
    <2>4. [x EXCEPT !.start = x.start, !.end = x.end] = x
      BY <2>1 DEF Item
    <2> QED BY <2>3, <2>4
  <1>2. Clipped(I, lower, upper) = {i \in {Cut(x) : x \in I} : i.start < i.end}
    BY DEF Clipped
  <1> HIDE DEF Cut
  <1> QED BY <1>1, <1>2

\* The bounds of intervals.
BoundsOf(S) == {[start |-> i.start, end |-> i.end] : i \in S}

\* The duration of the bounds of some intervals is the number of their instants.
LEMMA DurationCounts ==
  ASSUME NEW S, IsFiniteSet(S),
         \A i \in S : i.start \in Nat /\ i.end \in Nat /\ i.start < i.end
  PROVE  /\ IsFiniteSet(UNION {Instants(i) : i \in S})
         /\ UnionSortedDuration(BoundsOf(S)) = Cardinality(UNION {Instants(i) : i \in S})
  <1> DEFINE B == BoundsOf(S)
             f == [i \in S |-> [start |-> i.start, end |-> i.end]]
  <1>1. DOMAIN f = S /\ B = {f[i] : i \in S}
    BY DEF BoundsOf
  <1>2. \A i \in S : f[i] \in Bounds /\ f[i].start = i.start /\ f[i].end = i.end
    BY DEF Bounds
  <1> HIDE DEF f, B
  <1>3. IsFiniteSet(B)
    BY <1>1, ImageFinite
  <1>4. B \in SUBSET Bounds /\ \A b \in B : b.start < b.end
    BY <1>1, <1>2
  <1>5. UNION {Instants(b) : b \in B} = UNION {Instants(i) : i \in S}
    <2>1. \A i \in S : Instants(f[i]) = Instants(i)
      BY <1>2 DEF Instants
    <2>2. {Instants(b) : b \in B} = {Instants(i) : i \in S}
      BY <1>1, <2>1
    <2> QED BY <2>2
  <1> QED BY <1>3, <1>4, <1>5, SweepCounts DEF B

\* A row is observed if one assignment contains it, and that of its device.
LEMMA ObservedRows ==
  ASSUME CoverageInv, NEW r \in rows
  PROVE  Verdict(r) = "observed" <=>
             /\ ~r.conflict /\ r.end <= now
             /\ \E a \in Covering(r) : Covering(r) = {a} /\ a.dev = r.dev
  <1>0. r.conflict \in BOOLEAN /\ r.end \in Nat /\ now \in Nat
    BY CoverageAssumption, AssignmentFacts DEF CoverageInv, Row
  <1>1. (\E a \in Covering(r) : Covering(r) = {a}) => ~(Cardinality(Covering(r)) > 1)
    <2> SUFFICES ASSUME NEW a \in Covering(r), Covering(r) = {a} PROVE ~(Cardinality(Covering(r)) > 1)
      OBVIOUS
    <2>1. Cardinality({a}) = 1
      BY FS_Singleton
    <2> QED BY <2>1
  <1>2. CASE r.conflict
    BY <1>0, <1>2 DEF Verdict
  <1>3. CASE ~r.conflict /\ r.end > now
    BY <1>0, <1>3 DEF Verdict
  <1>4. CASE ~r.conflict /\ r.end <= now
    <2> DEFINE many == Cardinality(Covering(r)) > 1
               one == \E a \in Covering(r) : Covering(r) = {a} /\ a.dev = r.dev
    <2>1. ~(r.end > now)
      BY <1>0, <1>4
    <2>2. many => ~one
      BY <1>1
    <2>3. CASE many
      BY <1>4, <2>1, <2>2, <2>3 DEF Verdict
    <2>4. CASE ~many /\ one
      BY <1>4, <2>1, <2>4 DEF Verdict
    <2>5. CASE ~many /\ ~one
      BY <1>4, <2>1, <2>5 DEF Verdict
    <2> QED BY <2>3, <2>4, <2>5
  <1> QED BY <1>0, <1>2, <1>3, <1>4

\* The observation of a row.
Observed(r) == [start |-> r.start, end |-> r.end, kwh |-> r.kwh]

\* The rows that billing uses.
Usable == {x \in rows : x.start < now /\ Verdict(x) = "observed"}

\* Observations are intervals of the month so far with their energy.
LEMMA ObservationFacts ==
  ASSUME CoverageInv
  PROVE  /\ Observations = {Observed(r) : r \in Usable}
         /\ Observations \in SUBSET Item /\ IsFiniteSet(Observations) /\ Metered(Observations)
         /\ \A o \in Observations : /\ o.start \in Nat /\ o.end \in Nat
                                    /\ 1 <= o.start /\ o.start < o.end /\ o.end <= now
  <1>1. Observations = {Observed(r) : r \in Usable}
    BY DEF Observations, Observed, Usable
  <1>2. ASSUME NEW r \in Usable
        PROVE  /\ Observed(r) \in Item /\ Observed(r).start = r.start /\ Observed(r).end = r.end
               /\ Observed(r).kwh = r.kwh /\ r.kwh \in Nat /\ r.start \in Nat /\ r.end \in Nat
               /\ 1 <= r.start /\ r.start < r.end /\ r.end <= now
    <2>1. r \in rows /\ Verdict(r) = "observed"
      BY DEF Usable
    <2>2. r \in Row /\ r.start < r.end
      BY <2>1 DEF CoverageInv
    <2>3. r.kwh \in Nat /\ r.start \in Nat /\ r.end \in Nat /\ 1 <= r.start
      BY <2>2, CoverageAssumption DEF Row
    <2>4. r.end <= now
      BY <2>1, ObservedRows
    <2> QED BY <2>2, <2>3, <2>4 DEF Observed, Item
  <1>3. IsFiniteSet(Observations)
    <2> DEFINE f == [r \in Usable |-> Observed(r)]
    <2>1. IsFiniteSet(Usable)
      <3>1. Usable \in SUBSET rows
        BY DEF Usable
      <3> QED BY <3>1, FS_Subset DEF CoverageInv
    <2>2. DOMAIN f = Usable /\ Observations = {f[r] : r \in Usable}
      BY <1>1
    <2> HIDE DEF f
    <2> QED BY <2>1, <2>2, ImageFinite
  <1>4. Observations \in SUBSET Item
    BY <1>1, <1>2
  <1>5. \A o \in Observations : /\ o.start \in Nat /\ o.end \in Nat /\ o.kwh \in Nat
                                /\ 1 <= o.start /\ o.start < o.end /\ o.end <= now
    <2> SUFFICES ASSUME NEW o \in Observations
                 PROVE  /\ o.start \in Nat /\ o.end \in Nat /\ o.kwh \in Nat
                        /\ 1 <= o.start /\ o.start < o.end /\ o.end <= now
      OBVIOUS
    <2>1. PICK r \in Usable : o = Observed(r)
      BY <1>1
    <2> QED BY <1>2, <2>1
  <1> QED BY <1>1, <1>3, <1>4, <1>5 DEF Metered

\* What billing makes of the observations.
LEMMA ObservedResult ==
  ASSUME CoverageInv
  PROVE  LET result == EvaluateObserved(Observations)
             alone == Uncontested(Observations)
         IN /\ result.accepted = alone /\ result.overlap \in BOOLEAN
            /\ ~result.overlap => alone = Observations
            /\ result.kwh = KwhSum(alone)
            /\ IsFiniteSet(UNION {Instants(o) : o \in alone})
            /\ result.duration = Cardinality(UNION {Instants(o) : o \in alone})
  <1> DEFINE S == Observations
             alone == Uncontested(S)
             result == EvaluateObserved(S)
             v == Close(JoinFold(SortedBy(S, ByBounds(S))))
  <1>1. /\ S \in SUBSET Item /\ IsFiniteSet(S)
        /\ \A o \in S : /\ o.start \in Nat /\ o.end \in Nat
                        /\ 1 <= o.start /\ o.start < o.end /\ o.end <= now
    BY ObservationFacts
  <1>2. now \in Nat /\ MonthStart = 1 /\ 1 \in Nat
    BY AssignmentFacts DEF MonthStart
  <1> HIDE DEF S
  <1>3. Clipped(S, MonthStart, now) = S
    BY <1>1, <1>2, ClippedItems
  <1>4. v.accepted = alone /\ v.overlap \in BOOLEAN /\ (~v.overlap => alone = S)
    BY <1>1, GroupsAccept
  <1>5. result = [accepted |-> v.accepted, overlap |-> v.overlap, kwh |-> KwhSum(v.accepted),
                  duration |-> UnionSortedDuration(BoundsOf(v.accepted))]
    BY <1>3 DEF EvaluateObserved, JoinFold, JoinInit, KwhSum, BoundsOf
  <1> HIDE DEF v, result
  <1>6. alone \in SUBSET S
    BY DEF Uncontested
  <1> HIDE DEF alone
  <1>7. /\ IsFiniteSet(alone)
        /\ \A i \in alone : i.start \in Nat /\ i.end \in Nat /\ i.start < i.end
    BY <1>1, <1>6, FS_Subset
  <1>8. /\ IsFiniteSet(UNION {Instants(o) : o \in alone})
        /\ UnionSortedDuration(BoundsOf(alone)) = Cardinality(UNION {Instants(o) : o \in alone})
    BY <1>7, DurationCounts
  <1> QED BY <1>4, <1>5, <1>8 DEF alone, result, S

\* The time expected is the number of instants with an assignment.
LEMMA ExpectedResult ==
  ASSUME CoverageInv
  PROVE  LET U == UNION {Instants(a) : a \in BillingAssignments}
         IN IsFiniteSet(U) /\ ExpectedDuration = Cardinality(U)
  <1> DEFINE S == BillingAssignments
  <1>1. /\ S \in SUBSET Terms /\ IsFiniteSet(S)
        /\ \A b \in S : /\ 1 <= b.start /\ b.start < b.end /\ b.end <= now
                        /\ b.start \in Nat /\ b.end \in Nat
    BY BillingFacts
  <1>2. now \in Nat /\ MonthStart = 1 /\ 1 \in Nat
    BY AssignmentFacts DEF MonthStart
  <1> HIDE DEF S
  <1>3. Clipped(S, MonthStart, now) = S
    BY <1>1, <1>2, ClippedTerms
  <1>4. ExpectedDuration = UnionSortedDuration(BoundsOf(S))
    BY <1>3 DEF ExpectedDuration, UnionDuration, BoundsOf, S
  <1> QED BY <1>1, <1>4, DurationCounts DEF S

\* The bill counts exactly what is not contested.
LEMMA UncontestedHolds ==
  ASSUME CoverageInv
  PROVE  BilledIsUncontested
  <1>1. Uncontested(Observations) =
            {o \in Observations : \A x \in Observations \ {o} : Disjoint(o, x)}
    BY DEF Uncontested
  <1> QED BY <1>1, ObservedResult, ExpectedResult DEF BilledIsUncontested

\* The instants of an observation are instants of an assignment.
LEMMA ObservedWithin ==
  ASSUME CoverageInv
  PROVE  UNION {Instants(o) : o \in Observations} \subseteq
             UNION {Instants(a) : a \in BillingAssignments}
  <1> SUFFICES ASSUME NEW o \in Observations, NEW t \in Instants(o)
               PROVE  \E a \in BillingAssignments : t \in Instants(a)
    OBVIOUS
  <1>1. PICK r \in Usable : o = Observed(r)
    BY ObservationFacts
  <1>2. r \in rows /\ Verdict(r) = "observed"
    BY DEF Usable
  <1>3. PICK a \in Covering(r) : TRUE
    BY <1>2, ObservedRows
  <1>4. a \in BillingAssignments /\ a.start <= r.start /\ r.end <= a.end
    BY DEF Covering
  <1>5. a.start \in Nat /\ a.end \in Nat
    BY <1>4, BillingFacts
  <1>6. o.start = r.start /\ o.end = r.end /\ o.start \in Nat /\ o.end \in Nat
    BY <1>1, ObservationFacts DEF Observed
  <1>7. t \in Instants(a)
    BY <1>4, <1>5, <1>6 DEF Instants
  <1> QED BY <1>4, <1>7

\* No more time is observed than expected.
LEMMA WithinExpectedHolds ==
  ASSUME CoverageInv
  PROVE  ObservedWithinExpected
  <1> DEFINE A == UNION {Instants(o) : o \in Uncontested(Observations)}
             B == UNION {Instants(a) : a \in BillingAssignments}
  <1>1. A \in SUBSET B
    BY ObservedWithin DEF Uncontested
  <1>2. /\ EvaluateObserved(Observations).duration = Cardinality(A)
        /\ ExpectedDuration = Cardinality(B) /\ IsFiniteSet(B)
    BY ObservedResult, ExpectedResult
  <1> HIDE DEF A, B
  <1>3. Cardinality(A) <= Cardinality(B)
    BY <1>1, <1>2, FS_Subset
  <1> QED BY <1>2, <1>3 DEF ObservedWithinExpected

-----------------------------------------------------------------------------
(* Coverage, dashboard and bill *)

\* No other interval reaches into one that proves a period.
LEMMA TileDisjoint ==
  ASSUME NEW E, EvidenceOK(E), NEW period, PeriodOK(period, E),
         NEW T, NEW f, Best(T, f, period, E), NEW e \in T, NEW x \in Intervals(E), x # e
  PROVE  Disjoint(e, x) /\ Disjoint(x, e)
  <1>0. E \in SUBSET E /\ T \in SUBSET Intervals(E) /\ Proves(T, period, E)
    BY DEF Best
  <1>1. LET w == Through(T, period)
        IN /\ w \in Nat /\ period <= w /\ w <= now
           /\ \A g \in T : g.end <= w /\ g.end <= now /\ period <= g.start /\ g.attributable
           /\ \A g, h \in T : g # h => ~Overlap(g, h)
           /\ \A g \in E \ T : Free(g, period, w)
    BY <1>0, ProvesFacts
  <1>2. /\ e.start \in Nat /\ e.end \in Nat /\ e.start < e.end
        /\ x.start \in Nat /\ x.end \in Nat /\ x.start < x.end /\ x.barrier = "none" /\ x \in E
        /\ period \in Nat
    BY <1>0 DEF Intervals, EvidenceOK, PeriodOK
  <1>3. CASE x \in T
    BY <1>1, <1>2, <1>3 DEF Overlap, Disjoint
  <1>4. CASE x \notin T
    <2>1. Free(x, period, Through(T, period))
      BY <1>1, <1>2, <1>4
    <2> QED BY <1>1, <1>2, <2>1 DEF Free, Disjoint
  <1> QED BY <1>3, <1>4

\* Rows without a conflict are told apart by their evidence.
LEMMA EvidenceTellsRows ==
  ASSUME CoverageInv, NEW r \in rows, NEW x \in rows, ~r.conflict, ~x.conflict,
         EvidenceOf(r) = EvidenceOf(x)
  PROVE  r = x
  <1>1. r.dev = x.dev /\ r.boot = x.boot /\ r.seq = x.seq
    <2>1. /\ EvidenceOf(r).dev = r.dev /\ EvidenceOf(r).boot = r.boot
          /\ EvidenceOf(r).seq = r.seq
      BY EvidenceOfRow
    <2>2. /\ EvidenceOf(x).dev = x.dev /\ EvidenceOf(x).boot = x.boot
          /\ EvidenceOf(x).seq = x.seq
      BY EvidenceOfRow
    <2> QED BY <2>1, <2>2
  <1> QED BY <1>1 DEF CoverageInv

\* The assignments of the window are those that can contain a row of it.
LEMMA CoversAlike ==
  ASSUME CoverageInv, NEW r \in rows, r.start < now
  PROVE  AssignmentCovers(LoadAssignments, r.dev, r.start, r.end) <=>
             AssignmentCovers(Assignments, r.dev, r.start, r.end)
  <1>1. /\ r.start \in Nat /\ r.end \in Nat /\ 1 <= r.start /\ r.start < r.end
        /\ now \in Nat
    BY CoverageAssumption, AssignmentFacts DEF CoverageInv, Row
  <1>2. ASSUME NEW a \in Assignments, a.from <= r.start, r.end <= a.to
        PROVE  a \in LoadAssignments
    <2>1. a.from \in Nat /\ a.to \in Nat
      BY AssignmentFacts
    <2>2. a.from < now /\ a.to > 1
      BY <1>1, <1>2, <2>1
    <2> QED BY <2>2 DEF LoadAssignments, MonthStart
  <1>3. LoadAssignments \subseteq Assignments
    BY DEF LoadAssignments
  <1>4. {a \in LoadAssignments : a.dev = r.dev /\ a.from <= r.start /\ r.end <= a.to}
            = {a \in Assignments : a.dev = r.dev /\ a.from <= r.start /\ r.end <= a.to}
    BY <1>2, <1>3
  <1> QED BY <1>4 DEF AssignmentCovers

\* A row that coverage attributes and that has ended, billing observes.
LEMMA AttributedIsObserved ==
  ASSUME CoverageInv, NEW r \in rows, ~r.conflict, r.end <= now,
         AssignmentCovers(LoadAssignments, r.dev, r.start, r.end)
  PROVE  Verdict(r) = "observed"
  <1> DEFINE C == {a \in LoadAssignments : a.dev = r.dev /\ a.from <= r.start /\ r.end <= a.to}
  <1>1. IsFiniteSet(C)
    <2>1. C \in SUBSET Assignments /\ IsFiniteSet(Assignments)
      BY AssignmentFacts DEF LoadAssignments
    <2> HIDE DEF C
    <2> QED BY <2>1, FS_Subset
  <1>2. Cardinality(C) = 1
    BY DEF AssignmentCovers
  <1>3. \E a : C = {a}
    <2> HIDE DEF C
    <2> QED BY <1>1, <1>2, FS_Singleton
  <1>4. PICK a \in LoadAssignments : a.dev = r.dev /\ a.from <= r.start /\ r.end <= a.to
    BY <1>3
  <1> DEFINE b == Billed(a)
  <1>5. /\ b \in BillingAssignments /\ b.dev = a.dev /\ b.start = a.from
        /\ b.end = (IF a.to = Forever THEN now ELSE a.to)
    BY BilledAssignments DEF Billed
  <1> HIDE DEF b
  <1>6. /\ r.start \in Nat /\ r.end \in Nat /\ r.start < r.end
    BY CoverageAssumption DEF CoverageInv, Row
  <1>7. b.start <= r.start /\ r.end <= b.end
    BY <1>4, <1>5
  <1>8. b \in Covering(r)
    BY <1>5, <1>7 DEF Covering
  <1>9. ASSUME NEW c \in Covering(r) PROVE c = b
    <2>1. c \in BillingAssignments /\ c.start <= r.start /\ r.end <= c.end
      BY DEF Covering
    <2>2. b.start \in Nat /\ b.end \in Nat /\ c.start \in Nat /\ c.end \in Nat
      BY <1>5, <2>1, BillingFacts
    <2>3. ~(b.end <= c.start) /\ ~(c.end <= b.start)
      BY <1>6, <1>7, <2>1, <2>2
    <2> QED BY <1>5, <2>1, <2>3, BillingFacts
  <1>10. Covering(r) = {b}
    BY <1>8, <1>9
  <1> QED BY <1>4, <1>5, <1>8, <1>10, ObservedRows

\* The row of an interval.
RowOf(e) == CHOOSE r \in rows : r.start < now /\ ~r.conflict /\ e = EvidenceOf(r)

\* An interval has such a row, with its bounds and energy.
LEMMA RowOfInterval ==
  ASSUME CoverageInv, NEW e \in Intervals(LoadEvidence)
  PROVE  LET r == RowOf(e)
         IN /\ r \in rows /\ r.start < now /\ ~r.conflict /\ e = EvidenceOf(r)
            /\ r.start = e.start /\ r.end = e.end /\ r.kwh = e.kwh
            /\ r.start \in Nat /\ r.end \in Nat /\ r.start < r.end /\ r.kwh \in Nat
            /\ (e.attributable <=> AssignmentCovers(LoadAssignments, r.dev, r.start, r.end))
  <1>1. \E r \in rows : r.start < now /\ ~r.conflict /\ e = EvidenceOf(r)
    BY IntervalRows DEF Intervals
  <1> DEFINE r == RowOf(e)
  <1>2. r \in rows /\ r.start < now /\ ~r.conflict /\ e = EvidenceOf(r)
    BY <1>1, Zenon DEF RowOf
  <1> HIDE DEF r
  <1>3. /\ e.start = r.start /\ e.end = r.end /\ e.kwh = r.kwh
        /\ (e.attributable <=> AssignmentCovers(LoadAssignments, r.dev, r.start, r.end))
    BY <1>2, EvidenceOfRow
  <1>4. r.start \in Nat /\ r.end \in Nat /\ r.start < r.end /\ r.kwh \in Nat
    BY <1>2, CoverageAssumption DEF CoverageInv, Row
  <1> QED BY <1>2, <1>3, <1>4 DEF r

\* A row without a conflict is an interval.
LEMMA IntervalOfRow ==
  ASSUME CoverageInv, NEW r \in rows, r.start < now, ~r.conflict
  PROVE  /\ EvidenceOf(r) \in Intervals(LoadEvidence)
         /\ EvidenceOf(r).start = r.start /\ EvidenceOf(r).end = r.end
         /\ EvidenceOf(r).kwh = r.kwh
  <1>1. EvidenceOf(r) \in LoadEvidence
    BY DEF LoadEvidence
  <1>2. /\ EvidenceOf(r).barrier = "none" /\ EvidenceOf(r).start = r.start
        /\ EvidenceOf(r).end = r.end /\ EvidenceOf(r).kwh = r.kwh
    BY EvidenceOfRow
  <1> QED BY <1>1, <1>2 DEF Intervals

\* What proves a period, with no late overlap.
LEMMA BestOfWindow ==
  ASSUME CoverageInv, NoLateOverlap(LoadEvidence), NEW period \in {MonthStart, TodayStart}
  PROVE  \E T, f : /\ Best(T, f, period, LoadEvidence) /\ Window(period).kwh = KwhSum(T)
                   /\ T \in SUBSET Intervals(LoadEvidence) /\ Metered(T)
                   /\ \A e \in T : period <= e.start /\ e.end <= now /\ e.attributable
  <1> DEFINE E == LoadEvidence
             r == Window(period)
  <1>1. PICK T : IsResult(r, T, period, E)
    BY ResultOfWindow
  <1>2. EvidenceOK(E) /\ PeriodOK(period, E) /\ NoLateOverlap(E)
    BY ResultOfWindow
  <1>3. Best(T, r.through, period, E) /\ r.kwh = KwhSum(T)
    <2> HIDE DEF E, r
    <2> QED BY <1>1, <1>2, LateHidesNothing DEF IsResult
  <1>4. T \in SUBSET Intervals(E) /\ Proves(T, period, E)
    BY <1>3 DEF Best
  <1>5. Metered(T)
    <2>1. Metered(E) /\ T \in SUBSET E
      BY <1>2, <1>4 DEF EvidenceOK, Metered, Intervals
    <2> QED BY <2>1, SubsetMetered
  <1>6. \A e \in T : period <= e.start /\ e.end <= now /\ e.attributable
    BY <1>4 DEF Proves
  <1> QED BY <1>3, <1>4, <1>5, <1>6

\* The dashboard counts the row of every interval that proves a period.
LEMMA DashboardCounts ==
  ASSUME CoverageInv, NoLateOverlap(LoadEvidence), NEW period \in {MonthStart, TodayStart}
  PROVE  Window(period).kwh <= DashboardEnergy(period)
  <1> DEFINE E == LoadEvidence
             D == {r \in NonOverlappingEnergy : period <= r.start}
  <1>0. DashboardEnergy(period) = KwhSum(D)
    BY DEF DashboardEnergy, KwhSum
  <1>1. PICK T, f : /\ Best(T, f, period, E) /\ Window(period).kwh = KwhSum(T)
                    /\ T \in SUBSET Intervals(E) /\ Metered(T)
                    /\ \A e \in T : period <= e.start /\ e.end <= now /\ e.attributable
    BY BestOfWindow
  <1>2. EvidenceOK(E) /\ PeriodOK(period, E)
    BY ResultOfWindow
  <1> HIDE DEF E
  <1> DEFINE g == [e \in T |-> RowOf(e)]
  <1>3. ASSUME NEW e \in T
        PROVE  LET r == RowOf(e)
               IN /\ r \in rows /\ r.start < now /\ ~r.conflict /\ e = EvidenceOf(r)
                  /\ r.start = e.start /\ r.end = e.end /\ r.kwh = e.kwh
                  /\ r.start \in Nat /\ r.end \in Nat /\ r.start < r.end /\ r.kwh \in Nat
                  /\ AssignmentCovers(LoadAssignments, r.dev, r.start, r.end)
    BY <1>1, RowOfInterval DEF E
  <1>4. ASSUME NEW e \in T PROVE RowOf(e) \in D
    <2> DEFINE r == RowOf(e)
    <2>1. /\ r \in rows /\ r.start < now /\ ~r.conflict /\ e = EvidenceOf(r)
          /\ r.start = e.start /\ r.end = e.end
          /\ r.start \in Nat /\ r.end \in Nat /\ r.start < r.end
          /\ AssignmentCovers(LoadAssignments, r.dev, r.start, r.end)
      BY <1>3
    <2> HIDE DEF r
    <2>2. AssignmentCovers(Assignments, r.dev, r.start, r.end)
      BY <2>1, CoversAlike
    <2>3. r \in EnergyCandidates
      BY <2>1, <2>2 DEF EnergyCandidates
    <2>4. ASSUME NEW x \in EnergyCandidates, x # r PROVE Disjoint(x, r)
      <3>1. x \in rows /\ x.start < now /\ ~x.conflict
        BY DEF EnergyCandidates
      <3>2. /\ EvidenceOf(x) \in Intervals(E)
            /\ EvidenceOf(x).start = x.start /\ EvidenceOf(x).end = x.end
        BY <3>1, IntervalOfRow DEF E
      <3>3. EvidenceOf(x) # e
        BY <2>1, <2>4, <3>1, EvidenceTellsRows
      <3>4. Disjoint(EvidenceOf(x), e)
        BY <1>1, <1>2, <3>2, <3>3, TileDisjoint
      <3> QED BY <2>1, <3>2, <3>4 DEF Disjoint
    <2>5. r \in UniqueEnergyIntervals
      <3>1. ASSUME NEW x \in EnergyCandidates, x # r PROVE <<x.start, x.end>> # <<r.start, r.end>>
        <4>1. Disjoint(x, r)
          BY <2>4, <3>1
        <4> QED BY <2>1, <4>1 DEF Disjoint
      <3> QED BY <2>3, <3>1 DEF UniqueEnergyIntervals
    <2>6. UniqueEnergyIntervals \subseteq EnergyCandidates
      BY DEF UniqueEnergyIntervals
    <2>7. r \in NonOverlappingEnergy
      BY <2>4, <2>5, <2>6 DEF NonOverlappingEnergy
    <2> QED BY <1>1, <2>1, <2>7 DEF r
  <1>5. Renames(g, T)
    <2>1. \A e \in T : g[e] = RowOf(e)
      OBVIOUS
    <2> HIDE DEF g
    <2>2. \A e, x \in T : g[e] = g[x] => e = x
      BY <1>3, <2>1
    <2>3. \A e \in T : g[e].kwh = e.kwh
      BY <1>3, <2>1
    <2> QED BY <2>2, <2>3 DEF Renames
  <1>6. {g[e] : e \in T} \in SUBSET D
    BY <1>4
  <1>7. Metered(D)
    <2>1. D \in SUBSET rows
      BY DEF NonOverlappingEnergy, UniqueEnergyIntervals, EnergyCandidates
    <2>2. Metered(rows)
      BY DEF CoverageInv, Row, Metered
    <2> HIDE DEF D
    <2> QED BY <2>1, <2>2, SubsetMetered
  <1> HIDE DEF g, D
  <1>8. KwhSum({g[e] : e \in T}) = KwhSum(T)
    BY <1>1, <1>5, SumOfImage
  <1>9. KwhSum({g[e] : e \in T}) <= KwhSum(D)
    BY <1>6, <1>7, SumOfSubset
  <1> QED BY <1>0, <1>1, <1>8, <1>9

\* Intervals that do not overlap are told apart by their bounds.
LEMMA ObservedApart ==
  ASSUME NEW E, EvidenceOK(E), NEW period, PeriodOK(period, E),
         NEW T, NEW f, Best(T, f, period, E)
  PROVE  \A e, x \in T : Observed(e) = Observed(x) => e = x
  <1> SUFFICES ASSUME NEW e \in T, NEW x \in T, Observed(e) = Observed(x) PROVE e = x
    OBVIOUS
  <1>1. e.start = x.start /\ e.end = x.end
    BY DEF Observed
  <1>2. T \in SUBSET Intervals(E)
    BY DEF Best
  <1>3. e.start \in Nat /\ e.end \in Nat /\ e.start < e.end /\ x \in Intervals(E)
    BY <1>2 DEF Intervals, EvidenceOK
  <1>4. ~Disjoint(e, x)
    BY <1>1, <1>3 DEF Disjoint
  <1> QED BY <1>3, <1>4, TileDisjoint

\* The bill counts the observation of every interval that proves the month.
LEMMA BillCounts ==
  ASSUME CoverageInv, NoLateOverlap(LoadEvidence)
  PROVE  Window(MonthStart).kwh <= EvaluateObserved(Observations).kwh
  <1> DEFINE E == LoadEvidence
             D == Uncontested(Observations)
  <1>0. EvaluateObserved(Observations).kwh = KwhSum(D)
    BY ObservedResult
  <1>1. PICK T, f : /\ Best(T, f, MonthStart, E) /\ Window(MonthStart).kwh = KwhSum(T)
                    /\ T \in SUBSET Intervals(E) /\ Metered(T)
                    /\ \A e \in T : MonthStart <= e.start /\ e.end <= now /\ e.attributable
    BY BestOfWindow
  <1>2. EvidenceOK(E) /\ PeriodOK(MonthStart, E)
    BY ResultOfWindow
  <1> HIDE DEF E
  <1> DEFINE g == [e \in T |-> Observed(e)]
  <1>3. ASSUME NEW e \in T PROVE Observed(e) \in D
    <2> DEFINE r == RowOf(e)
    <2>1. /\ r \in rows /\ r.start < now /\ ~r.conflict /\ e = EvidenceOf(r)
          /\ r.start = e.start /\ r.end = e.end /\ r.kwh = e.kwh
          /\ AssignmentCovers(LoadAssignments, r.dev, r.start, r.end)
      BY <1>1, RowOfInterval DEF E
    <2> HIDE DEF r
    <2>2. r.end <= now
      BY <1>1, <2>1
    <2>3. Verdict(r) = "observed"
      BY <2>1, <2>2, AttributedIsObserved
    <2>4. Observed(e) = Observed(r)
      BY <2>1 DEF Observed
    <2>5. Observed(e) \in Observations
      BY <2>1, <2>3, <2>4, ObservationFacts DEF Usable
    <2>6. ASSUME NEW o \in Observations \ {Observed(e)} PROVE Disjoint(Observed(e), o)
      <3>1. PICK x \in Usable : o = Observed(x)
        BY ObservationFacts
      <3>2. x \in rows /\ x.start < now /\ ~x.conflict
        BY ObservedRows DEF Usable
      <3>3. /\ EvidenceOf(x) \in Intervals(E) /\ EvidenceOf(x).start = x.start
            /\ EvidenceOf(x).end = x.end /\ EvidenceOf(x).kwh = x.kwh
        BY <3>2, IntervalOfRow DEF E
      <3>4. EvidenceOf(x) # e
        BY <2>6, <3>1, <3>3 DEF Observed
      <3>5. Disjoint(e, EvidenceOf(x))
        BY <1>1, <1>2, <3>3, <3>4, TileDisjoint
      <3> QED BY <3>1, <3>3, <3>5 DEF Disjoint, Observed
    <2> QED BY <2>5, <2>6 DEF Uncontested
  <1>4. Renames(g, T)
    <2>1. \A e \in T : g[e] = Observed(e)
      OBVIOUS
    <2> HIDE DEF g
    <2>2. \A e, x \in T : g[e] = g[x] => e = x
      <3>1. Best(T, f, MonthStart, E)
        BY <1>1
      <3>2. \A e, x \in T : Observed(e) = Observed(x) => e = x
        BY <1>2, <3>1, ObservedApart
      <3> QED BY <2>1, <3>2
    <2>3. \A e \in T : g[e].kwh = e.kwh
      <3>1. \A e \in T : Observed(e).kwh = e.kwh
        BY DEF Observed
      <3> QED BY <2>1, <3>1
    <2> QED BY <2>2, <2>3 DEF Renames
  <1>5. {g[e] : e \in T} \in SUBSET D
    BY <1>3
  <1>6. Metered(D)
    <2>1. D \in SUBSET Observations /\ Metered(Observations)
      BY ObservationFacts DEF Uncontested
    <2> HIDE DEF D
    <2> QED BY <2>1, SubsetMetered
  <1> HIDE DEF g, D
  <1>7. KwhSum({g[e] : e \in T}) = KwhSum(T)
    BY <1>1, <1>4, SumOfImage
  <1>8. KwhSum({g[e] : e \in T}) <= KwhSum(D)
    BY <1>5, <1>6, SumOfSubset
  <1> QED BY <1>0, <1>1, <1>7, <1>8

\* What is proven is counted.
LEMMA CountedHolds ==
  ASSUME CoverageInv
  PROVE  ProvenIsCounted
  BY DashboardCounts, BillCounts DEF ProvenIsCounted

\* What the absence of warnings says.
LEMMA NoWarningFacts ==
  ASSUME CoverageInv, Warnings = {}
  PROVE  /\ \A r \in rows : r.start < now => Verdict(r) = "observed"
         /\ \A t \in legacy : ~(t < now)
         /\ ~EvaluateObserved(Observations).overlap
         /\ ~(EvaluateObserved(Observations).duration < ExpectedDuration)
  <1> DEFINE observed == EvaluateObserved(Observations)
             A == {Verdict(r) : r \in {x \in rows : x.start < now}} \ {"observed"}
             B == {"LEGACY" : t \in {x \in legacy : x < now}}
             C == IF observed.overlap THEN {"OVERLAPPING"} ELSE {}
             D == IF observed.duration < ExpectedDuration THEN {"PARTIAL"} ELSE {}
  <1>1. Warnings = A \cup B \cup C \cup D
    BY DEF Warnings
  <1> HIDE DEF observed
  <1>2. A = {} /\ B = {} /\ C = {} /\ D = {}
    <2> HIDE DEF A, B, C, D
    <2> QED BY <1>1
  <1>3. \A r \in rows : r.start < now => Verdict(r) = "observed"
    BY <1>2
  <1>4. \A t \in legacy : ~(t < now)
    BY <1>2
  <1>5. ~observed.overlap
    BY <1>2
  <1>6. ~(observed.duration < ExpectedDuration)
    BY <1>2
  <1> QED BY <1>3, <1>4, <1>5, <1>6 DEF observed

\* Without a warning, coverage that reaches now adds up the same energy.
LEMMA SameEnergy ==
  ASSUME CoverageInv, Warnings = {}, Window(MonthStart).through = now
  PROVE  Window(MonthStart).kwh = KwhSum(Observations)
  <1> DEFINE E == LoadEvidence
             r == Window(MonthStart)
             g == [e \in E |-> Observed(e)]
  <1>1. PICK T : IsResult(r, T, MonthStart, E)
    BY ResultOfWindow
  <1>2. EvidenceOK(E) /\ PeriodOK(MonthStart, E) /\ Metered(E)
    BY ResultOfWindow DEF EvidenceOK, Metered
  <1>3. \A x \in rows : x.start < now =>
            x \in Usable /\ Verdict(x) = "observed" /\ ~x.conflict /\ x.end <= now
    BY NoWarningFacts, ObservedRows DEF Usable
  <1>4. E = {EvidenceOf(x) : x \in Usable} /\ Usable \subseteq rows
    <2>1. {x \in legacy : x < now} = {}
      BY NoWarningFacts
    <2>2. {x \in rows : x.start < now} = Usable
      BY <1>3 DEF Usable
    <2> QED BY <2>1, <2>2 DEF LoadEvidence, Usable
  <1>5. ASSUME NEW x \in Usable
        PROVE  /\ EvidenceOf(x) \in Intervals(E) /\ Observed(EvidenceOf(x)) = Observed(x)
               /\ EvidenceOf(x).start < now /\ EvidenceOf(x).end <= now
    <2>1. x \in rows /\ x.start < now
      BY DEF Usable
    <2>2. ~x.conflict /\ x.end <= now
      BY <1>3, <2>1
    <2>3. /\ EvidenceOf(x) \in Intervals(E) /\ EvidenceOf(x).start = x.start
          /\ EvidenceOf(x).end = x.end /\ EvidenceOf(x).kwh = x.kwh
      BY <2>1, <2>2, IntervalOfRow
    <2> QED BY <2>1, <2>2, <2>3 DEF Observed
  <1>6. {g[e] : e \in E} = Observations
    <2>1. \A e \in E : g[e] = Observed(e)
      OBVIOUS
    <2> HIDE DEF g, E
    <2>2. Observations = {Observed(x) : x \in Usable}
      BY ObservationFacts
    <2>3. {g[e] : e \in E} = {g[EvidenceOf(x)] : x \in Usable}
      BY <1>4
    <2>4. \A x \in Usable : EvidenceOf(x) \in E
      BY <1>4
    <2>5. \A x \in Usable : g[EvidenceOf(x)] = Observed(x)
      BY <1>5, <2>1, <2>4
    <2> QED BY <2>2, <2>3, <2>5
  <1> HIDE DEF E, r
  <1>7. \A e \in E : e \in Intervals(E) /\ e.start < now /\ e.end <= now
    BY <1>4, <1>5
  <1>8. now \in Nat /\ MonthStart = 1
    BY AssignmentFacts DEF MonthStart
  <1>9. Early(E) = E
    <2>1. \A e \in E : ~(e.end > now)
      BY <1>2, <1>7, <1>8 DEF EvidenceOK
    <2>2. Late(E) = {}
      BY <2>1 DEF Late
    <2> QED BY <2>2 DEF Early
  <1>10. Best(T, now, MonthStart, E) /\ r.kwh = KwhSum(T)
    BY <1>1, <1>9 DEF IsResult, r
  <1>11. T = E
    <2>1. E \in SUBSET E /\ T \in SUBSET Intervals(E) /\ Proves(T, MonthStart, E)
          /\ Through(T, MonthStart) = now
      BY <1>10 DEF Best
    <2>2. \A x \in Intervals(E) : x \in T <=> x.start < now /\ MonthStart < x.end
      BY <1>2, <2>1, ProvesFacts
    <2>3. ASSUME NEW e \in E PROVE e \in T
      <3>1. e \in Intervals(E) /\ e.start < now
        BY <1>7
      <3>2. e.start \in Nat /\ e.end \in Nat /\ e.start < e.end
        BY <1>2, <3>1 DEF EvidenceOK, Intervals
      <3>3. ~(e.start < 1 /\ 1 < e.end)
        BY <1>2, <1>8, <3>1 DEF PeriodOK
      <3>4. e.start >= 1
        <4>1. CASE e.start = 0
          <5>1. PICK x \in Usable : e = EvidenceOf(x)
            BY <1>4
          <5>2. x \in rows
            BY <1>4
          <5>3. e.start = x.start /\ x.start \in 1..MaxTime
            BY <5>1, <5>2, EvidenceOfRow DEF CoverageInv, Row
          <5> QED BY <4>1, <5>3
        <4> QED BY <3>2, <4>1
      <3> QED BY <1>8, <2>2, <3>1, <3>2, <3>4
    <2> QED BY <2>1, <2>3 DEF Intervals
  <1>12. Renames(g, E)
    <2>1. \A e \in E : g[e] = Observed(e)
      OBVIOUS
    <2> HIDE DEF g
    <2>2. \A e, x \in E : g[e] = g[x] => e = x
      <3>1. Best(E, now, MonthStart, E)
        BY <1>10, <1>11
      <3>2. \A e, x \in E : Observed(e) = Observed(x) => e = x
        BY <1>2, <3>1, ObservedApart
      <3> QED BY <2>1, <3>2
    <2>3. \A e \in E : g[e].kwh = e.kwh
      <3>1. \A e \in E : Observed(e).kwh = e.kwh
        BY DEF Observed
      <3> QED BY <2>1, <3>1
    <2> QED BY <2>2, <2>3 DEF Renames
  <1> HIDE DEF g
  <1>13. KwhSum({g[e] : e \in E}) = KwhSum(E)
    BY <1>2, <1>12, SumOfImage
  <1> QED BY <1>6, <1>10, <1>11, <1>13 DEF r

\* A bill without a warning is complete.
LEMMA CompleteHolds ==
  ASSUME CoverageInv
  PROVE  NoWarningMeansComplete
  <1> SUFFICES ASSUME Warnings = {}
               PROVE  LET result == EvaluateObserved(Observations)
                          month == Window(MonthStart)
                      IN /\ UNION {Instants(i) : i \in result.accepted}
                                = UNION {Instants(a) : a \in BillingAssignments}
                         /\ \A r \in rows : r.start < now =>
                                [start |-> r.start, end |-> r.end, kwh |-> r.kwh] \in result.accepted
                         /\ month.through = now => month.kwh = result.kwh
    BY DEF NoWarningMeansComplete
  <1> DEFINE result == EvaluateObserved(Observations)
             A == UNION {Instants(o) : o \in Observations}
             B == UNION {Instants(a) : a \in BillingAssignments}
  <1>1. ~result.overlap /\ ~(result.duration < ExpectedDuration)
    BY NoWarningFacts
  <1>2. /\ result.accepted = Observations /\ result.kwh = KwhSum(Observations)
        /\ IsFiniteSet(A) /\ result.duration = Cardinality(A)
    BY <1>1, ObservedResult
  <1>3. IsFiniteSet(B) /\ ExpectedDuration = Cardinality(B)
    BY ExpectedResult
  <1>4. A \in SUBSET B
    BY ObservedWithin
  <1> HIDE DEF result
  <1>5. A = B
    <2> HIDE DEF A, B
    <2>1. Cardinality(A) \in Nat /\ Cardinality(B) \in Nat
      BY <1>2, <1>3, FS_CardinalityType
    <2>2. Cardinality(A) <= Cardinality(B) /\ (Cardinality(B) = Cardinality(A) => B = A)
      BY <1>3, <1>4, FS_Subset
    <2> QED BY <1>1, <1>2, <1>3, <2>1, <2>2
  <1>6. ASSUME NEW r \in rows, r.start < now
        PROVE  [start |-> r.start, end |-> r.end, kwh |-> r.kwh] \in Observations
    <2>1. r \in Usable
      BY <1>6, NoWarningFacts DEF Usable
    <2> QED BY <2>1, ObservationFacts DEF Observed
  <1>7. Window(MonthStart).through = now => Window(MonthStart).kwh = KwhSum(Observations)
    BY SameEnergy
  <1> QED BY <1>2, <1>5, <1>6, <1>7 DEF result

\* Coverage, dashboard and bill agree in every state.
THEOREM ReadersStayAgreed == CoverageSpec => []ReadersAgree
  <1>1. CoverageInv => ReadersAgree
    BY WatermarkHolds, OrderHolds, TodayHolds, UncontestedHolds, WithinExpectedHolds,
       CompleteHolds, CountedHolds DEF ReadersAgree
  <1> QED BY <1>1, RowsInv, PTL
=============================================================================
