--------------------------- MODULE CountingLemmas ---------------------------
(***************************************************************************)
(* Facts about finite sets of numbers that several proofs need and that    *)
(* the library has in no form its provers can use here: the initial        *)
(* segments of 1..n, and the greatest and the least of a set.              *)
(***************************************************************************)
EXTENDS Integers, FiniteSets, FiniteSetsExt, FiniteSetTheorems, TLAPS

\* A set of positive numbers up to n that has, with each, all smaller ones, is
\* the segment of its size: what a resume finds of completed rounds is a count.
LEMMA InitialSegment ==
    ASSUME NEW n \in Nat, NEW S \in SUBSET (1..n),
           \A x \in S : \A y \in 1..x : y \in S
    PROVE  Cardinality(S) \in 0..n /\ S = 1..Cardinality(S)
  <1> DEFINE k == Cardinality(S)
  <1>1. IsFiniteSet(1..n) /\ Cardinality(1..n) = n
    BY FS_Interval
  <1>2. IsFiniteSet(S) /\ k \in Nat /\ k <= n
    BY <1>1, FS_Subset, FS_CardinalityType, ZenonT(30)
  <1>3. \A x \in S : x <= k
    <2> SUFFICES ASSUME NEW x \in S
                 PROVE  x <= k
      OBVIOUS
    <2>1. IsFiniteSet(1..x) /\ Cardinality(1..x) = x
      BY FS_Interval
    <2>2. 1..x \in SUBSET S
      OBVIOUS
    <2>3. Cardinality(1..x) <= k
      BY <1>2, <2>2, FS_Subset
    <2>4. QED
      BY <2>1, <2>3
  <1>4. IsFiniteSet(1..k) /\ Cardinality(1..k) = k
    BY <1>2, FS_Interval
  <1>5. S \in SUBSET (1..k)
    BY <1>2, <1>3
  <1>6. S = 1..k
    BY <1>4, <1>5, FS_Subset
  <1>7. QED
    BY <1>2, <1>6

\* A set of positive numbers up to n has a greatest one.
LEMMA GreatestIn ==
    ASSUME NEW n \in Nat, NEW S \in SUBSET (1..n), S # {}
    PROVE  /\ Max(S) \in S
           /\ \A x \in S : x <= Max(S)
  <1> DEFINE D == {x \in 1..n : \E y \in S : x <= y}
             k == Cardinality(D)
  <1>1. \A x \in D : \A y \in 1..x : y \in D
    OBVIOUS
  <1>2. D \in SUBSET (1..n)
    OBVIOUS
  <1>3. k \in 0..n /\ D = 1..k
    BY <1>1, <1>2, InitialSegment
  <1>4. S \subseteq D
    OBVIOUS
  <1>5. k \in D
    <2>1. D # {}
      BY <1>4
    <2> HIDE DEF D, k
    <2>2. k \in 1..k
      BY <1>3, <2>1
    <2>3. QED
      BY <1>3, <2>2
  <1>6. k \in S /\ \A x \in S : x <= k
    <2> HIDE DEF k
    <2>1. PICK y \in S : k <= y
      BY <1>5
    <2>2. \A x \in S : x <= k
      BY <1>3, <1>4
    <2>3. QED
      BY <1>3, <2>1, <2>2
  <1>7. \E x \in S : \A y \in S : x >= y
    BY <1>6
  <1>8. QED
    BY <1>7 DEF Max

\* A set of numbers up to n has a least one.
LEMMA LeastIn ==
    ASSUME NEW n \in Nat, NEW S \in SUBSET (0..n), S # {}
    PROVE  \E x \in S : \A y \in S : x <= y
  <1> DEFINE m == n + 1
             T == {m - x : x \in S}
  <1>1. T \in SUBSET (1..m) /\ T # {} /\ m \in Nat
    <2>1. \A x \in S : m - x \in 1..m
      OBVIOUS
    <2>2. m \in Nat
      OBVIOUS
    <2> HIDE DEF m
    <2>3. T \in SUBSET (1..m)
      BY <2>1
    <2>4. T # {}
      OBVIOUS
    <2>5. QED
      BY <2>2, <2>3, <2>4
  <1>2. Max(T) \in T /\ \A t \in T : t <= Max(T)
    <2> HIDE DEF T, m
    <2>1. QED
      BY <1>1, GreatestIn
  <1>3. PICK x \in S : Max(T) = m - x
    BY <1>2
  <1>4. \A y \in S : m - y <= m - x
    BY <1>2, <1>3
  <1>5. \A y \in S : x <= y
    BY <1>4
  <1>6. QED
    BY <1>5

\* Two sets between which a function goes one to one have the same size.
LEMMA SameSize ==
    ASSUME NEW S, NEW T, IsFiniteSet(S), NEW f \in [S -> T],
           \A x, y \in S : f[x] = f[y] => x = y,
           \A t \in T : \E x \in S : f[x] = t
    PROVE  IsFiniteSet(T) /\ Cardinality(T) = Cardinality(S)
  <1>1. f \in Bijection(S, T)
    BY DEF Bijection, Injection, Surjection, IsInjective
  <1>2. QED
    BY <1>1, FS_Bijection DEF ExistsBijection

\* Removing nothing from a part that is as large as the whole: the part is
\* the whole.
LEMMA PartOfSameSize ==
    ASSUME NEW S, IsFiniteSet(S), NEW T \in SUBSET S, Cardinality(T) >= Cardinality(S)
    PROVE  T = S
  <1>1. IsFiniteSet(T) /\ Cardinality(T) <= Cardinality(S)
    BY FS_Subset
  <1>2. Cardinality(T) = Cardinality(S)
    BY <1>1, FS_CardinalityType
  <1>3. QED
    BY <1>2, FS_Subset

\* A set of numbers has a least one.
LEMMA LeastNat ==
    ASSUME NEW S \in SUBSET Nat, S # {}
    PROVE  \E x \in S : \A y \in S : x <= y
  <1>1. PICK z \in S : z \in Nat
    OBVIOUS
  <1> DEFINE T == S \cap (0..z)
  <1>2. T \in SUBSET (0..z) /\ T # {}
    BY <1>1
  <1>3. PICK x \in T : \A y \in T : x <= y
    <2> HIDE DEF T
    <2>1. QED
      BY <1>1, <1>2, LeastIn
  <1>4. \A y \in S : y \in T \/ z < y
    BY <1>1
  <1>5. x \in Nat /\ z \in Nat /\ x <= z
    BY <1>1, <1>3
  <1>6. \A y \in S : x <= y
    BY <1>3, <1>4, <1>5
  <1>7. QED
    BY <1>3, <1>6

\* Of things ranked by different numbers, those with fewer than k above them
\* are no more than k: what a retention keeps.
LEMMA TopFew ==
    ASSUME NEW E, IsFiniteSet(E), NEW f \in [E -> Nat], NEW k \in Nat,
           \A x, y \in E : f[x] = f[y] => x = y
    PROVE  Cardinality({x \in E : Cardinality({y \in E : f[y] > f[x]}) < k}) <= k
  <1> DEFINE above(x) == {y \in E : f[y] > f[x]}
             T == {x \in E : Cardinality(above(x)) < k}
             ranks == {f[x] : x \in T}
  <1>1. T \in SUBSET E
    OBVIOUS
  <1>2. \A x \in E : above(x) \in SUBSET E
    OBVIOUS
  <1>3. \A x \in T : x \in E /\ Cardinality(above(x)) < k
    OBVIOUS
  <1>4. \A x \in E, y \in E : f[x] < f[y] => y \in above(x)
    OBVIOUS
  <1> HIDE DEF above, T
  <1>5. IsFiniteSet(T)
    BY <1>1, FS_Subset
  <1>6. CASE T = {}
    <2>1. Cardinality(T) = 0
      BY <1>6, FS_EmptySet
    <2>2. QED
      BY <2>1 DEF T, above
  <1>7. CASE T # {}
    <2>1. ranks \in SUBSET Nat /\ ranks # {}
      BY <1>1, <1>7
    <2>2. PICK least \in ranks : \A n \in ranks : least <= n
      BY <2>1, LeastNat
    <2>3. PICK t \in T : f[t] = least
      BY <2>2
    <2>4. \A x \in T : x # t => f[t] < f[x]
      BY <1>1, <2>1, <2>2, <2>3
    <2>5. T \ {t} \in SUBSET above(t)
      BY <1>1, <1>4, <2>4
    <2>6. IsFiniteSet(above(t)) /\ Cardinality(above(t)) \in Nat
      BY <1>1, <1>2, FS_Subset, FS_CardinalityType
    <2>7. Cardinality(T \ {t}) <= Cardinality(above(t))
      BY <2>5, <2>6, FS_Subset
    <2>8. Cardinality(T \ {t}) = Cardinality(T) - 1
      BY <1>5, FS_RemoveElement
    <2>9. Cardinality(above(t)) < k /\ Cardinality(T) \in Nat
      BY <1>3, <1>5, FS_CardinalityType
    <2>10. Cardinality(T) - 1 <= Cardinality(above(t))
      BY <2>7, <2>8, Zenon
    <2>11. Cardinality(T) <= k
      BY <2>6, <2>9, <2>10
    <2>12. QED
      BY <2>11 DEF T, above
  <1>8. QED
    BY <1>6, <1>7

\* In a set of numbers there is one of every rank up to its size.
LEMMA HasRank ==
    ASSUME NEW n \in Nat, NEW S \in SUBSET (1..n), NEW k \in Nat, 1 <= k, k <= Cardinality(S)
    PROVE  \E i \in S : Cardinality({j \in S : j <= i}) = k
  <1> DEFINE upto(x) == {j \in S : j <= x}
             size(x) == Cardinality(upto(x))
  <1>1. IsFiniteSet(1..n) /\ Cardinality(1..n) = n
    BY FS_Interval
  <1>2. IsFiniteSet(S) /\ Cardinality(S) \in Nat /\ Cardinality(S) <= n
    BY <1>1, FS_Subset, FS_CardinalityType, ZenonT(30)
  <1>3. n \in 1..n
    BY <1>2
  <1>4. \A x : upto(x) \in SUBSET S
    OBVIOUS
  <1>5. upto(n) = S /\ upto(0) = {}
    <2>1. \A j \in S : j \in 1..n
      OBVIOUS
    <2>2. \A j \in S : j <= n /\ ~(j <= 0)
      BY <2>1
    <2>3. QED
      BY <2>2
  <1>6. \A x \in 1..n : x \notin S => upto(x) = upto(x - 1)
    <2>1. ASSUME NEW x \in 1..n, x \notin S, NEW j \in S
          PROVE  j <= x <=> j <= x - 1
      <3>1. j \in 1..n /\ j # x
        BY <2>1
      <3>2. QED
        BY <3>1
    <2>2. QED
      BY <2>1
  <1>7. ASSUME NEW x \in S
        PROVE  upto(x) = upto(x - 1) \cup {x} /\ x \notin upto(x - 1)
    <2>1. x \in 1..n /\ ~(x <= x - 1) /\ x <= x
      OBVIOUS
    <2>2. \A j \in S : j <= x <=> j <= x - 1 \/ j = x
      <3>1. \A j \in S : j \in 1..n
        OBVIOUS
      <3>2. QED
        BY <2>1, <3>1
    <2>3. QED
      BY <2>1, <2>2
  <1> HIDE DEF upto
  <1>8. \A x : IsFiniteSet(upto(x)) /\ size(x) \in Nat
    BY <1>2, <1>4, FS_Subset, FS_CardinalityType
  <1>9. size(n) = Cardinality(S) /\ size(0) = 0
    BY <1>5, FS_EmptySet
  <1>10. \A x \in S : size(x) = size(x - 1) + 1
    BY <1>7, <1>8, FS_AddElement
  <1>11. \A x \in 1..n : x \notin S => size(x) = size(x - 1)
    BY <1>6
  <1> HIDE DEF size
  <1> DEFINE D == {x \in 1..n : k <= size(x)}
  <1>12. D \in SUBSET Nat /\ n \in D
    BY <1>3, <1>9
  <1>13. PICK x \in D : \A y \in D : x <= y
    <2> HIDE DEF D
    <2>1. QED
      BY <1>12, LeastNat
  <1>14. x \in 1..n /\ k <= size(x) /\ (x - 1 = 0 \/ x - 1 \in 1..n)
    OBVIOUS
  <1>15. size(x - 1) < k
    <2>1. CASE x - 1 = 0
      BY <1>9, <2>1
    <2>2. CASE x - 1 \in 1..n
      <3>1. x - 1 \notin D
        <4> HIDE DEF D
        <4>1. QED
          BY <1>13, <1>14, <2>2
      <3>2. ~(k <= size(x - 1)) /\ size(x - 1) \in Nat
        BY <1>8, <2>2, <3>1 DEF size
      <3>3. QED
        BY <3>2
    <2>3. QED
      BY <1>14, <2>1, <2>2
  <1> HIDE DEF D
  <1>16. size(x) \in Nat /\ size(x - 1) \in Nat
    BY <1>8 DEF size
  <1>17. x \in S
    BY <1>11, <1>14, <1>15, <1>16
  <1>18. size(x) = k
    BY <1>10, <1>14, <1>15, <1>16, <1>17
  <1>19. QED
    BY <1>17, <1>18 DEF size, upto
=============================================================================
