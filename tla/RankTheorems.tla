------------------------------ MODULE RankTheorems ------------------------------
(***************************************************************************)
(* Least and greatest elements of sets of numbers, the k-th number and the *)
(* median: what the proofs about medians and other choices of one number   *)
(* among several rest on.                                                  *)
(***************************************************************************)
EXTENDS Ranks, Sums, FiniteSetTheorems, NaturalsInduction, TLAPS

\* A set of naturals has a least element: what the searches of the code for a
\* lowest block, time or position find.
LEMMA LeastExists ==
    ASSUME NEW S, S \subseteq Nat, S # {}
    PROVE  \E x \in S : \A y \in S : x <= y
<1>1. IsWellFoundedOn(OpToRel(<, Nat), Nat)
  BY NatLessThanWellFounded
<1>2. \E x \in S : \A y \in S : ~(<<y, x>> \in OpToRel(<, Nat))
  BY <1>1, WFMin
<1>3. \A x, y \in Nat : <<y, x>> \in OpToRel(<, Nat) <=> y < x
  BY DEF OpToRel
<1>4. PICK x \in S : \A y \in S : ~(<<y, x>> \in OpToRel(<, Nat))
  BY <1>2, Zenon
<1>5. \A y \in S : ~(y < x)
  BY <1>3, <1>4, Zenon
<1>6. \A y \in S : x <= y
  BY <1>5
<1> QED BY <1>6

\* A finite set of numbers has a greatest element.  A smallest subset without
\* one would have one less element than a set that has one.
LEMMA GreatestExists ==
    ASSUME NEW S, IsFiniteSet(S), S \subseteq Int, S # {}
    PROVE  \E x \in S : \A y \in S : y <= x
<1> DEFINE HasGreatest(T) == \E x \in T : \A y \in T : y <= x
           Bad == {n \in Nat : \E T \in SUBSET S :
                                  T # {} /\ Cardinality(T) = n /\ ~HasGreatest(T)}
<1>1. SUFFICES ASSUME ~HasGreatest(S) PROVE FALSE
  OBVIOUS
<1>2. Cardinality(S) \in Bad
  BY <1>1, FS_CardinalityType
<1>3. PICK n \in Bad : \A k \in Bad : n <= k
  <2>1. Bad \subseteq Nat
    OBVIOUS
  <2>2. Bad # {}
    BY <1>2
  <2> HIDE DEF Bad
  <2> QED BY <2>1, <2>2, LeastExists
<1>4. PICK T \in SUBSET S : T # {} /\ Cardinality(T) = n /\ ~HasGreatest(T)
  BY <1>3
<1>5. PICK x \in T : TRUE
  BY <1>4
<1> DEFINE U == T \ {x}
<1>6. IsFiniteSet(T) /\ IsFiniteSet(U)
  BY FS_Subset
<1>7. Cardinality(U) = n - 1 /\ Cardinality(U) \in Nat
  BY <1>4, <1>5, <1>6, FS_RemoveElement, FS_CardinalityType
<1>8. Cardinality(U) \notin Bad
  <2>1. n \in Nat
    BY <1>3
  <2> HIDE DEF Bad, U
  <2> QED BY <1>3, <1>7, <2>1
<1>9. CASE U = {}
  <2>1. T = {x}
    BY <1>5, <1>9
  <2>2. x \in Int
    BY <1>5
  <2> QED BY <1>4, <2>1, <2>2
<1>10. CASE U # {}
  <2>1. HasGreatest(U)
    BY <1>7, <1>8, <1>10
  <2>2. PICK z \in U : \A y \in U : y <= z
    BY <2>1
  <2>3. x \in Int /\ z \in Int /\ z \in T /\ \A y \in T : y \in Int /\ (y = x \/ y <= z)
    BY <1>5, <2>2
  <2>4. (\A y \in T : y <= z) \/ (\A y \in T : y <= x)
    BY <2>3
  <2> QED BY <1>4, <1>5, <2>3, <2>4
<1> QED BY <1>9, <1>10

-----------------------------------------------------------------------------
\* The numbers below x and up to x are among the numbers.
LEMMA RanksFinite ==
    ASSUME NEW I, IsFiniteSet(I), NEW f, NEW x
    PROVE  /\ IsFiniteSet(Below(f, I, x)) /\ Cardinality(Below(f, I, x)) \in Nat
           /\ IsFiniteSet(UpTo(f, I, x)) /\ Cardinality(UpTo(f, I, x)) \in Nat
           /\ Cardinality(I) \in Nat
<1>1. Below(f, I, x) \in SUBSET I /\ UpTo(f, I, x) \in SUBSET I
  BY DEF Below, UpTo
<1>2. IsFiniteSet(Below(f, I, x)) /\ IsFiniteSet(UpTo(f, I, x))
  BY <1>1, FS_Subset
<1> QED BY <1>2, FS_CardinalityType

\* The k-th number is one of the numbers, fewer than k are below it and at least
\* k are not above it: the least x with k numbers up to it is such a number.
LEMMA KthIsRanked ==
    ASSUME NEW I, IsFiniteSet(I), NEW f, \A i \in I : f[i] \in Nat,
           NEW k \in Nat, 1 <= k, k <= Cardinality(I)
    PROVE  /\ Kth(f, I, k) \in {f[i] : i \in I}
           /\ Cardinality(Below(f, I, Kth(f, I, k))) < k
           /\ Cardinality(UpTo(f, I, Kth(f, I, k))) >= k
<1> DEFINE R == {f[i] : i \in I}
           V == {v \in Nat : Cardinality(UpTo(f, I, v)) >= k}
<1>1. PICK top \in R : \A y \in R : y <= top
  <2>1. I # {}
    BY FS_EmptySet
  <2>2. R # {} /\ R \subseteq Int
    BY <2>1
  <2>3. IsFiniteSet(R)
    <3>1. [i \in I |-> f[i]] \in Surjection(I, R)
      BY DEF Surjection
    <3> QED BY <3>1, FS_Surjection
  <2> HIDE DEF R
  <2> QED BY <2>2, <2>3, GreatestExists
<1>2. top \in V
  <2>1. UpTo(f, I, top) = I /\ top \in Nat
    BY <1>1 DEF UpTo
  <2> QED BY <2>1
<1>3. PICK x \in V : \A v \in V : x <= v
  <2>1. V \subseteq Nat /\ V # {}
    BY <1>2
  <2> HIDE DEF V
  <2> QED BY <2>1, LeastExists
<1>4. x \in Nat /\ Cardinality(UpTo(f, I, x)) >= k
  BY <1>3
<1>5. Cardinality(Below(f, I, x)) < k
  <2>1. CASE x = 0
    <3>1. Below(f, I, x) = {}
      BY <2>1 DEF Below
    <3> QED BY <3>1, FS_EmptySet
  <2>2. CASE x > 0
    <3>1. x - 1 \in Nat /\ x - 1 \notin V
      BY <1>3, <1>4, <2>2
    <3>2. Below(f, I, x) = UpTo(f, I, x - 1)
      BY <1>4, <2>2 DEF Below, UpTo
    <3> QED BY <3>1, <3>2, RanksFinite
  <2> QED BY <1>4, <2>1, <2>2
<1>6. x \in R
  <2>1. SUFFICES ASSUME x \notin R PROVE FALSE
    OBVIOUS
  <2>2. UpTo(f, I, x) = Below(f, I, x)
    BY <1>4, <2>1 DEF Below, UpTo
  <2> QED BY <1>4, <1>5, <2>2, RanksFinite
<1>7. \E y \in R : Cardinality(Below(f, I, y)) < k /\ Cardinality(UpTo(f, I, y)) >= k
  BY <1>4, <1>5, <1>6
<1> HIDE DEF R
<1> DEFINE P(y) == Cardinality(Below(f, I, y)) < k /\ Cardinality(UpTo(f, I, y)) >= k
<1>9. Kth(f, I, k) = CHOOSE y \in R : P(y)
  BY DEF Kth, R
<1>10. \E y \in R : P(y)
  BY <1>7
<1>11. Kth(f, I, k) \in R /\ P(Kth(f, I, k))
  <2> HIDE DEF P
  <2> QED BY <1>9, <1>10
<1> QED BY <1>11 DEF R

\* Elements further back in the sorted numbers are not smaller.
LEMMA KthGrows ==
    ASSUME NEW I, IsFiniteSet(I), NEW f, \A i \in I : f[i] \in Nat,
           NEW j \in Nat, NEW k \in Nat, 1 <= j, j <= k, k <= Cardinality(I)
    PROVE  Kth(f, I, j) <= Kth(f, I, k)
<1> DEFINE a == Kth(f, I, j)
           b == Kth(f, I, k)
<1>1. Cardinality(I) \in Nat
  BY FS_CardinalityType
<1>2. a \in {f[i] : i \in I} /\ Cardinality(Below(f, I, a)) < j
  BY <1>1, KthIsRanked
<1>3. b \in {f[i] : i \in I} /\ Cardinality(UpTo(f, I, b)) >= k
  BY <1>1, KthIsRanked
<1>4. a \in Nat /\ b \in Nat
  BY <1>2, <1>3
<1> HIDE DEF a, b
<1>5. SUFFICES ASSUME b < a PROVE FALSE
  BY <1>4 DEF a, b
<1>6. UpTo(f, I, b) \in SUBSET Below(f, I, a)
  BY <1>4, <1>5 DEF UpTo, Below
<1>7. Cardinality(UpTo(f, I, b)) <= Cardinality(Below(f, I, a))
  BY <1>6, RanksFinite, FS_Subset
<1> QED BY <1>2, <1>3, <1>7, RanksFinite

\* Sorting loses no number: each of them has a rank.
LEMMA KthHits ==
    ASSUME NEW I, IsFiniteSet(I), NEW f, \A i \in I : f[i] \in Nat, NEW i \in I
    PROVE  \E k \in 1..Cardinality(I) : Kth(f, I, k) = f[i]
<1> DEFINE B == Below(f, I, f[i])
           k == Cardinality(B) + 1
           x == Kth(f, I, k)
<1>1. B \in SUBSET I /\ i \notin B /\ IsFiniteSet(B) /\ Cardinality(B) \in Nat /\ Cardinality(I) \in Nat
  BY RanksFinite DEF Below
<1>2. IsFiniteSet(B \cup {i}) /\ Cardinality(B \cup {i}) = k
  BY <1>1, FS_AddElement
<1>3. k <= Cardinality(I)
  BY <1>1, <1>2, FS_Subset
<1>4. k \in 1..Cardinality(I) /\ k \in Nat /\ 1 <= k
  BY <1>1, <1>3
<1> HIDE DEF k
<1>5. /\ x \in {f[n] : n \in I} /\ Cardinality(Below(f, I, x)) < k
      /\ Cardinality(UpTo(f, I, x)) >= k
  BY <1>3, <1>4, KthIsRanked
<1>6. x \in Nat /\ f[i] \in Nat
  BY <1>5
<1> HIDE DEF x
<1>7. ASSUME x < f[i] PROVE FALSE
  <2>1. UpTo(f, I, x) \in SUBSET B
    BY <1>6, <1>7 DEF UpTo, Below
  <2>2. Cardinality(UpTo(f, I, x)) <= Cardinality(B)
    BY <1>1, <2>1, FS_Subset
  <2> QED BY <1>1, <1>5, <2>2, RanksFinite DEF k
<1>8. ASSUME x > f[i] PROVE FALSE
  <2>1. B \cup {i} \in SUBSET Below(f, I, x)
    BY <1>6, <1>8 DEF Below
  <2>2. k <= Cardinality(Below(f, I, x))
    BY <1>2, <2>1, RanksFinite, FS_Subset
  <2> QED BY <1>4, <1>5, <2>2, RanksFinite
<1>9. x = f[i]
  BY <1>6, <1>7, <1>8
<1> QED BY <1>4, <1>9 DEF x

\* A larger number has no fewer numbers below it and up to it.
LEMMA RanksGrow ==
    ASSUME NEW I, IsFiniteSet(I), NEW f, \A i \in I : f[i] \in Nat,
           NEW x \in Nat, NEW y \in Nat, x <= y
    PROVE  /\ Cardinality(Below(f, I, x)) <= Cardinality(Below(f, I, y))
           /\ Cardinality(UpTo(f, I, x)) <= Cardinality(UpTo(f, I, y))
<1>1. Below(f, I, x) \in SUBSET Below(f, I, y) /\ UpTo(f, I, x) \in SUBSET UpTo(f, I, y)
  BY DEF Below, UpTo
<1> QED BY <1>1, RanksFinite, FS_Subset

\* The middle elements: a and b are the ones at the middle of an even number of
\* elements, a and b the same one in the middle of an odd number.
Middles(f, I, a, b) ==
    LET n == Cardinality(I)
    IN  /\ a \in {f[i] : i \in I} /\ b \in {f[i] : i \in I} /\ a <= b
        /\ n % 2 = 1 => a = b /\ MedianOf(f, I) = a
        /\ n % 2 = 0 => MedianOf(f, I) = (a + b) \div 2
        /\ 2 * Cardinality(Below(f, I, b)) <= n
        /\ 2 * Cardinality(UpTo(f, I, a)) >= n
        /\ 2 * Cardinality(Below(f, I, a)) < n
        /\ 2 * Cardinality(UpTo(f, I, b)) > n

\* A median has its middle elements.
LEMMA MiddlesExist ==
    ASSUME NEW I, IsFiniteSet(I), I # {}, NEW f, \A i \in I : f[i] \in Nat
    PROVE  \E a, b \in Nat : Middles(f, I, a, b)
<1> DEFINE n == Cardinality(I)
           h == n \div 2
<1>1. n \in Nat /\ n > 0
  BY FS_CardinalityType, FS_EmptySet
<1>2. h \in Nat /\ (n % 2 = 0 \/ n % 2 = 1)
  BY <1>1
<1>3. n % 2 = 0 => n = 2 * h /\ h >= 1
  BY <1>1
<1>4. n % 2 = 1 => n = 2 * h + 1
  BY <1>1
<1>5. n % 2 = 0 => MedianOf(f, I) = (Kth(f, I, h) + Kth(f, I, h + 1)) \div 2
  BY DEF MedianOf
<1>6. n % 2 = 1 => MedianOf(f, I) = Kth(f, I, h + 1)
  BY DEF MedianOf
<1> HIDE DEF h
<1>7. CASE n % 2 = 0
  <2> DEFINE a == Kth(f, I, h)
             b == Kth(f, I, h + 1)
  <2>1. n = 2 * h /\ h >= 1
    BY <1>3, <1>7
  <2>2. /\ a \in {f[i] : i \in I}
        /\ Cardinality(Below(f, I, a)) < h
        /\ Cardinality(UpTo(f, I, a)) >= h
    BY <1>1, <1>2, <2>1, KthIsRanked
  <2>3. /\ b \in {f[i] : i \in I}
        /\ Cardinality(Below(f, I, b)) < h + 1
        /\ Cardinality(UpTo(f, I, b)) >= h + 1
    BY <1>1, <1>2, <2>1, KthIsRanked
  <2>4. a <= b
    BY <1>1, <1>2, <2>1, KthGrows
  <2>5. a \in Nat /\ b \in Nat
    BY <2>2, <2>3
  <2>6. MedianOf(f, I) = (a + b) \div 2
    BY <1>5, <1>7
  <2> HIDE DEF a, b
  <2>7. Middles(f, I, a, b)
    BY <1>1, <1>2, <1>7, <2>1, <2>2, <2>3, <2>4, <2>6, RanksFinite DEF Middles
  <2> QED BY <2>5, <2>7
<1>8. CASE n % 2 = 1
  <2> DEFINE a == Kth(f, I, h + 1)
  <2>1. n = 2 * h + 1
    BY <1>4, <1>8
  <2>2. /\ a \in {f[i] : i \in I}
        /\ Cardinality(Below(f, I, a)) < h + 1
        /\ Cardinality(UpTo(f, I, a)) >= h + 1
    BY <1>1, <1>2, <2>1, KthIsRanked
  <2>3. a \in Nat
    BY <2>2
  <2>4. MedianOf(f, I) = a
    BY <1>6, <1>8
  <2> HIDE DEF a
  <2>5. Middles(f, I, a, a)
    BY <1>1, <1>2, <1>8, <2>1, <2>2, <2>3, <2>4, RanksFinite DEF Middles
  <2> QED BY <2>3, <2>5
<1> QED BY <1>2, <1>7, <1>8

\* The median lies between two of the numbers, and at most half of them are
\* below it and at most half above.
LEMMA MedianIsMiddle ==
    ASSUME NEW I, IsFiniteSet(I), I # {}, NEW f, \A i \in I : f[i] \in Nat
    PROVE  /\ MedianOf(f, I) \in Nat
           /\ \E i, j \in I : f[i] <= MedianOf(f, I) /\ MedianOf(f, I) <= f[j]
           /\ 2 * Cardinality(Below(f, I, MedianOf(f, I))) <= Cardinality(I)
           /\ 2 * Cardinality(UpTo(f, I, MedianOf(f, I))) >= Cardinality(I)
<1> DEFINE m == MedianOf(f, I)
<1>1. PICK a, b \in Nat : Middles(f, I, a, b)
  BY MiddlesExist
<1>2. Cardinality(I) \in Nat
  BY FS_CardinalityType
<1>3. a <= b /\ ((m = a /\ a = b) \/ m = (a + b) \div 2)
  BY <1>1, <1>2 DEF Middles
<1>4. m \in Nat /\ a <= m /\ m <= b
  BY <1>3
<1> HIDE DEF m
<1>5. \E i, j \in I : f[i] = a /\ f[j] = b
  BY <1>1 DEF Middles
<1>6. Cardinality(Below(f, I, m)) <= Cardinality(Below(f, I, b))
  BY <1>4, RanksGrow
<1>7. Cardinality(UpTo(f, I, a)) <= Cardinality(UpTo(f, I, m))
  BY <1>4, RanksGrow
<1>8. 2 * Cardinality(Below(f, I, b)) <= Cardinality(I) /\ 2 * Cardinality(UpTo(f, I, a)) >= Cardinality(I)
  BY <1>1 DEF Middles
<1>9. 2 * Cardinality(Below(f, I, m)) <= Cardinality(I) /\ 2 * Cardinality(UpTo(f, I, m)) >= Cardinality(I)
  BY <1>2, <1>6, <1>7, <1>8, RanksFinite
<1> QED BY <1>4, <1>5, <1>9 DEF m

\* An odd number of numbers has one of them as its median; the median of an even
\* number is the mean of two of them, where means of two are numbers.
LEMMA MedianIsMean ==
    ASSUME NEW I, IsFiniteSet(I), I # {}, NEW f, \A i \in I : f[i] \in Nat,
           \A i, j \in I : (f[i] + f[j]) % 2 = 0
    PROVE  IF Cardinality(I) % 2 = 1
           THEN \E i \in I : f[i] = MedianOf(f, I)
           ELSE \E i, j \in I : i # j /\ f[i] + f[j] = 2 * MedianOf(f, I)
<1> DEFINE n == Cardinality(I)
<1>1. PICK a, b \in Nat : Middles(f, I, a, b)
  BY MiddlesExist
<1>2. n \in Nat /\ (n % 2 = 0 \/ n % 2 = 1)
  BY FS_CardinalityType
<1>3. PICK i \in I, j \in I : f[i] = a /\ f[j] = b
  BY <1>1 DEF Middles
<1>4. CASE n % 2 = 1
  BY <1>1, <1>3, <1>4 DEF Middles
<1>5. CASE n % 2 = 0
  <2>1. MedianOf(f, I) = (a + b) \div 2 /\ (a + b) % 2 = 0
    BY <1>1, <1>3, <1>5 DEF Middles
  <2>2. a + b = 2 * MedianOf(f, I)
    BY <2>1
  <2>3. CASE a # b
    <3>1. i # j
      BY <1>3, <2>3
    <3> QED BY <1>3, <1>5, <2>2, <3>1
  <2>4. CASE a = b
    <3>1. SUFFICES ASSUME \A k \in I : f[k] = a => k = i PROVE FALSE
      BY <1>3, <1>5, <2>2, <2>4
    <3>2. UpTo(f, I, a) = Below(f, I, a) \cup {i} /\ i \notin Below(f, I, a)
      BY <1>3, <3>1 DEF UpTo, Below
    <3>3. Cardinality(UpTo(f, I, a)) = Cardinality(Below(f, I, a)) + 1
      BY <3>2, FS_AddElement, RanksFinite
    <3>4. 2 * Cardinality(Below(f, I, a)) < n /\ 2 * Cardinality(UpTo(f, I, a)) > n
      BY <1>1, <2>4 DEF Middles
    <3>5. 2 * Cardinality(Below(f, I, a)) + 2 > n
      BY <1>2, <3>3, <3>4, RanksFinite
    <3> QED BY <1>2, <1>5, <3>4, <3>5, RanksFinite
  <2> QED BY <2>3, <2>4
<1> QED BY <1>2, <1>4, <1>5

-----------------------------------------------------------------------------
(* Sums of natural numbers *)

\* The units of numbers that are not negative, and how many there are.
LEMMA UnitsCounted ==
    ASSUME NEW S, IsFiniteSet(S), NEW f, \A x \in S : f[x] \in Nat
    PROVE  /\ IsFiniteSet(Units(f, S)) /\ SumOver(f, S) = Cardinality(Units(f, S))
           /\ SumOver(f, S) \in Nat
<1> DEFINE g == [x \in S |-> {x} \X (1..f[x])]
           T == {g[x] : x \in S}
           n == [x \in S |-> -f[x]]
<1>1. IsFiniteSet(T)
  <2>1. g \in Surjection(S, T)
    BY DEF Surjection
  <2> QED BY <2>1, FS_Surjection
<1>2. \A x \in S : IsFiniteSet(g[x])
  <2> SUFFICES ASSUME NEW x \in S PROVE IsFiniteSet({x} \X (1..f[x]))
    OBVIOUS
  <2>1. f[x] \in Int
    OBVIOUS
  <2>2. IsFiniteSet({x})
    BY FS_Singleton
  <2>3. IsFiniteSet(1..f[x])
    BY <2>1, FS_Interval
  <2> QED BY <2>2, <2>3, FS_Product
<1>3. IsFiniteSet(UNION T)
  BY <1>1, <1>2, FS_UNION
<1>4. Units(f, S) = UNION T
  BY DEF Units
<1>5. Units(n, S) = {}
  <2>1. \A x \in S : 1..n[x] = {}
    OBVIOUS
  <2> QED BY <2>1 DEF Units
<1>6. Cardinality(Units(n, S)) = 0
  BY <1>5, FS_EmptySet
<1>7. Cardinality(Units(f, S)) \in Nat
  BY <1>3, <1>4, FS_CardinalityType
<1>8. SumOver(f, S) = Cardinality(Units(f, S)) - Cardinality(Units(n, S))
  BY DEF SumOver
<1> HIDE DEF n, T, g
<1> QED BY <1>3, <1>4, <1>6, <1>7, <1>8

\* Sums grow with the numbers, and with the set.
LEMMA SumGrows ==
    ASSUME NEW S, IsFiniteSet(S), NEW R, R \subseteq S, NEW f, NEW g,
           \A x \in S : f[x] \in Nat /\ g[x] \in Nat,
           \A x \in R : f[x] <= g[x]
    PROVE  SumOver(f, R) <= SumOver(g, S)
<1>1. IsFiniteSet(R)
  BY FS_Subset
<1>2. \A x \in R : f[x] \in Nat /\ g[x] \in Nat /\ x \in S
  OBVIOUS
<1>3. \A x \in R : 1..f[x] \subseteq 1..g[x]
  BY <1>2
<1>4. Units(f, R) \subseteq Units(g, S)
  BY <1>2, <1>3 DEF Units
<1>5. Cardinality(Units(f, R)) <= Cardinality(Units(g, S))
  BY <1>4, UnitsCounted, FS_Subset
<1>6. SumOver(f, R) = Cardinality(Units(f, R)) /\ SumOver(g, S) = Cardinality(Units(g, S))
  BY <1>1, <1>2, UnitsCounted
<1> QED BY <1>5, <1>6

\* Zeros do not count.
LEMMA SumOfOthers ==
    ASSUME NEW S, IsFiniteSet(S), NEW R, R \subseteq S, NEW f,
           \A x \in S : f[x] \in Nat, \A x \in S \ R : f[x] = 0
    PROVE  SumOver(f, S) = SumOver(f, R)
<1>1. IsFiniteSet(R) /\ \A x \in R : f[x] \in Nat
  BY FS_Subset
<1>2. \A x \in S \ R : 1..f[x] = {}
  OBVIOUS
<1>3. Units(f, S) = Units(f, R)
  BY <1>2 DEF Units
<1>4. SumOver(f, S) = Cardinality(Units(f, S)) /\ SumOver(f, R) = Cardinality(Units(f, R))
  BY <1>1, UnitsCounted
<1> QED BY <1>3, <1>4

\* One number is taken out of a sum.
LEMMA SumTakesOut ==
    ASSUME NEW S, IsFiniteSet(S), NEW f, \A x \in S : f[x] \in Nat, NEW y \in S
    PROVE  SumOver(f, S) = SumOver(f, S \ {y}) + f[y]
<1> DEFINE R == S \ {y}
           A == Units(f, R)
           B == {y} \X (1..f[y])
<1>1. IsFiniteSet(R) /\ \A x \in R : f[x] \in Nat
  BY FS_Subset
<1>2. IsFiniteSet(B) /\ Cardinality(B) = f[y]
  <2>1. IsFiniteSet({y}) /\ Cardinality({y}) = 1
    BY FS_Singleton
  <2>2. IsFiniteSet(1..f[y]) /\ Cardinality(1..f[y]) = f[y]
    BY FS_Interval
  <2>3. IsFiniteSet(B) /\ Cardinality(B) = 1 * f[y]
    BY <2>1, <2>2, FS_Product
  <2> QED BY <2>3
<1>3. Units(f, S) = A \cup B /\ A \cap B = {}
  BY DEF Units
<1>4. IsFiniteSet(A) /\ SumOver(f, R) = Cardinality(A) /\ SumOver(f, R) \in Nat
  BY <1>1, UnitsCounted
<1>5. Cardinality(A \cup B) = Cardinality(A) + Cardinality(B) - Cardinality({})
  <2>1. Cardinality(A \cup B) = Cardinality(A) + Cardinality(B) - Cardinality(A \cap B)
    <3> HIDE DEF A, B
    <3> QED BY <1>2, <1>4, FS_Union
  <2> QED BY <1>3, <2>1
<1>6. Cardinality({}) = 0
  BY FS_EmptySet
<1>7. SumOver(f, S) = Cardinality(A \cup B)
  BY <1>3, UnitsCounted
<1> HIDE DEF A, B, R
<1>8. SumOver(f, S) = SumOver(f, R) + f[y]
  BY <1>2, <1>4, <1>5, <1>6, <1>7
<1> QED BY <1>8 DEF R

\* Equal numbers have equal sums.
LEMMA SumOfEqual ==
    ASSUME NEW S, NEW f, NEW g, \A x \in S : f[x] = g[x]
    PROVE  SumOver(f, S) = SumOver(g, S)
<1>1. Units(f, S) = Units(g, S)
  BY DEF Units
<1>2. [x \in S |-> -f[x]] = [x \in S |-> -g[x]]
  OBVIOUS
<1> QED BY <1>1, <1>2 DEF SumOver

\* When one number changes, the sum changes by as much.
LEMMA SumChangesBy ==
    ASSUME NEW S, IsFiniteSet(S), NEW f, NEW g, \A x \in S : f[x] \in Nat /\ g[x] \in Nat,
           NEW y \in S, \A x \in S \ {y} : f[x] = g[x]
    PROVE  SumOver(g, S) = SumOver(f, S) - f[y] + g[y]
<1>1. SumOver(f, S) = SumOver(f, S \ {y}) + f[y]
  BY SumTakesOut
<1>2. SumOver(g, S) = SumOver(g, S \ {y}) + g[y]
  BY SumTakesOut
<1>3. SumOver(f, S \ {y}) = SumOver(g, S \ {y})
  BY SumOfEqual
<1>4. SumOver(f, S) \in Nat
  BY UnitsCounted
<1>5. SumOver(f, S \ {y}) \in Nat
  <2>1. IsFiniteSet(S \ {y}) /\ \A x \in S \ {y} : f[x] \in Nat
    BY FS_Subset
  <2> QED BY <2>1, UnitsCounted
<1> QED BY <1>1, <1>2, <1>3, <1>4, <1>5
=============================================================================
