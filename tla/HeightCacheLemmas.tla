-------------------------- MODULE HeightCacheLemmas --------------------------
(***************************************************************************)
(* What the operators of HeightCache do to a cache and to a table: folds,   *)
(* ascending enumerations, and the edits of sections and rows.              *)
(***************************************************************************)
EXTENDS HeightCache, TLAPS, WellFoundedInduction, FiniteSetTheorems

-----------------------------------------------------------------------------
(* Induction, for sets in place of predicates.                              *)

\* A set of numbers that has 0 and every successor up to n has all up to n.
LEMMA Climb ==
    ASSUME NEW n \in Nat, NEW P, 0 \in P,
           \A k \in 1..n : k - 1 \in P => k \in P
    PROVE  \A k \in 0..n : k \in P
<1> SUFFICES ASSUME (0..n) \ P # {} PROVE FALSE
  OBVIOUS
<1> DEFINE T == (0..n) \ P
<1>1. T \subseteq Nat /\ T # {}
  OBVIOUS
<1>2. PICK x \in T : \A y \in T : ~(<<y, x>> \in OpToRel(<, Nat))
  <2> HIDE DEF T
  <2> QED
    BY <1>1, WFMin, NatLessThanWellFounded
<1>3. x \in 0..n /\ x \notin P
  BY <1>2
<1>4. x # 0
  BY <1>3
<1>5. x \in 1..n /\ x - 1 \in 0..n /\ x - 1 \in Nat /\ x \in Nat /\ x - 1 < x
  BY <1>3, <1>4
<1>6. x - 1 \notin T
  BY <1>2, <1>5 DEF OpToRel
<1>7. x - 1 \in P
  BY <1>5, <1>6
<1> QED
  BY <1>3, <1>5, <1>7

\* A nonempty set of numbers up to a bound has a largest one.
LEMMA LargestExists ==
    ASSUME NEW n \in Nat, NEW S \in SUBSET (0..n), S # {}
    PROVE  Max(S) \in S /\ \A x \in S : x <= Max(S)
<1> DEFINE T == {n - x : x \in S}
<1>1. T \subseteq Nat /\ T # {}
  OBVIOUS
<1>2. PICK y \in T : \A z \in T : ~(<<z, y>> \in OpToRel(<, Nat))
  BY <1>1, WFMin, NatLessThanWellFounded
<1>3. PICK x \in S : y = n - x
  BY <1>2
<1>4. \A z \in S : z <= x
  <2> TAKE z \in S
  <2>1. n - z \in T /\ n - z \in Nat /\ y \in Nat
    BY <1>3
  <2>2. ~(n - z < y)
    BY <1>2, <2>1 DEF OpToRel
  <2> QED
    BY <1>3, <2>2
<1>5. \E m \in S : \A z \in S : m >= z
  BY <1>4
<1> QED
  BY <1>5 DEF Max

\* The steps F[1], ..., F[n] of a fold from b over the set X, and a function as
\* MapThenFoldSet builds it, with all of its values in X, or as far as they are.
StepsIn(F, n, X) == F \in [1..n -> [X -> X]]

Solves(it, n, X, b, F) ==
    /\ it \in [SUBSET (1..n) -> X]
    /\ it[{}] = b
    /\ \A S \in SUBSET (1..n) : S # {} =>
         Max(S) \in 1..n /\ it[S] = F[Max(S)][it[S \ {Max(S)}]]

Follows(it, n, X, b, F) ==
    /\ it[{}] = b
    /\ \A S \in SUBSET (1..n) : S # {} /\ it[S \ {Max(S)}] \in X =>
         it[S] = F[Max(S)][it[S \ {Max(S)}]]

\* A fold of steps in X can be built.
LEMMA FoldExists ==
    ASSUME NEW n \in Nat, NEW X, NEW b \in X, NEW F, StepsIn(F, n, X)
    PROVE  \E it : Solves(it, n, X, b, F)
<1>0. F \in [1..n -> [X -> X]]
  BY DEF StepsIn
<1> DEFINE Has(k, it) ==
             it = [S \in SUBSET (1..k) |->
                     IF S = {} THEN b ELSE F[Max(S)][it[S \ {Max(S)}]]]
           P == {k \in 0..n : \E it \in [SUBSET (1..k) -> X] : Has(k, it)}
<1>1. 0 \in P
  <2>1. [S \in SUBSET (1..0) |-> b] \in [SUBSET (1..0) -> X]
    OBVIOUS
  <2>2. \A S \in SUBSET (1..0) : S = {}
    OBVIOUS
  <2>3. Has(0, [S \in SUBSET (1..0) |-> b])
    BY <2>2
  <2> QED
    BY <2>1, <2>3
<1>2. ASSUME NEW k \in 1..n, k - 1 \in P PROVE k \in P
  <2>1. PICK it \in [SUBSET (1..(k - 1)) -> X] : Has(k - 1, it)
    BY <1>2
  <2> DEFINE jt == [S \in SUBSET (1..k) |->
                      IF k \in S THEN F[k][it[S \ {k}]] ELSE it[S]]
  <2>2. \A S \in SUBSET (1..k) : /\ S \ {k} \in SUBSET (1..(k - 1))
                                /\ k \notin S => S \in SUBSET (1..(k - 1))
    OBVIOUS
  <2>3. jt \in [SUBSET (1..k) -> X]
    BY <2>2, <1>0
  <2>4. ASSUME NEW S \in SUBSET (1..k), S # {}
        PROVE  jt[S] = F[Max(S)][jt[S \ {Max(S)}]]
    <3>1. Max(S) \in S /\ \A x \in S : x <= Max(S)
      BY LargestExists, S \in SUBSET (0..k), k \in Nat, <2>4
    <3>2. CASE k \in S
      <4>1. Max(S) = k
        <5>1. k \in Nat /\ \A x \in S : x \in 1..k
          OBVIOUS
        <5>2. Max(S) \in 1..k /\ k <= Max(S)
          BY <3>1, <3>2, <5>1
        <5> QED
          BY <5>1, <5>2
      <4>2. jt[S \ {k}] = it[S \ {k}]
        BY <2>2
      <4> QED
        BY <4>1, <4>2, <3>2
    <3>3. CASE k \notin S
      <4>1. S \in SUBSET (1..(k - 1)) /\ S \ {Max(S)} \in SUBSET (1..(k - 1))
        <5>1. S \in SUBSET (1..(k - 1))
          BY <3>3, <2>2
        <5> QED
          BY <5>1
      <4>2. it[S] = F[Max(S)][it[S \ {Max(S)}]]
        BY <2>1, <4>1, <2>4
      <4>3. jt[S] = it[S] /\ jt[S \ {Max(S)}] = it[S \ {Max(S)}]
        BY <3>3, <4>1
      <4> QED
        BY <4>2, <4>3
    <3> QED
      BY <3>2, <3>3
  <2>5. jt[{}] = b
    BY <2>1
  <2>6. Has(k, jt)
    BY <2>3, <2>4, <2>5
  <2>7. k \in 0..n
    OBVIOUS
  <2> QED
    BY <2>3, <2>6, <2>7
<1>3. n \in P
  <2> HIDE DEF P
  <2>1. \A k \in 1..n : k - 1 \in P => k \in P
    BY <1>2
  <2>2. \A k \in 0..n : k \in P
    BY <1>1, <2>1, Climb
  <2> QED
    BY <2>2
<1>4. PICK it \in [SUBSET (1..n) -> X] : Has(n, it)
  BY <1>3
<1>5. it[{}] = b
  BY <1>4
<1>6. ASSUME NEW S \in SUBSET (1..n), S # {}
      PROVE  Max(S) \in 1..n /\ it[S] = F[Max(S)][it[S \ {Max(S)}]]
  <2>1. S \in SUBSET (0..n)
    OBVIOUS
  <2>2. Max(S) \in S
    BY <1>6, <2>1, LargestExists
  <2> QED
    BY <2>2, <1>4, <1>6
<1> QED
  BY <1>4, <1>5, <1>6 DEF Solves

-----------------------------------------------------------------------------
(* Ascending enumerations of sets of numbers.                               *)

Rises(q) == \A i, j \in DOMAIN q : i < j => q[i] < q[j]
Lists(q, S) == \A x \in S : \E i \in DOMAIN q : q[i] = x

\* Of two such enumerations, of sets that agree up to x, both have x at the
\* same place.
LEMMA RisingAgree ==
    ASSUME NEW A \in SUBSET Nat, NEW B \in SUBSET Nat, NEW m \in Nat, NEW n \in Nat,
           NEW a \in [1..m -> A], NEW b \in [1..n -> B],
           Rises(a), Rises(b), Lists(a, A), Lists(b, B),
           NEW i \in 1..m, \A y \in Nat : y <= a[i] => (y \in A <=> y \in B)
    PROVE  i \in 1..n /\ b[i] = a[i]
<1> DEFINE x == a[i]
<1> DEFINE P == {k \in 0..i : k <= n /\ \A j \in 1..k : a[j] = b[j]}
<1>1. 0 \in P
  OBVIOUS
<1>2. ASSUME NEW k \in 1..i, k - 1 \in P PROVE k \in P
  <2>1. k - 1 <= n /\ \A j \in 1..(k - 1) : a[j] = b[j]
    BY <1>2
  <2>2. k \in 1..m /\ DOMAIN a = 1..m /\ DOMAIN b = 1..n
    OBVIOUS
  <2>3. a[k] \in A /\ a[k] \in Nat /\ a[k] <= x
    <3>1. k = i \/ k < i
      OBVIOUS
    <3>2. k < i => a[k] < a[i]
      BY <2>2 DEF Rises
    <3>3. a[k] \in Nat /\ x \in Nat
      BY <2>2
    <3> QED
      BY <3>1, <3>2, <3>3, <2>2
  <2>4. PICK l \in 1..n : b[l] = a[k]
    BY <2>3, <2>2 DEF Lists
  <2>5. l >= k
    <3> SUFFICES ASSUME l < k PROVE FALSE
      OBVIOUS
    <3>1. l \in 1..(k - 1) /\ l \in 1..m
      OBVIOUS
    <3>2. a[l] = a[k] /\ a[l] < a[k]
      BY <3>1, <2>1, <2>2, <2>4 DEF Rises
    <3> QED
      BY <3>2, <2>3
  <2>6. k \in 1..n
    BY <2>5
  <2>7. b[k] \in Nat /\ b[k] <= a[k]
    <3>1. k = l \/ k < l
      BY <2>5
    <3>2. k < l => b[k] < b[l]
      BY <2>2, <2>6 DEF Rises
    <3>3. b[k] \in B
      BY <2>6
    <3>4. b[k] \in Nat /\ b[l] = a[k] /\ a[k] \in Nat
      BY <3>3, <2>4, <2>3
    <3>5. b[k] = b[l] \/ b[k] < b[l]
      BY <3>1, <3>2
    <3> QED
      BY <3>4, <3>5
  <2>8. b[k] \in A
    <3>1. b[k] \in B /\ x \in Nat
      BY <2>6, <2>2
    <3>2. b[k] <= x
      BY <2>7, <2>3, <3>1
    <3> QED
      BY <3>1, <3>2, <2>7
  <2>9. PICK h \in 1..m : a[h] = b[k]
    BY <2>8, <2>2 DEF Lists
  <2>10. h >= k
    <3> SUFFICES ASSUME h < k PROVE FALSE
      OBVIOUS
    <3>1. h \in 1..(k - 1) /\ h \in 1..n
      BY <2>6
    <3>2. b[h] = b[k] /\ b[h] < b[k]
      BY <3>1, <2>1, <2>2, <2>6, <2>9 DEF Rises
    <3> QED
      BY <3>2, <2>7
  <2>11. a[k] <= a[h]
    <3>1. k = h \/ k < h
      BY <2>10
    <3>2. k < h => a[k] < a[h]
      BY <2>2 DEF Rises
    <3> QED
      BY <3>1, <3>2, <2>3, <2>9, <2>7
  <2>12. a[k] = b[k]
    BY <2>11, <2>9, <2>7, <2>3
  <2>13. \A j \in 1..k : j = k \/ j \in 1..(k - 1)
    OBVIOUS
  <2> QED
    BY <2>12, <2>13, <2>1, <2>6
<1>3. i \in P
  <2> HIDE DEF P
  <2>1. \A k \in 1..i : k - 1 \in P => k \in P
    BY <1>2
  <2>2. i \in Nat /\ i \in 0..i
    OBVIOUS
  <2> QED
    BY <1>1, <2>1, <2>2, Climb
<1> QED
  BY <1>3

\* A rising sequence of numbers goes up by at least one at each place.
LEMMA RisingGap ==
    ASSUME NEW m \in Nat, NEW a \in [1..m -> Nat], Rises(a), NEW k \in 1..m
    PROVE  a[k] + (m - k) <= a[m]
<1> DEFINE P == {d \in 0..(m - k) : a[k] + d <= a[k + d]}
<1>1. 0 \in P
  OBVIOUS
<1>2. ASSUME NEW d \in 1..(m - k), d - 1 \in P PROVE d \in P
  <2>1. k + (d - 1) \in 1..m /\ k + d \in 1..m /\ DOMAIN a = 1..m
    OBVIOUS
  <2>2. a[k + (d - 1)] < a[k + d]
    BY <2>1 DEF Rises
  <2>3. a[k] + (d - 1) <= a[k + (d - 1)]
    BY <1>2
  <2>4. a[k] \in Nat /\ a[k + (d - 1)] \in Nat /\ a[k + d] \in Nat
    BY <2>1
  <2>5. a[k] + d <= a[k + d]
    BY <2>2, <2>3, <2>4
  <2> QED
    BY <2>5
<1>3. m - k \in P
  <2> HIDE DEF P
  <2>1. \A d \in 1..(m - k) : d - 1 \in P => d \in P
    BY <1>2
  <2>2. m - k \in Nat /\ m - k \in 0..(m - k)
    OBVIOUS
  <2> QED
    BY <1>1, <2>1, <2>2, Climb
<1>4. k + (m - k) = m
  OBVIOUS
<1> QED
  BY <1>3, <1>4

\* Every set of numbers up to a bound has a rising enumeration.
LEMMA RisingExists ==
    ASSUME NEW n \in Nat, NEW S \in SUBSET (1..n)
    PROVE  \E m \in Nat : \E q \in [1..m -> S] : Rises(q) /\ Lists(q, S)
<1> DEFINE Has(T) == \E m \in Nat : \E q \in [1..m -> T] : Rises(q) /\ Lists(q, T)
           P == {k \in 0..n : \A T \in SUBSET (1..k) : Has(T)}
<1>1. 0 \in P
  <2>1. \A T \in SUBSET (1..0) : T = {}
    OBVIOUS
  <2> DEFINE q == [i \in 1..0 |-> i]
  <2>2. q \in [1..0 -> {}] /\ Rises(q) /\ Lists(q, {})
    BY DEF Rises, Lists
  <2>3. Has({})
    BY <2>2
  <2> HIDE DEF Has
  <2>4. \A T \in SUBSET (1..0) : Has(T)
    BY <2>1, <2>3
  <2>5. 0 \in 0..n
    OBVIOUS
  <2> QED
    BY <2>4, <2>5
<1>2. ASSUME NEW k \in 1..n, k - 1 \in P PROVE k \in P
  <2> SUFFICES ASSUME NEW T \in SUBSET (1..k) PROVE Has(T)
    <3>1. k \in 0..n
      OBVIOUS
    <3> HIDE DEF Has
    <3> QED
      BY <3>1
  <2>1. CASE k \notin T
    <3>1. T \in SUBSET (1..(k - 1))
      BY <2>1
    <3> HIDE DEF Has
    <3> QED
      BY <3>1, <1>2
  <2>2. CASE k \in T
    <3> DEFINE U == T \ {k}
    <3>1. U \in SUBSET (1..(k - 1))
      OBVIOUS
    <3>2. Has(U)
      <4> HIDE DEF Has, U
      <4> QED
        BY <3>1, <1>2
    <3>12. PICK m \in Nat : \E q \in [1..m -> U] : Rises(q) /\ Lists(q, U)
      BY <3>2
    <3>3. PICK q \in [1..m -> U] : Rises(q) /\ Lists(q, U)
      BY <3>12
    <3> DEFINE r == [i \in 1..(m + 1) |-> IF i = m + 1 THEN k ELSE q[i]]
    <3>4. \A i \in 1..m : i \in 1..(m + 1) /\ i # m + 1 /\ r[i] = q[i] /\ q[i] \in 1..(k - 1)
      <4> TAKE i \in 1..m
      <4>1. q[i] \in U
        OBVIOUS
      <4>2. i \in 1..(m + 1) /\ i # m + 1
        OBVIOUS
      <4>3. r[i] = q[i]
        BY <4>2
      <4>4. q[i] \in 1..(k - 1)
        BY <4>1, <3>1
      <4> QED
        BY <4>2, <4>3, <4>4
    <3>5. \A i \in 1..(m + 1) : i \in 1..m \/ i = m + 1
      OBVIOUS
    <3>6. m + 1 \in 1..(m + 1) /\ r[m + 1] = k /\ DOMAIN r = 1..(m + 1) /\ DOMAIN q = 1..m
      OBVIOUS
    <3>7. \A i \in 1..(m + 1) : r[i] \in T
      BY <3>4, <3>5, <3>6, <2>2
    <3>8. r \in [1..(m + 1) -> T]
      BY <3>7
    <3>9. Rises(r)
      <4> SUFFICES ASSUME NEW i \in 1..(m + 1), NEW j \in 1..(m + 1), i < j
                   PROVE  r[i] < r[j]
        BY <3>6 DEF Rises
      <4>1. i \in 1..m
        OBVIOUS
      <4>2. CASE j = m + 1
        <5>1. r[i] \in 1..(k - 1) /\ r[j] = k
          BY <4>1, <4>2, <3>4, <3>6
        <5> QED
          BY <5>1
      <4>3. CASE j \in 1..m
        <5>1. q[i] < q[j]
          BY <4>1, <4>3, <3>3, <3>6 DEF Rises
        <5> QED
          BY <5>1, <4>1, <4>3, <3>4
      <4> QED
        BY <4>2, <4>3, <3>5
    <3>10. Lists(r, T)
      <4> SUFFICES ASSUME NEW x \in T PROVE \E i \in 1..(m + 1) : r[i] = x
        BY <3>6 DEF Lists
      <4>1. CASE x = k
        BY <4>1, <3>6
      <4>2. CASE x # k
        <5>1. PICK i \in 1..m : q[i] = x
          BY <4>2, <3>3, <3>6 DEF Lists
        <5> QED
          BY <5>1, <3>4
      <4> QED
        BY <4>1, <4>2
    <3>11. m + 1 \in Nat
      OBVIOUS
    <3> HIDE DEF r
    <3> QED
      BY <3>8, <3>9, <3>10, <3>11
  <2> QED
    BY <2>1, <2>2
<1>3. n \in P
  <2> HIDE DEF P
  <2>1. \A k \in 1..n : k - 1 \in P => k \in P
    BY <1>2
  <2>2. n \in 0..n
    OBVIOUS
  <2> QED
    BY <1>1, <2>1, <2>2, Climb
<1> QED
  BY <1>3

\* Ascending(S) is the rising enumeration of S.
LEMMA AscendingRises ==
    ASSUME NEW n \in Nat, NEW S \in SUBSET (1..n)
    PROVE  /\ Cardinality(S) \in Nat
           /\ Ascending(S) \in [1..Cardinality(S) -> S]
           /\ Rises(Ascending(S)) /\ Lists(Ascending(S), S)
<1>0. PICK m \in Nat : \E q \in [1..m -> S] : Rises(q) /\ Lists(q, S)
  BY RisingExists
<1>1. PICK q \in [1..m -> S] : Rises(q) /\ Lists(q, S)
  BY <1>0
<1>2. DOMAIN q = 1..m /\ \A i \in 1..m : q[i] \in Nat
  <2>1. S \subseteq Nat /\ \A i \in 1..m : q[i] \in S
    OBVIOUS
  <2> QED
    BY <2>1
<1>3. \A i, j \in 1..m : i # j => q[i] # q[j]
  <2> SUFFICES ASSUME NEW i \in 1..m, NEW j \in 1..m, i # j PROVE q[i] # q[j]
    OBVIOUS
  <2>1. i < j \/ j < i
    OBVIOUS
  <2>2. q[i] < q[j] \/ q[j] < q[i]
    BY <2>1, <1>1, <1>2 DEF Rises
  <2> QED
    BY <2>2, <1>2
<1>4. q \in Bijection(1..m, S)
  BY <1>1, <1>2, <1>3 DEF Bijection, Injection, Surjection, IsInjective, Lists
<1>5. IsFiniteSet(1..m) /\ Cardinality(1..m) = m
  BY FS_Interval
<1>6. IsFiniteSet(S) /\ Cardinality(S) = m
  BY <1>4, <1>5, FS_Bijection DEF ExistsBijection
<1>7. ASSUME NEW k \in 1..m PROVE Before(S, q[k]) = k - 1
  <2> DEFINE B == {x \in S : x < q[k]}
             c == [i \in 1..(k - 1) |-> q[i]]
  <2>1. \A i \in 1..(k - 1) : i \in 1..m /\ q[i] \in B
    <3> TAKE i \in 1..(k - 1)
    <3>1. i \in 1..m /\ i < k
      OBVIOUS
    <3>2. q[i] \in S /\ q[i] < q[k]
      BY <3>1, <1>1, <1>2 DEF Rises
    <3> QED
      BY <3>1, <3>2
  <2>2. c \in [1..(k - 1) -> B]
    BY <2>1
  <2>3. \A i, j \in 1..(k - 1) : i # j => c[i] # c[j]
    BY <2>1, <1>3
  <2>4. ASSUME NEW x \in B PROVE \E i \in 1..(k - 1) : c[i] = x
    <3>1. PICK i \in 1..m : q[i] = x
      BY <1>1, <1>2 DEF Lists
    <3>2. ~(k < i) /\ i # k
      <4>1. q[i] \in Nat /\ q[k] \in Nat /\ q[i] < q[k]
        BY <3>1, <1>2
      <4>2. k < i => q[k] < q[i]
        BY <1>1, <1>2 DEF Rises
      <4> QED
        BY <4>1, <4>2
    <3>3. i \in 1..(k - 1)
      BY <3>2
    <3> QED
      BY <3>1, <3>3
  <2> HIDE DEF B, c
  <2>5. c \in Bijection(1..(k - 1), B)
    BY <2>2, <2>3, <2>4 DEF Bijection, Injection, Surjection, IsInjective
  <2>6. IsFiniteSet(1..(k - 1)) /\ Cardinality(1..(k - 1)) = k - 1
    <3>1. 1 \in Int /\ k - 1 \in Int /\ (1 > k - 1 => k - 1 = 0)
      OBVIOUS
    <3> QED
      BY <3>1, FS_Interval
  <2>7. Cardinality(B) = k - 1
    BY <2>5, <2>6, FS_Bijection DEF ExistsBijection
  <2> QED
    BY <2>7 DEF B, Before
<1>8. \A k \in 1..m : \A x \in S : Before(S, x) = k - 1 => x = q[k]
  <2> SUFFICES ASSUME NEW k \in 1..m, NEW x \in S, Before(S, x) = k - 1
               PROVE  x = q[k]
    OBVIOUS
  <2>1. PICK i \in 1..m : q[i] = x
    BY <1>1, <1>2 DEF Lists
  <2>2. i - 1 = k - 1
    BY <2>1, <1>7
  <2>3. i = k
    BY <2>2
  <2> QED
    BY <2>1, <2>3
<1>9. \A k \in 1..m : (CHOOSE x \in S : Before(S, x) = k - 1) = q[k]
  BY <1>7, <1>8
<1>10. Ascending(S) = [k \in 1..m |-> q[k]]
  BY <1>9, <1>6 DEF Ascending
<1>11. Ascending(S) = q
  BY <1>10
<1> QED
  BY <1>1, <1>6, <1>11

\* ... and the only one.
LEMMA AscendingUnique ==
    ASSUME NEW n \in Nat, NEW S \in SUBSET (1..n), NEW m \in Nat,
           NEW q \in [1..m -> S], Rises(q), Lists(q, S)
    PROVE  Ascending(S) = q /\ Cardinality(S) = m
<1> DEFINE a == Ascending(S)  l == Cardinality(S)
<1>1. l \in Nat /\ a \in [1..l -> S] /\ Rises(a) /\ Lists(a, S) /\ S \in SUBSET Nat
  <2>1. S \in SUBSET Nat
    OBVIOUS
  <2> QED
    BY <2>1, AscendingRises
<1> HIDE DEF a, l
<1>2. \A i \in 1..m : i \in 1..l /\ a[i] = q[i]
  <2> TAKE i \in 1..m
  <2>1. q[i] \in S
    OBVIOUS
  <2>2. \A y \in Nat : y <= q[i] => (y \in S <=> y \in S)
    OBVIOUS
  <2> QED
    BY <2>1, <2>2, <1>1, RisingAgree
<1>3. \A i \in 1..l : i \in 1..m
  <2> TAKE i \in 1..l
  <2>1. a[i] \in S
    BY <1>1
  <2>2. \A y \in Nat : y <= a[i] => (y \in S <=> y \in S)
    OBVIOUS
  <2> QED
    BY <2>1, <2>2, <1>1, RisingAgree
<1>4. l = m
  <2>1. m \in 1..m \/ m = 0
    OBVIOUS
  <2>2. l \in 1..l \/ l = 0
    BY <1>1
  <2>3. m <= l
    BY <2>1, <1>2, <1>1
  <2>4. l <= m
    BY <2>2, <1>3, <1>1
  <2> QED
    BY <2>3, <2>4, <1>1
<1>5. a = q
  BY <1>1, <1>2, <1>4
<1> QED
  BY <1>4, <1>5 DEF a, l

-----------------------------------------------------------------------------
(* Sequences as lists without an end: At(q, i, x) is q[i], or x beyond q.    *)

Numbers == Nat \ {0}

At(q, i, x) == IF i \in DOMAIN q THEN q[i] ELSE x

\* w is q with e put in at position i.
PutIn(w, q, i, e) ==
    /\ Len(w) = Len(q) + 1
    /\ \A k \in 1..(Len(q) + 1) : k < i => w[k] = q[k]
    /\ w[i] = e
    /\ \A k \in 1..(Len(q) + 1) : k > i => w[k] = q[k - 1]

LEMMA InsertAtPuts ==
    ASSUME NEW X, NEW q \in Seq(X), NEW i \in 1..(Len(q) + 1), NEW e \in X
    PROVE  InsertAt(q, i, e) \in Seq(X) /\ PutIn(InsertAt(q, i, e), q, i, e)
<1> DEFINE a == SubSeq(q, 1, i - 1)  b == SubSeq(q, i, Len(q))
<1>1. a \in Seq(X) /\ Len(a) = i - 1 /\ \A k \in 1..(i - 1) : a[k] = q[k]
  OBVIOUS
<1>2. /\ b \in Seq(X) /\ Len(b) = Len(q) - i + 1
      /\ \A k \in 1..(Len(q) - i + 1) : b[k] = q[i + k - 1]
  OBVIOUS
<1>3. <<e>> \in Seq(X) /\ Len(<<e>>) = 1 /\ <<e>>[1] = e
  OBVIOUS
<1> DEFINE c == a \o <<e>>
<1>4. InsertAt(q, i, e) = c \o b
  BY DEF InsertAt
<1> HIDE DEF a, b
<1>5. c \in Seq(X) /\ Len(c) = i /\ \A k \in 1..i : c[k] = IF k < i THEN q[k] ELSE e
  BY <1>1, <1>3
<1> HIDE DEF c
<1>6. c \o b \in Seq(X) /\ Len(c \o b) = Len(q) + 1
  <2>1. c \in Seq(X) /\ b \in Seq(X)
    BY <1>5, <1>2
  <2>2. c \o b \in Seq(X) /\ Len(c \o b) = Len(c) + Len(b)
    BY <2>1
  <2> QED
    BY <2>2, <1>5, <1>2
<1>7. \A k \in 1..(Len(q) + 1) : (c \o b)[k] = IF k <= i THEN c[k] ELSE b[k - i]
  BY <1>5, <1>2
<1>8. \A k \in 1..(Len(q) + 1) : k > i => b[k - i] = q[k - 1]
  BY <1>2
<1>9. PutIn(c \o b, q, i, e)
  BY <1>5, <1>6, <1>7, <1>8 DEF PutIn
<1> QED
  BY <1>4, <1>6, <1>9

LEMMA InsertAtIs ==
    ASSUME NEW X, NEW q \in Seq(X), NEW i \in 1..(Len(q) + 1), NEW e \in X
    PROVE  /\ InsertAt(q, i, e) \in Seq(X)
           /\ Len(InsertAt(q, i, e)) = Len(q) + 1
           /\ \A k \in 1..(Len(q) + 1) : k < i => InsertAt(q, i, e)[k] = q[k]
           /\ InsertAt(q, i, e)[i] = e
           /\ \A k \in 1..(Len(q) + 1) : k > i => InsertAt(q, i, e)[k] = q[k - 1]
BY InsertAtPuts DEF PutIn

LEMMA RemoveAtIs ==
    ASSUME NEW X, NEW q \in Seq(X), NEW i \in 1..Len(q)
    PROVE  /\ RemoveAt(q, i) \in Seq(X)
           /\ Len(RemoveAt(q, i)) = Len(q) - 1
           /\ \A k \in 1..(Len(q) - 1) :
                RemoveAt(q, i)[k] = IF k < i THEN q[k] ELSE q[k + 1]
<1> DEFINE a == SubSeq(q, 1, i - 1)  b == SubSeq(q, i + 1, Len(q))
<1>1. a \in Seq(X) /\ Len(a) = i - 1 /\ \A k \in 1..(i - 1) : a[k] = q[k]
  OBVIOUS
<1>2. /\ b \in Seq(X) /\ Len(b) = Len(q) - i
      /\ \A k \in 1..(Len(q) - i) : b[k] = q[i + k]
  OBVIOUS
<1>3. RemoveAt(q, i) = a \o b
  BY DEF RemoveAt
<1> HIDE DEF a, b
<1>4. a \o b \in Seq(X) /\ Len(a \o b) = Len(q) - 1
  <2>1. a \in Seq(X) /\ b \in Seq(X)
    BY <1>1, <1>2
  <2>2. a \o b \in Seq(X) /\ Len(a \o b) = Len(a) + Len(b)
    BY <2>1
  <2> QED
    BY <2>2, <1>1, <1>2
<1>5. \A k \in 1..(Len(q) - 1) : (a \o b)[k] = IF k < i THEN a[k] ELSE b[k - (i - 1)]
  BY <1>1, <1>2
<1>6. \A k \in 1..(Len(q) - 1) : k >= i => b[k - (i - 1)] = q[k + 1]
  BY <1>2
<1>7. \A k \in 1..(Len(q) - 1) : (a \o b)[k] = IF k < i THEN q[k] ELSE q[k + 1]
  <2> TAKE k \in 1..(Len(q) - 1)
  <2>1. k < i => k \in 1..(i - 1)
    OBVIOUS
  <2>2. k < i \/ k >= i
    OBVIOUS
  <2>3. ~(k < i /\ k >= i)
    OBVIOUS
  <2> QED
    BY <2>1, <2>2, <2>3, <1>1, <1>5, <1>6
<1> QED
  BY <1>3, <1>4, <1>7

\* The entries of w are those of q, then only x.
Continues(w, q, x) == \A k \in 1..Len(w) : w[k] = IF k <= Len(q) THEN q[k] ELSE x

LEMMA PaddedIs ==
    ASSUME NEW X, NEW q \in Seq(X), NEW n \in Nat, NEW x \in X
    PROVE  /\ Padded(q, n, x) \in Seq(X)
           /\ n > Len(q) => Len(Padded(q, n, x)) = n
           /\ n <= Len(q) => Len(Padded(q, n, x)) = Len(q)
           /\ Continues(Padded(q, n, x), q, x)
<1> DEFINE m == Max({0, n - Len(q)})
<1>1. m = IF n > Len(q) THEN n - Len(q) ELSE 0
  <2>1. \E y \in {0, n - Len(q)} : \A z \in {0, n - Len(q)} : y >= z
    OBVIOUS
  <2>2. m \in {0, n - Len(q)} /\ \A z \in {0, n - Len(q)} : m >= z
    BY <2>1 DEF Max
  <2> HIDE DEF m
  <2> QED
    BY <2>2
<1>2. m \in Nat
  BY <1>1
<1> HIDE DEF m
<1> DEFINE p == [k \in 1..m |-> x]
<1>3. p \in Seq(X) /\ Len(p) = m /\ \A k \in 1..m : p[k] = x
  BY <1>2
<1>4. Padded(q, n, x) = q \o p
  BY DEF Padded, m
<1> HIDE DEF p
<1>5. q \o p \in Seq(X) /\ Len(q \o p) = Len(q) + m
  BY <1>3
<1>6. \A k \in 1..(Len(q) + m) : (q \o p)[k] = IF k <= Len(q) THEN q[k] ELSE p[k - Len(q)]
  BY <1>3
<1>7. \A k \in 1..(Len(q) + m) : k > Len(q) => p[k - Len(q)] = x
  BY <1>3, <1>2
<1>8. Len(q) + m = IF n > Len(q) THEN n ELSE Len(q)
  BY <1>1
<1>9. Continues(q \o p, q, x)
  BY <1>5, <1>6, <1>7 DEF Continues
<1> QED
  BY <1>4, <1>5, <1>8, <1>9

\* Padding shows nothing new.
LEMMA AtPadded ==
    ASSUME NEW X, NEW q \in Seq(X), NEW n \in Nat, NEW x \in X
    PROVE  /\ Padded(q, n, x) \in Seq(X)
           /\ Len(Padded(q, n, x)) >= n /\ Len(Padded(q, n, x)) >= Len(q)
           /\ \A i \in Nat : At(Padded(q, n, x), i, x) = At(q, i, x)
<1>1. Padded(q, n, x) \in Seq(X)
  BY PaddedIs
<1>2. /\ n > Len(q) => Len(Padded(q, n, x)) = n
      /\ n <= Len(q) => Len(Padded(q, n, x)) = Len(q)
  <2>1. n > Len(q) => Len(Padded(q, n, x)) = n
    BY PaddedIs
  <2>2. n <= Len(q) => Len(Padded(q, n, x)) = Len(q)
    BY PaddedIs
  <2> QED
    BY <2>1, <2>2
<1>3. Len(q) \in Nat /\ Len(Padded(q, n, x)) \in Nat
  BY <1>1
<1>4. Len(Padded(q, n, x)) >= n /\ Len(Padded(q, n, x)) >= Len(q)
  BY <1>2, <1>3
<1>5. ASSUME NEW i \in Nat PROVE At(Padded(q, n, x), i, x) = At(q, i, x)
  <2>1. DOMAIN Padded(q, n, x) = 1..Len(Padded(q, n, x)) /\ DOMAIN q = 1..Len(q)
    BY <1>1
  <2>2. CASE i \in 1..Len(Padded(q, n, x))
    <3>1. Padded(q, n, x)[i] = IF i <= Len(q) THEN q[i] ELSE x
      <4>1. Continues(Padded(q, n, x), q, x)
        BY PaddedIs
      <4> QED
        BY <2>2, <4>1 DEF Continues
    <3>2. i \in 1..Len(q) <=> i <= Len(q)
      BY <2>2, <1>3
    <3> QED
      BY <3>1, <3>2, <2>1, <2>2 DEF At
  <2>3. CASE i \notin 1..Len(Padded(q, n, x))
    <3>1. i \notin 1..Len(q)
      BY <2>3, <1>3, <1>4
    <3> QED
      BY <3>1, <2>1, <2>3 DEF At
  <2> QED
    BY <2>2, <2>3
<1> QED
  BY <1>1, <1>4, <1>5

LEMMA AtInsertAt ==
    ASSUME NEW X, NEW q \in Seq(X), NEW i \in 1..(Len(q) + 1), NEW e \in X, NEW x
    PROVE  /\ InsertAt(q, i, e) \in Seq(X) /\ Len(InsertAt(q, i, e)) = Len(q) + 1
           /\ \A k \in Numbers : k < i => At(InsertAt(q, i, e), k, x) = At(q, k, x)
           /\ At(InsertAt(q, i, e), i, x) = e
           /\ \A k \in Numbers : k > i => At(InsertAt(q, i, e), k, x) = At(q, k - 1, x)
<1>1. InsertAt(q, i, e) \in Seq(X) /\ Len(InsertAt(q, i, e)) = Len(q) + 1
  BY InsertAtIs
<1>2. DOMAIN InsertAt(q, i, e) = 1..(Len(q) + 1) /\ DOMAIN q = 1..Len(q) /\ Len(q) \in Nat
  BY <1>1
<1>3. ASSUME NEW k \in Numbers
      PROVE  /\ k < i => At(InsertAt(q, i, e), k, x) = At(q, k, x)
             /\ k = i => At(InsertAt(q, i, e), k, x) = e
             /\ k > i => At(InsertAt(q, i, e), k, x) = At(q, k - 1, x)
  <2>0. k \in Nat \ {0}
    BY DEF Numbers
  <2>1. CASE k \in 1..(Len(q) + 1)
    <3>1. /\ k < i => InsertAt(q, i, e)[k] = q[k]
          /\ k = i => InsertAt(q, i, e)[k] = e
          /\ k > i => InsertAt(q, i, e)[k] = q[k - 1]
      <4>1. \A j \in 1..(Len(q) + 1) : j < i => InsertAt(q, i, e)[j] = q[j]
        BY InsertAtIs
      <4>2. InsertAt(q, i, e)[i] = e
        BY InsertAtIs
      <4>3. \A j \in 1..(Len(q) + 1) : j > i => InsertAt(q, i, e)[j] = q[j - 1]
        BY InsertAtIs
      <4> QED
        BY <4>1, <4>2, <4>3, <2>1
    <3>2. (k < i => k \in 1..Len(q)) /\ (k > i => k - 1 \in 1..Len(q))
      BY <2>1, <1>2
    <3> QED
      BY <3>1, <3>2, <2>1, <1>2 DEF At
  <2>2. CASE k \notin 1..(Len(q) + 1)
    <3>1. k > i /\ k - 1 \notin 1..Len(q)
      BY <2>0, <2>2, <1>2
    <3>2. ~(k < i) /\ k # i
      BY <2>0, <3>1
    <3> QED
      BY <3>1, <3>2, <2>2, <1>2 DEF At
  <2> QED
    BY <2>1, <2>2
<1>4. i \in Numbers
  BY <1>2 DEF Numbers
<1> QED
  BY <1>1, <1>3, <1>4

LEMMA AtInsertBlank ==
    ASSUME NEW X, NEW q \in Seq(X), NEW i \in 1..(Len(q) + 1), NEW x \in X
    PROVE  /\ InsertAt(q, i, x) \in Seq(X) /\ Len(InsertAt(q, i, x)) = Len(q) + 1
           /\ \A k \in Numbers : k < i => At(InsertAt(q, i, x), k, x) = At(q, k, x)
           /\ At(InsertAt(q, i, x), i, x) = x
           /\ \A k \in Numbers : k > i => At(InsertAt(q, i, x), k, x) = At(q, k - 1, x)
<1>1. InsertAt(q, i, x) \in Seq(X) /\ Len(InsertAt(q, i, x)) = Len(q) + 1
  BY InsertAtIs
<1>2. DOMAIN InsertAt(q, i, x) = 1..(Len(q) + 1) /\ DOMAIN q = 1..Len(q) /\ Len(q) \in Nat
  BY <1>1
<1>3. ASSUME NEW k \in Numbers
      PROVE  /\ k < i => At(InsertAt(q, i, x), k, x) = At(q, k, x)
             /\ k = i => At(InsertAt(q, i, x), k, x) = x
             /\ k > i => At(InsertAt(q, i, x), k, x) = At(q, k - 1, x)
  <2>0. k \in Nat \ {0}
    BY DEF Numbers
  <2>1. CASE k \in 1..(Len(q) + 1)
    <3>1. /\ k < i => InsertAt(q, i, x)[k] = q[k]
          /\ k = i => InsertAt(q, i, x)[k] = x
          /\ k > i => InsertAt(q, i, x)[k] = q[k - 1]
      <4>1. \A j \in 1..(Len(q) + 1) : j < i => InsertAt(q, i, x)[j] = q[j]
        BY InsertAtIs
      <4>2. InsertAt(q, i, x)[i] = x
        BY InsertAtIs
      <4>3. \A j \in 1..(Len(q) + 1) : j > i => InsertAt(q, i, x)[j] = q[j - 1]
        BY InsertAtIs
      <4> QED
        BY <4>1, <4>2, <4>3, <2>1
    <3>2. (k < i => k \in 1..Len(q)) /\ (k > i => k - 1 \in 1..Len(q))
      BY <2>1, <1>2
    <3> QED
      BY <3>1, <3>2, <2>1, <1>2 DEF At
  <2>2. CASE k \notin 1..(Len(q) + 1)
    <3>1. k > i /\ k - 1 \notin 1..Len(q)
      BY <2>0, <2>2, <1>2
    <3>2. ~(k < i) /\ k # i
      BY <2>0, <3>1
    <3> QED
      BY <3>1, <3>2, <2>2, <1>2 DEF At
  <2> QED
    BY <2>1, <2>2
<1>4. i \in Numbers
  BY <1>2 DEF Numbers
<1> QED
  BY <1>1, <1>3, <1>4

LEMMA AtRemoveAt ==
    ASSUME NEW X, NEW q \in Seq(X), NEW i \in 1..Len(q), NEW x
    PROVE  /\ RemoveAt(q, i) \in Seq(X) /\ Len(RemoveAt(q, i)) = Len(q) - 1
           /\ \A k \in Numbers : k < i => At(RemoveAt(q, i), k, x) = At(q, k, x)
           /\ \A k \in Numbers : k >= i => At(RemoveAt(q, i), k, x) = At(q, k + 1, x)
<1>1. RemoveAt(q, i) \in Seq(X) /\ Len(RemoveAt(q, i)) = Len(q) - 1
  BY RemoveAtIs
<1>2. DOMAIN RemoveAt(q, i) = 1..(Len(q) - 1) /\ DOMAIN q = 1..Len(q) /\ Len(q) \in Nat
  BY <1>1
<1>3. ASSUME NEW k \in Numbers
      PROVE  /\ k < i => At(RemoveAt(q, i), k, x) = At(q, k, x)
             /\ k >= i => At(RemoveAt(q, i), k, x) = At(q, k + 1, x)
  <2>0. k \in Nat \ {0}
    BY DEF Numbers
  <2>1. CASE k \in 1..(Len(q) - 1)
    <3>1. RemoveAt(q, i)[k] = IF k < i THEN q[k] ELSE q[k + 1]
      BY <2>1, RemoveAtIs
    <3>2. k \in 1..Len(q) /\ k + 1 \in 1..Len(q)
      BY <2>1, <1>2
    <3> QED
      BY <3>1, <3>2, <2>1, <1>2 DEF At
  <2>2. CASE k \notin 1..(Len(q) - 1)
    <3>1. k >= i /\ ~(k < i) /\ k + 1 \notin 1..Len(q)
      BY <2>0, <2>2, <1>2
    <3> QED
      BY <3>1, <2>2, <1>2 DEF At
  <2> QED
    BY <2>1, <2>2
<1> QED
  BY <1>1, <1>3

-----------------------------------------------------------------------------
(* Folds, one step at a time.                                               *)

\* f[k] is what a fold has after k of n steps, from b; X has all of them.
Runs(f, n, X, b, F) ==
    /\ f \in [0..n -> X]
    /\ f[0] = b
    /\ \A k \in 1..n : f[k] = F[k][f[k - 1]]

\* The function that MapThenFoldSet builds has the steps of a fold.
LEMMA FoldRuns ==
    ASSUME NEW n \in Nat, NEW X, NEW b \in X, NEW F, StepsIn(F, n, X),
           NEW it, Follows(it, n, X, b, F)
    PROVE  \E f : Runs(f, n, X, b, F) /\ f[n] = it[1..n]
<1>0. /\ F \in [1..n -> [X -> X]]
      /\ it[{}] = b
      /\ \A S \in SUBSET (1..n) : S # {} /\ it[S \ {Max(S)}] \in X =>
           it[S] = F[Max(S)][it[S \ {Max(S)}]]
  BY DEF StepsIn, Follows
<1> DEFINE f == [k \in 0..n |-> it[1..k]]
           P == {k \in 0..n : f[k] \in X /\ (k > 0 => f[k] = F[k][f[k - 1]])}
<1>1. f[0] = b
  <2>1. 1..0 = {}
    OBVIOUS
  <2> QED
    BY <2>1, <1>0
<1>2. 0 \in P
  BY <1>1
<1>3. ASSUME NEW k \in 1..n, k - 1 \in P PROVE k \in P
  <2>1. k - 1 \in 0..n /\ k \in 0..n /\ k > 0 /\ k \in Nat /\ k \in 1..k
    OBVIOUS
  <2>2. f[k - 1] = it[1..(k - 1)] /\ f[k] = it[1..k] /\ f[k - 1] \in X
    BY <2>1, <1>3
  <2>3. 1..k \in SUBSET (1..n) /\ 1..k \in SUBSET (0..n) /\ 1..k # {}
    <3>1. \A x \in 1..k : x \in 1..n /\ x \in 0..n
      BY <2>1
    <3> QED
      BY <2>1, <3>1
  <2>4. Max(1..k) \in 1..k /\ \A x \in 1..k : x <= Max(1..k)
    BY <2>3, LargestExists
  <2>5. Max(1..k) = k
    <3>1. k \in 1..k
      BY <2>1
    <3> QED
      BY <2>1, <2>4, <3>1
  <2>6. (1..k) \ {k} = 1..(k - 1)
    BY <2>1
  <2>7. it[1..k] = F[k][it[1..(k - 1)]]
    BY <2>2, <2>3, <2>5, <2>6, <1>0
  <2>8. F[k][f[k - 1]] \in X
    BY <2>2, <1>0
  <2> HIDE DEF f
  <2> QED
    BY <2>1, <2>2, <2>7, <2>8
<1>4. \A k \in 0..n : k \in P
  <2> HIDE DEF P
  <2>1. \A k \in 1..n : k - 1 \in P => k \in P
    BY <1>3
  <2> QED
    BY <1>2, <2>1, Climb
<1>5. f \in [0..n -> X]
  <2>1. \A k \in 0..n : f[k] \in X
    BY <1>4
  <2> QED
    BY <2>1
<1>6. \A k \in 1..n : f[k] = F[k][f[k - 1]]
  <2> TAKE k \in 1..n
  <2>1. k \in 0..n /\ k > 0
    OBVIOUS
  <2>2. k \in P
    BY <1>4, <2>1
  <2> QED
    BY <2>1, <2>2
<1>7. f[n] = it[1..n]
  OBVIOUS
<1> HIDE DEF f
<1> QED
  BY <1>1, <1>5, <1>6, <1>7 DEF Runs

-----------------------------------------------------------------------------
(* Caches.                                                                  *)

Positions == Numbers \X Numbers
Rows == Seq(Heights \cup {NoHeight})
Caches == Seq(Rows)

\* The height at row r of section s.
HeightAt(h, s, r) == At(At(h, s, <<>>), r, NoHeight)

SameHeights(g, h) == \A s, r \in Numbers : HeightAt(g, s, r) = HeightAt(h, s, r)

Alike(g, h) ==
    /\ DOMAIN g = DOMAIN h
    /\ \A s \in DOMAIN g : DOMAIN g[s] = DOMAIN h[s]

LEMMA EmptyRows == <<>> \in Rows /\ <<>> \in Caches /\ NoHeight \in Heights \cup {NoHeight}
BY DEF Rows, Caches

LEMMA BuildSectionsIs ==
    ASSUME NEW h \in Caches, NEW s \in Nat
    PROVE  /\ BuildSections(h, s) \in Caches
           /\ Len(BuildSections(h, s)) >= s /\ Len(BuildSections(h, s)) >= Len(h)
           /\ \A i \in Nat : At(BuildSections(h, s), i, <<>>) = At(h, i, <<>>)
           /\ \A i \in 1..Len(h) : BuildSections(h, s)[i] = h[i]
<1>1. <<>> \in Rows /\ h \in Seq(Rows)
  BY EmptyRows DEF Caches
<1>2. /\ Padded(h, s, <<>>) \in Seq(Rows)
      /\ Len(Padded(h, s, <<>>)) >= s /\ Len(Padded(h, s, <<>>)) >= Len(h)
  BY <1>1, AtPadded
<1>3. \A i \in Nat : At(Padded(h, s, <<>>), i, <<>>) = At(h, i, <<>>)
  BY <1>1, AtPadded
<1>4. Continues(Padded(h, s, <<>>), h, <<>>)
  BY <1>1, PaddedIs
<1>5. \A i \in 1..Len(h) : Padded(h, s, <<>>)[i] = h[i]
  BY <1>1, <1>2, <1>4 DEF Continues
<1> QED
  BY <1>2, <1>3, <1>5 DEF BuildSections, Caches

LEMMA BuildSectionsAlike ==
    ASSUME NEW g \in Caches, NEW h \in Caches, NEW s \in Nat, Alike(g, h)
    PROVE  Alike(BuildSections(g, s), BuildSections(h, s))
<1>1. <<>> \in Rows /\ h \in Seq(Rows) /\ g \in Seq(Rows)
  BY EmptyRows DEF Caches
<1>2. Len(g) = Len(h) /\ DOMAIN g = 1..Len(g) /\ DOMAIN h = 1..Len(g) /\ Len(g) \in Nat
  BY <1>1 DEF Alike
<1>3. /\ Padded(g, s, <<>>) \in Seq(Rows)
      /\ Padded(h, s, <<>>) \in Seq(Rows)
  BY <1>1, PaddedIs
<1>4. s > Len(g) => Len(Padded(g, s, <<>>)) = s
  BY <1>1, PaddedIs
<1>5. s <= Len(g) => Len(Padded(g, s, <<>>)) = Len(g)
  BY <1>1, PaddedIs
<1>6. s > Len(h) => Len(Padded(h, s, <<>>)) = s
  BY <1>1, PaddedIs
<1>7. s <= Len(h) => Len(Padded(h, s, <<>>)) = Len(h)
  BY <1>1, PaddedIs
<1>8. Len(Padded(g, s, <<>>)) = Len(Padded(h, s, <<>>))
  BY <1>2, <1>4, <1>5, <1>6, <1>7
<1>9. Continues(Padded(g, s, <<>>), g, <<>>)
  BY <1>1, PaddedIs
<1>10. Continues(Padded(h, s, <<>>), h, <<>>)
  BY <1>1, PaddedIs
<1>11. ASSUME NEW k \in 1..Len(Padded(g, s, <<>>))
       PROVE  DOMAIN Padded(g, s, <<>>)[k] = DOMAIN Padded(h, s, <<>>)[k]
  <2>1. k <= Len(g) => k \in DOMAIN g
    BY <1>2, <1>3
  <2> QED
    BY <2>1, <1>2, <1>8, <1>9, <1>10 DEF Alike, Continues
<1> QED
  BY <1>3, <1>8, <1>11 DEF Alike, BuildSections

\* The other sections of a cache when one of them changes.
LEMMA AtExcept ==
    ASSUME NEW h \in Caches, NEW s \in DOMAIN h, NEW x \in Rows
    PROVE  /\ [h EXCEPT ![s] = x] \in Caches
           /\ DOMAIN [h EXCEPT ![s] = x] = DOMAIN h
           /\ Len([h EXCEPT ![s] = x]) = Len(h)
           /\ [h EXCEPT ![s] = x][s] = x
           /\ \A i \in DOMAIN h : i # s => [h EXCEPT ![s] = x][i] = h[i]
           /\ At([h EXCEPT ![s] = x], s, <<>>) = x
           /\ \A i \in Numbers : i # s => At([h EXCEPT ![s] = x], i, <<>>) = At(h, i, <<>>)
<1>1. h \in Seq(Rows) /\ DOMAIN h = 1..Len(h) /\ Len(h) \in Nat
  BY DEF Caches
<1> DEFINE g == [h EXCEPT ![s] = x]
<1>2. g \in Seq(Rows) /\ DOMAIN g = DOMAIN h /\ Len(g) = Len(h)
  BY <1>1
<1>3. g[s] = x /\ \A i \in DOMAIN h : i # s => g[i] = h[i]
  BY <1>1
<1> HIDE DEF g
<1>4. At(g, s, <<>>) = x /\ \A i \in Numbers : i # s => At(g, i, <<>>) = At(h, i, <<>>)
  BY <1>2, <1>3 DEF At
<1> QED
  BY <1>2, <1>3, <1>4 DEF g, Caches

LEMMA BuildCacheIs ==
    ASSUME NEW h \in Caches, NEW p \in Positions
    PROVE  /\ BuildCache(h, p) \in Caches
           /\ p[1] \in DOMAIN BuildCache(h, p)
           /\ Len(BuildCache(h, p)[p[1]]) >= p[2]
           /\ Len(BuildCache(h, p)) >= Len(h)
           /\ \A s \in 1..Len(h) : Len(BuildCache(h, p)[s]) >= Len(h[s])
           /\ SameHeights(BuildCache(h, p), h)
<1>1. p[1] \in Nat /\ p[2] \in Nat /\ p[1] >= 1 /\ p[2] >= 1
  BY DEF Positions, Numbers
<1> DEFINE g == BuildSections(h, p[1])
<1>2. g \in Caches /\ Len(g) >= p[1] /\ Len(g) >= Len(h)
  BY <1>1, BuildSectionsIs
<1>3. \A i \in Nat : At(g, i, <<>>) = At(h, i, <<>>)
  BY <1>1, BuildSectionsIs
<1>4. \A i \in 1..Len(h) : g[i] = h[i]
  BY <1>1, BuildSectionsIs
<1> HIDE DEF g
<1>5. g \in Seq(Rows) /\ h \in Seq(Rows) /\ DOMAIN g = 1..Len(g) /\ Len(g) \in Nat /\ Len(h) \in Nat
  BY <1>2 DEF Caches
<1>6. p[1] \in DOMAIN g /\ g[p[1]] \in Rows
  BY <1>1, <1>2, <1>5
<1> DEFINE x == Padded(g[p[1]], p[2], NoHeight)
<1>7. g[p[1]] \in Seq(Heights \cup {NoHeight}) /\ NoHeight \in Heights \cup {NoHeight}
  BY <1>6 DEF Rows
<1>8. x \in Seq(Heights \cup {NoHeight}) /\ Len(x) >= p[2] /\ Len(x) >= Len(g[p[1]])
  BY <1>1, <1>7, AtPadded
<1>9. \A i \in Nat : At(x, i, NoHeight) = At(g[p[1]], i, NoHeight)
  <2> DEFINE X == Heights \cup {NoHeight}  u == g[p[1]]
  <2>1. NoHeight \in X /\ u \in Seq(X) /\ p[2] \in Nat
    BY <1>1, <1>7
  <2> HIDE DEF X, u
  <2>2. \A i \in Nat : At(Padded(u, p[2], NoHeight), i, NoHeight) = At(u, i, NoHeight)
    BY <2>1, AtPadded
  <2> QED
    BY <2>2 DEF u
<1>10. x \in Rows
  BY <1>8 DEF Rows
<1>11. BuildCache(h, p) = [g EXCEPT ![p[1]] = x]
  BY DEF BuildCache, g
<1> HIDE DEF x
<1> DEFINE c == [g EXCEPT ![p[1]] = x]
<1>12. c \in Caches /\ DOMAIN c = DOMAIN g /\ Len(c) = Len(g)
  BY <1>2, <1>6, <1>10, AtExcept
<1>13. c[p[1]] = x
  BY <1>2, <1>6, <1>10, AtExcept
<1>14. \A i \in DOMAIN g : i # p[1] => c[i] = g[i]
  BY <1>2, <1>6, <1>10, AtExcept
<1>15. At(c, p[1], <<>>) = x
  BY <1>2, <1>6, <1>10, AtExcept
<1>16. \A i \in Numbers : i # p[1] => At(c, i, <<>>) = At(g, i, <<>>)
  BY <1>2, <1>6, <1>10, AtExcept
<1> HIDE DEF c
<1>17. At(g, p[1], <<>>) = g[p[1]]
  BY <1>6 DEF At
<1>18. SameHeights(c, h)
  <2> SUFFICES ASSUME NEW s \in Numbers, NEW r \in Numbers
               PROVE  HeightAt(c, s, r) = HeightAt(h, s, r)
    BY DEF SameHeights
  <2>1. s \in Nat /\ r \in Nat
    BY DEF Numbers
  <2>2. CASE s = p[1]
    <3>1. HeightAt(c, s, r) = At(g[p[1]], r, NoHeight)
      BY <2>2, <1>15, <1>9, <2>1 DEF HeightAt
    <3>2. At(h, s, <<>>) = g[p[1]]
      BY <2>2, <1>17, <1>3, <2>1
    <3> QED
      BY <3>1, <3>2 DEF HeightAt
  <2>3. CASE s # p[1]
    BY <2>3, <1>16, <1>3, <2>1 DEF HeightAt
  <2> QED
    BY <2>2, <2>3
<1>19. ASSUME NEW s \in 1..Len(h) PROVE Len(c[s]) >= Len(h[s])
  <2>1. s \in DOMAIN g /\ g[s] = h[s] /\ h[s] \in Rows /\ Len(h[s]) \in Nat
    <3>1. h[s] \in Rows
      BY <1>5
    <3>2. Len(h[s]) \in Nat
      BY <3>1 DEF Rows
    <3> QED
      BY <3>1, <3>2, <1>2, <1>4, <1>5
  <2>2. CASE s = p[1]
    BY <2>1, <2>2, <1>13, <1>8
  <2>3. CASE s # p[1]
    BY <2>1, <2>3, <1>14
  <2> QED
    BY <2>2, <2>3
<1> QED
  BY <1>2, <1>6, <1>8, <1>11, <1>12, <1>13, <1>18, <1>19 DEF c

\* Sections of caches that are alike stay alike when they change alike.
LEMMA AlikeExcept ==
    ASSUME NEW g, NEW h, Alike(g, h), NEW s, NEW x, NEW y, DOMAIN x = DOMAIN y
    PROVE  Alike([g EXCEPT ![s] = x], [h EXCEPT ![s] = y])
<1>1. DOMAIN g = DOMAIN h /\ \A i \in DOMAIN g : DOMAIN g[i] = DOMAIN h[i]
  BY DEF Alike
<1>2. DOMAIN [g EXCEPT ![s] = x] = DOMAIN g /\ DOMAIN [h EXCEPT ![s] = y] = DOMAIN g
  BY <1>1
<1>3. ASSUME NEW i \in DOMAIN g
      PROVE  DOMAIN [g EXCEPT ![s] = x][i] = DOMAIN [h EXCEPT ![s] = y][i]
  <2>1. CASE i = s
    BY <2>1, <1>1
  <2>2. CASE i # s
    <3>1. [g EXCEPT ![s] = x][i] = g[i] /\ [h EXCEPT ![s] = y][i] = h[i]
      BY <2>2, <1>1
    <3> QED
      BY <3>1, <1>1
  <2> QED
    BY <2>1, <2>2
<1> QED
  BY <1>2, <1>3 DEF Alike

LEMMA PaddedAlike ==
    ASSUME NEW X, NEW x \in X, NEW g \in Seq(X), NEW h \in Seq(X), NEW n \in Nat,
           DOMAIN g = DOMAIN h
    PROVE  DOMAIN Padded(g, n, x) = DOMAIN Padded(h, n, x)
<1>1. Padded(g, n, x) \in Seq(X) /\ Padded(h, n, x) \in Seq(X)
  BY PaddedIs
<1>2. Len(g) = Len(h) /\ Len(g) \in Nat
  OBVIOUS
<1>3. n > Len(g) => Len(Padded(g, n, x)) = n
  BY PaddedIs
<1>4. n <= Len(g) => Len(Padded(g, n, x)) = Len(g)
  BY PaddedIs
<1>5. n > Len(h) => Len(Padded(h, n, x)) = n
  BY PaddedIs
<1>6. n <= Len(h) => Len(Padded(h, n, x)) = Len(h)
  BY PaddedIs
<1>7. Len(Padded(g, n, x)) = Len(Padded(h, n, x))
  BY <1>2, <1>3, <1>4, <1>5, <1>6
<1> QED
  BY <1>1, <1>7

LEMMA BuildCacheAlike ==
    ASSUME NEW g \in Caches, NEW h \in Caches, NEW p \in Positions, Alike(g, h)
    PROVE  Alike(BuildCache(g, p), BuildCache(h, p))
<1>1. p[1] \in Nat /\ p[2] \in Nat /\ p[1] >= 1 /\ p[2] >= 1
  BY DEF Positions, Numbers
<1> DEFINE b == BuildSections(g, p[1])  c == BuildSections(h, p[1])
<1>2. Alike(b, c)
  BY <1>1, BuildSectionsAlike
<1>3. b \in Caches /\ Len(b) >= p[1]
  BY <1>1, BuildSectionsIs
<1>4. c \in Caches /\ Len(c) >= p[1]
  BY <1>1, BuildSectionsIs
<1> HIDE DEF b, c
<1>5. b[p[1]] \in Rows /\ c[p[1]] \in Rows /\ p[1] \in DOMAIN b
  BY <1>1, <1>3, <1>4 DEF Caches
<1>6. DOMAIN b[p[1]] = DOMAIN c[p[1]]
  BY <1>2, <1>5 DEF Alike
<1>7. DOMAIN Padded(b[p[1]], p[2], NoHeight) = DOMAIN Padded(c[p[1]], p[2], NoHeight)
  <2> DEFINE X == Heights \cup {NoHeight}  u == b[p[1]]  v == c[p[1]]
  <2>1. NoHeight \in X /\ u \in Seq(X) /\ v \in Seq(X) /\ p[2] \in Nat
    BY <1>1, <1>5 DEF Rows
  <2>2. DOMAIN u = DOMAIN v
    BY <1>6
  <2> HIDE DEF X, u, v
  <2>3. DOMAIN Padded(u, p[2], NoHeight) = DOMAIN Padded(v, p[2], NoHeight)
    BY <2>1, <2>2, PaddedAlike
  <2> QED
    BY <2>3 DEF u, v
<1> QED
  BY <1>2, <1>7, AlikeExcept DEF BuildCache, b, c

-----------------------------------------------------------------------------
(* buildCachesAtIndexPathsIfNeeded:                                         *)

LEMMA BuildCachesRuns ==
    ASSUME NEW h \in Caches, NEW q \in Seq(Positions)
    PROVE  \E f \in [0..Len(q) -> Caches] :
             /\ f[0] = h /\ f[Len(q)] = BuildCaches(h, q)
             /\ \A k \in 1..Len(q) : f[k] = BuildCache(f[k - 1], q[k])
<1> DEFINE n == Len(q)
           F == [k \in 1..n |-> [g \in Caches |-> BuildCache(g, q[k])]]
           Eq(it) == it = [S \in SUBSET (1..n) |->
                             IF S = {} THEN h ELSE BuildCache(it[S \ {Max(S)}], q[Max(S)])]
           solution == CHOOSE it : Eq(it)
<1>1. n \in Nat /\ DOMAIN q = 1..n /\ \A k \in 1..n : q[k] \in Positions
  OBVIOUS
<1>2. BuildCaches(h, q) = solution[1..n]
  BY <1>1 DEF BuildCaches, FoldLeft, MapThenFoldSet
<1> HIDE DEF n
<1>3. StepsIn(F, n, Caches)
  BY <1>1, BuildCacheIs DEF StepsIn
<1>4. \A k \in 1..n : \A g \in Caches : F[k][g] = BuildCache(g, q[k])
  OBVIOUS
<1> HIDE DEF F
<1>5. PICK it : Solves(it, n, Caches, h, F)
  BY <1>1, <1>3, FoldExists
<1>6. Eq(it)
  <2>1. ASSUME NEW S \in SUBSET (1..n), S # {}
        PROVE  it[S] = BuildCache(it[S \ {Max(S)}], q[Max(S)])
    <3>1. S \ {Max(S)} \in SUBSET (1..n)
      OBVIOUS
    <3>2. it[S \ {Max(S)}] \in Caches
      BY <3>1, <1>5 DEF Solves
    <3> QED
      BY <1>4, <1>5, <2>1, <3>2 DEF Solves
  <2> QED
    BY <1>5, <2>1 DEF Solves
<1>7. Eq(solution)
  BY <1>6
<1> HIDE DEF solution
<1>8. solution[{}] = h
  BY <1>7
<1>9. Follows(solution, n, Caches, h, F)
  <2> SUFFICES ASSUME NEW S \in SUBSET (1..n), S # {}, solution[S \ {Max(S)}] \in Caches
               PROVE  solution[S] = F[Max(S)][solution[S \ {Max(S)}]]
    BY <1>8 DEF Follows
  <2>1. Max(S) \in 1..n
    BY <1>5 DEF Solves
  <2> QED
    BY <1>4, <1>7, <2>1
<1>10. PICK f : Runs(f, n, Caches, h, F) /\ f[n] = solution[1..n]
  BY <1>1, <1>3, <1>9, FoldRuns
<1>11. f \in [0..n -> Caches] /\ f[0] = h /\ f[n] = BuildCaches(h, q)
  BY <1>2, <1>10 DEF Runs
<1>12. ASSUME NEW k \in 1..n PROVE f[k] = BuildCache(f[k - 1], q[k])
  <2>1. k - 1 \in 0..n
    BY <1>1
  <2> QED
    BY <2>1, <1>4, <1>10, <1>11 DEF Runs
<1> QED
  BY <1>11, <1>12 DEF n

-----------------------------------------------------------------------------
(* Sections.                                                                *)

\* One section more, less, or emptied.
LEMMA InsertSectionIs ==
    ASSUME NEW g \in Caches, NEW s \in Numbers
    PROVE  /\ InsertAt(BuildSections(g, s), s, <<>>) \in Caches
           /\ \A i \in Numbers : i < s =>
                At(InsertAt(BuildSections(g, s), s, <<>>), i, <<>>) = At(g, i, <<>>)
           /\ At(InsertAt(BuildSections(g, s), s, <<>>), s, <<>>) = <<>>
           /\ \A i \in Numbers : i > s =>
                At(InsertAt(BuildSections(g, s), s, <<>>), i, <<>>) = At(g, i - 1, <<>>)
<1> DEFINE b == BuildSections(g, s)
<1>1. s \in Nat /\ s >= 1
  BY DEF Numbers
<1>2. b \in Caches /\ Len(b) >= s
  BY <1>1, BuildSectionsIs
<1>3. \A i \in Nat : At(b, i, <<>>) = At(g, i, <<>>)
  BY <1>1, BuildSectionsIs
<1> HIDE DEF b
<1>4. b \in Seq(Rows) /\ Len(b) \in Nat /\ s \in 1..(Len(b) + 1) /\ <<>> \in Rows
  BY <1>1, <1>2, EmptyRows DEF Caches
<1>5. InsertAt(b, s, <<>>) \in Seq(Rows)
  BY <1>4, AtInsertAt
<1> DEFINE x == <<>>
<1>12. x \in Rows
  BY <1>4
<1> HIDE DEF x
<1>13. \A k \in Numbers : k < s => At(InsertAt(b, s, x), k, x) = At(b, k, x)
  BY <1>4, <1>12, AtInsertBlank
<1>14. \A k \in Numbers : k > s => At(InsertAt(b, s, x), k, x) = At(b, k - 1, x)
  BY <1>4, <1>12, AtInsertBlank
<1>6. \A k \in Numbers : k < s => At(InsertAt(b, s, <<>>), k, <<>>) = At(b, k, <<>>)
  BY <1>13 DEF x
<1>7. \A k \in Numbers : k > s => At(InsertAt(b, s, <<>>), k, <<>>) = At(b, k - 1, <<>>)
  BY <1>14 DEF x
<1>8. InsertAt(b, s, <<>>) \in Caches
  BY <1>5 DEF Caches
<1>9. \A i \in Numbers : i < s => At(InsertAt(b, s, <<>>), i, <<>>) = At(g, i, <<>>)
  <2> TAKE i \in Numbers
  <2>1. i \in Nat \ {0}
    BY DEF Numbers
  <2> QED
    BY <2>1, <1>3, <1>6, <1>7
<1>10. At(InsertAt(b, s, <<>>), s, <<>>) = <<>>
  BY <1>4, AtInsertAt
<1>11. \A i \in Numbers : i > s => At(InsertAt(b, s, <<>>), i, <<>>) = At(g, i - 1, <<>>)
  <2> TAKE i \in Numbers
  <2>1. i \in Nat \ {0} /\ i - 1 \in Nat
    BY DEF Numbers
  <2> QED
    BY <2>1, <1>3, <1>6, <1>7
<1> QED
  BY <1>8, <1>9, <1>10, <1>11 DEF b

LEMMA DeleteSectionIs ==
    ASSUME NEW g \in Caches, NEW s \in Numbers
    PROVE  /\ RemoveAt(BuildSections(g, s), s) \in Caches
           /\ \A i \in Numbers : i < s =>
                At(RemoveAt(BuildSections(g, s), s), i, <<>>) = At(g, i, <<>>)
           /\ \A i \in Numbers : i >= s =>
                At(RemoveAt(BuildSections(g, s), s), i, <<>>) = At(g, i + 1, <<>>)
<1> DEFINE b == BuildSections(g, s)
<1>1. s \in Nat /\ s >= 1
  BY DEF Numbers
<1>2. b \in Caches /\ Len(b) >= s
  BY <1>1, BuildSectionsIs
<1>3. \A i \in Nat : At(b, i, <<>>) = At(g, i, <<>>)
  BY <1>1, BuildSectionsIs
<1> HIDE DEF b
<1>4. b \in Seq(Rows) /\ Len(b) \in Nat /\ s \in 1..Len(b)
  BY <1>1, <1>2 DEF Caches
<1>5. RemoveAt(b, s) \in Seq(Rows)
  BY <1>4, AtRemoveAt
<1>6. \A k \in Numbers : k < s => At(RemoveAt(b, s), k, <<>>) = At(b, k, <<>>)
  BY <1>4, AtRemoveAt
<1>7. \A k \in Numbers : k >= s => At(RemoveAt(b, s), k, <<>>) = At(b, k + 1, <<>>)
  BY <1>4, AtRemoveAt
<1>8. RemoveAt(b, s) \in Caches
  BY <1>5 DEF Caches
<1>9. \A i \in Numbers : i < s => At(RemoveAt(b, s), i, <<>>) = At(g, i, <<>>)
  <2> TAKE i \in Numbers
  <2>1. i \in Nat \ {0}
    BY DEF Numbers
  <2> QED
    BY <2>1, <1>3, <1>6, <1>7
<1>10. \A i \in Numbers : i >= s => At(RemoveAt(b, s), i, <<>>) = At(g, i + 1, <<>>)
  <2> TAKE i \in Numbers
  <2>1. i \in Nat \ {0} /\ i + 1 \in Nat
    BY DEF Numbers
  <2> QED
    BY <2>1, <1>3, <1>6, <1>7
<1> QED
  BY <1>8, <1>9, <1>10 DEF b

SectionEmptied(g, s) == [BuildSections(g, s) EXCEPT ![s] = <<>>]

LEMMA ReloadSectionIs ==
    ASSUME NEW g \in Caches, NEW s \in Numbers
    PROVE  /\ SectionEmptied(g, s) \in Caches
           /\ At(SectionEmptied(g, s), s, <<>>) = <<>>
           /\ \A i \in Numbers : i # s => At(SectionEmptied(g, s), i, <<>>) = At(g, i, <<>>)
<1> DEFINE b == BuildSections(g, s)
<1>1. s \in Nat /\ s >= 1
  BY DEF Numbers
<1>2. b \in Caches /\ Len(b) >= s
  BY <1>1, BuildSectionsIs
<1>3. \A i \in Nat : At(b, i, <<>>) = At(g, i, <<>>)
  BY <1>1, BuildSectionsIs
<1> HIDE DEF b
<1>4. s \in DOMAIN b /\ <<>> \in Rows
  BY <1>1, <1>2, EmptyRows DEF Caches
<1>5. [b EXCEPT ![s] = <<>>] \in Caches
  BY <1>2, <1>4, AtExcept
<1>6. At([b EXCEPT ![s] = <<>>], s, <<>>) = <<>>
  BY <1>2, <1>4, AtExcept
<1>7. \A i \in Numbers : i # s => At([b EXCEPT ![s] = <<>>], i, <<>>) = At(b, i, <<>>)
  BY <1>2, <1>4, AtExcept
<1>8. \A i \in Numbers : i \in Nat
  BY DEF Numbers
<1> QED
  BY <1>3, <1>5, <1>6, <1>7, <1>8 DEF b, SectionEmptied

\* fd_insertSections:
LEMMA InsertSectionsRuns ==
    ASSUME NEW h \in Caches, NEW m \in Nat, NEW S \in SUBSET (1..m)
    PROVE  \E f \in [0..Cardinality(S) -> Caches] :
             /\ f[0] = h /\ f[Cardinality(S)] = InsertSections(h, S)
             /\ \A k \in 1..Cardinality(S) :
                  f[k] = InsertAt(BuildSections(f[k - 1], Ascending(S)[k]), Ascending(S)[k], <<>>)
<1> DEFINE n == Cardinality(S)
           q == Ascending(S)
           X == Caches
           b == h
           Step(g, e) == InsertAt(BuildSections(g, e), e, <<>>)
           F == [k \in 1..n |-> [g \in X |-> Step(g, q[k])]]
           Eq(it) == it = [T \in SUBSET (1..n) |->
                             IF T = {} THEN b ELSE Step(it[T \ {Max(T)}], q[Max(T)])]
           solution == CHOOSE it : Eq(it)
<1>0. S \in SUBSET (1..m) /\ b \in X
  OBVIOUS
<1>1. n \in Nat /\ DOMAIN q = 1..n /\ \A k \in 1..n : q[k] \in Numbers
  <2>1. Cardinality(S) \in Nat /\ Ascending(S) \in [1..Cardinality(S) -> S]
    BY <1>0, AscendingRises
  <2>2. S \subseteq Numbers
    BY DEF Numbers
  <2> QED
    BY <2>1, <2>2
<1>2. InsertSections(h, S) = solution[1..n]
  BY <1>1 DEF InsertSections, FoldLeft, MapThenFoldSet
<1> HIDE DEF n, q, X, b
<1>3. StepsIn(F, n, X)
  <2>1. \A k \in 1..n : \A g \in X : Step(g, q[k]) \in X
    BY <1>1, InsertSectionIs DEF X
  <2> QED
    BY <2>1 DEF StepsIn
<1>4. \A k \in 1..n : \A g \in X : F[k][g] = Step(g, q[k])
  OBVIOUS
<1> HIDE DEF F
<1>5. PICK it : Solves(it, n, X, b, F)
  BY <1>0, <1>1, <1>3, FoldExists
<1>6. Eq(it)
  <2>1. ASSUME NEW T \in SUBSET (1..n), T # {}
        PROVE  it[T] = Step(it[T \ {Max(T)}], q[Max(T)])
    <3>1. T \ {Max(T)} \in SUBSET (1..n)
      OBVIOUS
    <3>2. it[T \ {Max(T)}] \in X
      BY <3>1, <1>5 DEF Solves
    <3>3. Max(T) \in 1..n /\ it[T] = F[Max(T)][it[T \ {Max(T)}]]
      BY <1>5, <2>1 DEF Solves
    <3> QED
      BY <1>4, <3>2, <3>3
  <2>2. it = [T \in SUBSET (1..n) |-> it[T]] /\ it[{}] = b
    BY <1>5 DEF Solves
  <2> QED
    BY <2>1, <2>2
<1>7. Eq(solution)
  BY <1>6
<1> HIDE DEF solution
<1>8. solution[{}] = b
  BY <1>7
<1>9. Follows(solution, n, X, b, F)
  <2> SUFFICES ASSUME NEW T \in SUBSET (1..n), T # {}, solution[T \ {Max(T)}] \in X
               PROVE  solution[T] = F[Max(T)][solution[T \ {Max(T)}]]
    BY <1>8 DEF Follows
  <2>1. Max(T) \in 1..n
    BY <1>5 DEF Solves
  <2>2. solution[T] = Step(solution[T \ {Max(T)}], q[Max(T)])
    BY <1>7
  <2> QED
    BY <1>4, <2>1, <2>2
<1>10. PICK f : Runs(f, n, X, b, F) /\ f[n] = solution[1..n]
  BY <1>0, <1>1, <1>3, <1>9, FoldRuns
<1>11. f \in [0..n -> X] /\ f[0] = b /\ f[n] = InsertSections(h, S)
  BY <1>2, <1>10 DEF Runs
<1>12. ASSUME NEW k \in 1..n PROVE f[k] = Step(f[k - 1], q[k])
  <2>1. k - 1 \in 0..n
    BY <1>1
  <2>2. f[k - 1] \in X /\ f[k] = F[k][f[k - 1]]
    BY <2>1, <1>10, <1>11 DEF Runs
  <2> QED
    BY <2>2, <1>4
<1> QED
  BY <1>11, <1>12 DEF n, q, X, b

\* fd_deleteSections:
LEMMA DeleteSectionsRuns ==
    ASSUME NEW h \in Caches, NEW m \in Nat, NEW S \in SUBSET (1..m)
    PROVE  \E f \in [0..Cardinality(S) -> Caches] :
             /\ f[0] = h /\ f[Cardinality(S)] = DeleteSections(h, S)
             /\ \A k \in 1..Cardinality(S) :
                  f[k] = RemoveAt(BuildSections(f[k - 1], Ascending(S)[k]), Ascending(S)[k])
<1> DEFINE n == Cardinality(S)
           q == Ascending(S)
           X == Caches
           b == h
           Step(g, e) == RemoveAt(BuildSections(g, e), e)
           F == [k \in 1..n |-> [g \in X |-> Step(g, q[k])]]
           Eq(it) == it = [T \in SUBSET (1..n) |->
                             IF T = {} THEN b ELSE Step(it[T \ {Max(T)}], q[Max(T)])]
           solution == CHOOSE it : Eq(it)
<1>0. S \in SUBSET (1..m) /\ b \in X
  OBVIOUS
<1>1. n \in Nat /\ DOMAIN q = 1..n /\ \A k \in 1..n : q[k] \in Numbers
  <2>1. Cardinality(S) \in Nat /\ Ascending(S) \in [1..Cardinality(S) -> S]
    BY <1>0, AscendingRises
  <2>2. S \subseteq Numbers
    BY DEF Numbers
  <2> QED
    BY <2>1, <2>2
<1>2. DeleteSections(h, S) = solution[1..n]
  BY <1>1 DEF DeleteSections, FoldLeft, MapThenFoldSet
<1> HIDE DEF n, q, X, b
<1>3. StepsIn(F, n, X)
  <2>1. \A k \in 1..n : \A g \in X : Step(g, q[k]) \in X
    BY <1>1, DeleteSectionIs DEF X
  <2> QED
    BY <2>1 DEF StepsIn
<1>4. \A k \in 1..n : \A g \in X : F[k][g] = Step(g, q[k])
  OBVIOUS
<1> HIDE DEF F
<1>5. PICK it : Solves(it, n, X, b, F)
  BY <1>0, <1>1, <1>3, FoldExists
<1>6. Eq(it)
  <2>1. ASSUME NEW T \in SUBSET (1..n), T # {}
        PROVE  it[T] = Step(it[T \ {Max(T)}], q[Max(T)])
    <3>1. T \ {Max(T)} \in SUBSET (1..n)
      OBVIOUS
    <3>2. it[T \ {Max(T)}] \in X
      BY <3>1, <1>5 DEF Solves
    <3>3. Max(T) \in 1..n /\ it[T] = F[Max(T)][it[T \ {Max(T)}]]
      BY <1>5, <2>1 DEF Solves
    <3> QED
      BY <1>4, <3>2, <3>3
  <2>2. it = [T \in SUBSET (1..n) |-> it[T]] /\ it[{}] = b
    BY <1>5 DEF Solves
  <2> QED
    BY <2>1, <2>2
<1>7. Eq(solution)
  BY <1>6
<1> HIDE DEF solution
<1>8. solution[{}] = b
  BY <1>7
<1>9. Follows(solution, n, X, b, F)
  <2> SUFFICES ASSUME NEW T \in SUBSET (1..n), T # {}, solution[T \ {Max(T)}] \in X
               PROVE  solution[T] = F[Max(T)][solution[T \ {Max(T)}]]
    BY <1>8 DEF Follows
  <2>1. Max(T) \in 1..n
    BY <1>5 DEF Solves
  <2>2. solution[T] = Step(solution[T \ {Max(T)}], q[Max(T)])
    BY <1>7
  <2> QED
    BY <1>4, <2>1, <2>2
<1>10. PICK f : Runs(f, n, X, b, F) /\ f[n] = solution[1..n]
  BY <1>0, <1>1, <1>3, <1>9, FoldRuns
<1>11. f \in [0..n -> X] /\ f[0] = b /\ f[n] = DeleteSections(h, S)
  BY <1>2, <1>10 DEF Runs
<1>12. ASSUME NEW k \in 1..n PROVE f[k] = Step(f[k - 1], q[k])
  <2>1. k - 1 \in 0..n
    BY <1>1
  <2>2. f[k - 1] \in X /\ f[k] = F[k][f[k - 1]]
    BY <2>1, <1>10, <1>11 DEF Runs
  <2> QED
    BY <2>2, <1>4
<1> QED
  BY <1>11, <1>12 DEF n, q, X, b

\* fd_reloadSections:
LEMMA ReloadSectionsRuns ==
    ASSUME NEW h \in Caches, NEW m \in Nat, NEW S \in SUBSET (1..m)
    PROVE  \E f \in [0..Cardinality(S) -> Caches] :
             /\ f[0] = h /\ f[Cardinality(S)] = ReloadSections(h, S)
             /\ \A k \in 1..Cardinality(S) :
                  f[k] = SectionEmptied(f[k - 1], Ascending(S)[k])
<1> DEFINE n == Cardinality(S)
           q == Ascending(S)
           X == Caches
           b == h
           Step(g, e) == SectionEmptied(g, e)
           F == [k \in 1..n |-> [g \in X |-> Step(g, q[k])]]
           Eq(it) == it = [T \in SUBSET (1..n) |->
                             IF T = {} THEN b ELSE Step(it[T \ {Max(T)}], q[Max(T)])]
           solution == CHOOSE it : Eq(it)
<1>0. S \in SUBSET (1..m) /\ b \in X
  OBVIOUS
<1>1. n \in Nat /\ DOMAIN q = 1..n /\ \A k \in 1..n : q[k] \in Numbers
  <2>1. Cardinality(S) \in Nat /\ Ascending(S) \in [1..Cardinality(S) -> S]
    BY <1>0, AscendingRises
  <2>2. S \subseteq Numbers
    BY DEF Numbers
  <2> QED
    BY <2>1, <2>2
<1>2. ReloadSections(h, S) = solution[1..n]
  BY <1>1 DEF ReloadSections, SectionEmptied, FoldLeft, MapThenFoldSet
<1> HIDE DEF n, q, X, b
<1>3. StepsIn(F, n, X)
  <2>1. \A k \in 1..n : \A g \in X : Step(g, q[k]) \in X
    BY <1>1, ReloadSectionIs DEF X
  <2> QED
    BY <2>1 DEF StepsIn
<1>4. \A k \in 1..n : \A g \in X : F[k][g] = Step(g, q[k])
  OBVIOUS
<1> HIDE DEF F
<1>5. PICK it : Solves(it, n, X, b, F)
  BY <1>0, <1>1, <1>3, FoldExists
<1>6. Eq(it)
  <2>1. ASSUME NEW T \in SUBSET (1..n), T # {}
        PROVE  it[T] = Step(it[T \ {Max(T)}], q[Max(T)])
    <3>1. T \ {Max(T)} \in SUBSET (1..n)
      OBVIOUS
    <3>2. it[T \ {Max(T)}] \in X
      BY <3>1, <1>5 DEF Solves
    <3>3. Max(T) \in 1..n /\ it[T] = F[Max(T)][it[T \ {Max(T)}]]
      BY <1>5, <2>1 DEF Solves
    <3> QED
      BY <1>4, <3>2, <3>3
  <2>2. it = [T \in SUBSET (1..n) |-> it[T]] /\ it[{}] = b
    BY <1>5 DEF Solves
  <2> QED
    BY <2>1, <2>2
<1>7. Eq(solution)
  BY <1>6
<1> HIDE DEF solution
<1>8. solution[{}] = b
  BY <1>7
<1>9. Follows(solution, n, X, b, F)
  <2> SUFFICES ASSUME NEW T \in SUBSET (1..n), T # {}, solution[T \ {Max(T)}] \in X
               PROVE  solution[T] = F[Max(T)][solution[T \ {Max(T)}]]
    BY <1>8 DEF Follows
  <2>1. Max(T) \in 1..n
    BY <1>5 DEF Solves
  <2>2. solution[T] = Step(solution[T \ {Max(T)}], q[Max(T)])
    BY <1>7
  <2> QED
    BY <1>4, <2>1, <2>2
<1>10. PICK f : Runs(f, n, X, b, F) /\ f[n] = solution[1..n]
  BY <1>0, <1>1, <1>3, <1>9, FoldRuns
<1>11. f \in [0..n -> X] /\ f[0] = b /\ f[n] = ReloadSections(h, S)
  BY <1>2, <1>10 DEF Runs
<1>12. ASSUME NEW k \in 1..n PROVE f[k] = Step(f[k - 1], q[k])
  <2>1. k - 1 \in 0..n
    BY <1>1
  <2>2. f[k - 1] \in X /\ f[k] = F[k][f[k - 1]]
    BY <2>1, <1>10, <1>11 DEF Runs
  <2> QED
    BY <2>2, <1>4
<1> QED
  BY <1>11, <1>12 DEF n, q, X, b

-----------------------------------------------------------------------------
(* Insertions, in ascending order, of blanks.                               *)

LEMMA BeforeIs ==
    ASSUME NEW S \in SUBSET Numbers, IsFiniteSet(S), NEW i \in Numbers
    PROVE  /\ Before(S, i) \in Nat /\ Before(S, i) <= Cardinality(S)
           /\ Before(S, i) < i
<1> DEFINE B == {j \in S : j < i}
<1>0. i \in Nat /\ i >= 1 /\ \A j \in S : j \in Nat /\ j >= 1
  BY DEF Numbers
<1>1. B \in SUBSET S /\ B \in SUBSET (1..(i - 1))
  <2>1. \A j \in B : j \in Nat /\ j >= 1 /\ j < i
    BY <1>0
  <2> HIDE DEF B
  <2>2. \A j \in B : j \in 1..(i - 1)
    BY <2>1, <1>0
  <2> QED
    BY <2>2 DEF B
<1>2. IsFiniteSet(1..(i - 1)) /\ Cardinality(1..(i - 1)) = i - 1
  <2>1. 1 \in Int /\ i - 1 \in Int
    BY <1>0
  <2>2. IsFiniteSet(1..(i - 1))
    BY <2>1, FS_Interval
  <2>3. Cardinality(1..(i - 1)) = IF 1 > i - 1 THEN 0 ELSE (i - 1) - 1 + 1
    BY <2>1, FS_Interval
  <2> QED
    BY <2>2, <2>3, <1>0
<1> HIDE DEF B
<1>3. Cardinality(B) <= i - 1 /\ Cardinality(B) <= Cardinality(S) /\ Cardinality(B) \in Nat
  <2>1. IsFiniteSet(B) /\ Cardinality(B) <= Cardinality(S)
    BY <1>1, FS_Subset
  <2>2. Cardinality(B) <= Cardinality(1..(i - 1))
    BY <1>1, <1>2, FS_Subset
  <2> QED
    BY <2>1, <2>2, <1>2, FS_CardinalityType
<1>4. Cardinality(B) < i
  BY <1>3, <1>0
<1> QED
  BY <1>3, <1>4 DEF B, Before

\* q is p with an x inserted at every position of S.
Spread(q, p, S, x) ==
    /\ \A i \in Numbers : i \in S => At(q, i, x) = x
    /\ \A i \in Numbers : i \notin S => At(q, i, x) = At(p, i - Before(S, i), x)

LEMMA SpreadNothing ==
    ASSUME NEW q, NEW p, NEW x, \A i \in Numbers : At(q, i, x) = At(p, i, x)
    PROVE  Spread(q, p, {}, x)
<1>1. \A i \in Numbers : Before({}, i) = 0 /\ i - 0 = i
  <2> TAKE i \in Numbers
  <2>1. {j \in {} : j < i} = {}
    OBVIOUS
  <2>2. i - 0 = i
    BY DEF Numbers
  <2> QED
    BY <2>1, <2>2, FS_EmptySet DEF Before
<1> QED
  BY <1>1 DEF Spread

\* One more, after the others.
LEMMA SpreadMore ==
    ASSUME NEW S \in SUBSET Numbers, IsFiniteSet(S), NEW y \in Numbers, \A j \in S : j < y,
           NEW x, NEW p, NEW q, Spread(q, p, S, x),
           NEW r, At(r, y, x) = x,
           \A i \in Numbers : i < y => At(r, i, x) = At(q, i, x),
           \A i \in Numbers : i > y => At(r, i, x) = At(q, i - 1, x)
    PROVE  Spread(r, p, S \cup {y}, x)
<1> DEFINE T == S \cup {y}
<1>1. y \in Nat /\ y >= 1 /\ y \notin S /\ \A j \in S : j \in Nat
  BY DEF Numbers
<1>2. /\ \A i \in Numbers : i \in S => At(q, i, x) = x
      /\ \A i \in Numbers : i \notin S => At(q, i, x) = At(p, i - Before(S, i), x)
  BY DEF Spread
<1>3. ASSUME NEW i \in Numbers, i \in T PROVE At(r, i, x) = x
  BY <1>2, <1>3
<1>4. ASSUME NEW i \in Numbers, i \notin T
      PROVE  At(r, i, x) = At(p, i - Before(T, i), x)
  <2>0. i \in Nat /\ i >= 1 /\ i # y /\ i \notin S
    BY <1>4 DEF Numbers
  <2>1. CASE i < y
    <3>1. {j \in T : j < i} = {j \in S : j < i}
      BY <2>0, <2>1, <1>1
    <3>2. Before(T, i) = Before(S, i)
      BY <3>1 DEF Before
    <3> QED
      BY <3>2, <2>0, <2>1, <1>2
  <2>2. CASE i > y
    <3>1. i - 1 \in Numbers /\ i - 1 >= y
      BY <2>0, <2>2, <1>1 DEF Numbers
    <3>2. i - 1 \notin S
      BY <3>1, <1>1, <2>0
    <3>3. {j \in T : j < i} = T /\ {j \in S : j < i - 1} = S
      <4>1. \A j \in S : j \in Nat /\ j < y
        BY <1>1
      <4>2. \A j \in T : j < i
        BY <4>1, <2>0, <2>2, <1>1
      <4>3. \A j \in S : j < i - 1
        BY <4>1, <3>1, <2>0, <1>1
      <4> QED
        BY <4>2, <4>3
    <3>4. Before(T, i) = Cardinality(S) + 1 /\ Before(S, i - 1) = Cardinality(S)
      BY <3>3, <1>1, FS_AddElement DEF Before
    <3>5. Cardinality(S) \in Nat
      BY FS_CardinalityType
    <3>6. i - Before(T, i) = (i - 1) - Before(S, i - 1)
      BY <3>4, <3>5, <2>0
    <3>7. At(r, i, x) = At(q, i - 1, x)
      BY <2>2
    <3>8. At(q, i - 1, x) = At(p, (i - 1) - Before(S, i - 1), x)
      BY <3>1, <3>2, <1>2
    <3> QED
      BY <3>6, <3>7, <3>8
  <2> QED
    BY <2>0, <2>1, <2>2, <1>1
<1> QED
  BY <1>3, <1>4 DEF Spread

LEMMA InsertedAt ==
    ASSUME NEW X, NEW t \in Seq(X), NEW new, DOMAIN new \in SUBSET Numbers,
           IsFiniteSet(DOMAIN new), NEW i \in Numbers, i \notin DOMAIN new,
           i - Before(DOMAIN new, i) \in DOMAIN t
    PROVE  /\ i \in DOMAIN Inserted(t, new)
           /\ Inserted(t, new)[i] = t[i - Before(DOMAIN new, i)]
<1> DEFINE S == DOMAIN new
<1>1. /\ Before(S, i) \in Nat /\ Before(S, i) <= Cardinality(S)
      /\ Cardinality(S) \in Nat /\ i \in Nat /\ i >= 1 /\ Len(t) \in Nat
  BY BeforeIs, FS_CardinalityType DEF Numbers
<1>2. i - Before(S, i) <= Len(t)
  OBVIOUS
<1>3. i \in 1..(Len(t) + Cardinality(S))
  BY <1>1, <1>2
<1> QED
  BY <1>3 DEF Inserted

-----------------------------------------------------------------------------
(* Fresh caches.                                                            *)

\* The heights of a section of the cache are those of the rows of tr; the
\* heights of the cache are those of the sections of t.
SectionFresh(o, hr, tr) ==
    \A r \in Numbers : At(hr, r, NoHeight) # NoHeight =>
      /\ r \in DOMAIN tr
      /\ At(hr, r, NoHeight) = [content |-> tr[r], width |-> o]

Fresh(o, h, t) == \A s \in Numbers : SectionFresh(o, At(h, s, <<>>), At(t, s, <<>>))

LEMMA BlankFresh ==
    ASSUME NEW o, NEW tr
    PROVE  SectionFresh(o, <<>>, tr)
BY DEF SectionFresh, At

LEMMA SameFresh ==
    ASSUME NEW o, NEW g, NEW h, NEW t, SameHeights(g, h), Fresh(o, h, t)
    PROVE  Fresh(o, g, t)
BY DEF Fresh, SectionFresh, SameHeights, HeightAt

\* A cache that is fresh for an empty section holds none of its heights.
LEMMA FreshNowhere ==
    ASSUME NEW o, NEW hr, NEW tr, SectionFresh(o, hr, <<>>)
    PROVE  SectionFresh(o, hr, tr)
BY DEF SectionFresh

LEMMA SectionsSpreadFresh ==
    ASSUME NEW o, NEW h, NEW g, NEW t \in Seq(Seq(Contents)), Fresh(o, h, t),
           NEW new, DOMAIN new \in SUBSET Numbers, IsFiniteSet(DOMAIN new),
           Spread(g, h, DOMAIN new, <<>>)
    PROVE  Fresh(o, g, Inserted(t, new))
<1> DEFINE S == DOMAIN new
<1> SUFFICES ASSUME NEW s \in Numbers
             PROVE  SectionFresh(o, At(g, s, <<>>), At(Inserted(t, new), s, <<>>))
  BY DEF Fresh
<1>1. CASE s \in S
  <2>1. At(g, s, <<>>) = <<>>
    BY <1>1 DEF Spread
  <2> QED
    BY <2>1, BlankFresh
<1>2. CASE s \notin S
  <2> DEFINE u == s - Before(S, s)
  <2>1. At(g, s, <<>>) = At(h, u, <<>>)
    BY <1>2 DEF Spread
  <2>2. u \in Numbers
    <3>1. Before(S, s) \in Nat /\ Before(S, s) < s
      BY BeforeIs
    <3> QED
      BY <3>1 DEF Numbers
  <2>3. SectionFresh(o, At(h, u, <<>>), At(t, u, <<>>))
    <3> HIDE DEF u
    <3> QED
      BY <2>2 DEF Fresh
  <2>4. CASE u \in DOMAIN t
    <3>1. s \in DOMAIN Inserted(t, new) /\ Inserted(t, new)[s] = t[u]
      BY <1>2, <2>4, InsertedAt
    <3>2. At(Inserted(t, new), s, <<>>) = At(t, u, <<>>)
      BY <3>1, <2>4 DEF At
    <3> QED
      BY <3>2, <2>1, <2>3
  <2>5. CASE u \notin DOMAIN t
    <3>1. At(t, u, <<>>) = <<>>
      BY <2>5 DEF At
    <3>2. SectionFresh(o, At(h, u, <<>>), <<>>)
      BY <3>1, <2>3
    <3> HIDE DEF u
    <3> QED
      BY <3>2, <2>1, FreshNowhere
  <2> QED
    BY <2>4, <2>5
<1> QED
  BY <1>1, <1>2

LEMMA RowsSpreadFresh ==
    ASSUME NEW o, NEW hr, NEW gr, NEW tr \in Seq(Contents), SectionFresh(o, hr, tr),
           NEW new, DOMAIN new \in SUBSET Numbers, IsFiniteSet(DOMAIN new),
           Spread(gr, hr, DOMAIN new, NoHeight)
    PROVE  SectionFresh(o, gr, Inserted(tr, new))
<1> DEFINE S == DOMAIN new
<1> SUFFICES ASSUME NEW r \in Numbers, At(gr, r, NoHeight) # NoHeight
             PROVE  /\ r \in DOMAIN Inserted(tr, new)
                    /\ At(gr, r, NoHeight) = [content |-> Inserted(tr, new)[r], width |-> o]
  BY DEF SectionFresh
<1>1. r \notin S
  BY DEF Spread
<1> DEFINE u == r - Before(S, r)
<1>2. At(gr, r, NoHeight) = At(hr, u, NoHeight)
  BY <1>1 DEF Spread
<1>3. u \in Numbers
  <2>1. Before(S, r) \in Nat /\ Before(S, r) < r
    BY BeforeIs
  <2> QED
    BY <2>1 DEF Numbers
<1>4. u \in DOMAIN tr /\ At(hr, u, NoHeight) = [content |-> tr[u], width |-> o]
  <2> HIDE DEF u
  <2> QED
    BY <1>2, <1>3 DEF SectionFresh
<1>5. r \in DOMAIN Inserted(tr, new) /\ Inserted(tr, new)[r] = tr[u]
  BY <1>1, <1>4, InsertedAt
<1> QED
  BY <1>2, <1>4, <1>5

\* fd_insertSections:withRowAnimation: and UIKit insert the same sections.
LEMMA InsertSectionsFresh ==
    ASSUME NEW o, NEW h \in Caches, NEW t \in Seq(Seq(Contents)), Fresh(o, h, t),
           NEW m \in Nat, NEW new, DOMAIN new \in SUBSET (1..m)
    PROVE  /\ InsertSections(h, DOMAIN new) \in Caches
           /\ Fresh(o, InsertSections(h, DOMAIN new), Inserted(t, new))
<1> DEFINE S == DOMAIN new  a == Ascending(S)  n == Cardinality(S)
           T(k) == {a[j] : j \in 1..k}
<1>1. n \in Nat /\ a \in [1..n -> S] /\ Rises(a) /\ Lists(a, S)
  BY AscendingRises
<1>2. PICK f \in [0..n -> Caches] :
        /\ f[0] = h /\ f[n] = InsertSections(h, S)
        /\ \A k \in 1..n : f[k] = InsertAt(BuildSections(f[k - 1], a[k]), a[k], <<>>)
  BY InsertSectionsRuns
<1>3. S \in SUBSET Numbers /\ IsFiniteSet(S)
  <2>1. IsFiniteSet(1..m)
    BY FS_Interval
  <2> QED
    BY <2>1, FS_Subset DEF Numbers
<1> HIDE DEF S, n, a
<1> DEFINE P == {k \in 0..n : Spread(f[k], h, T(k), <<>>)}
<1>4. 0 \in P
  <2>1. T(0) = {}
    OBVIOUS
  <2>2. \A i \in Numbers : At(h, i, <<>>) = At(h, i, <<>>)
    OBVIOUS
  <2>3. Spread(h, h, {}, <<>>)
    BY <2>2, SpreadNothing
  <2>4. 0 \in 0..n
    BY <1>1
  <2> HIDE DEF T
  <2> QED
    BY <2>1, <2>3, <2>4, <1>2
<1>5. ASSUME NEW k \in 1..n, k - 1 \in P PROVE k \in P
  <2> DEFINE U == T(k - 1)  y == a[k]  q == f[k - 1]  r == f[k]
  <2>1. k \in 1..n /\ k - 1 \in 0..n /\ k \in 0..n /\ DOMAIN a = 1..n
    BY <1>1
  <2>2. \A j \in 1..(k - 1) : j \in 1..n /\ j < k
    BY <1>1
  <2>3. U \in SUBSET S /\ y \in S /\ y \in Numbers /\ q \in Caches
    BY <2>1, <2>2, <1>1, <1>2, <1>3
  <2>4. \A j \in U : j < y
    BY <2>1, <2>2, <1>1 DEF Rises
  <2>5. IsFiniteSet(U) /\ U \in SUBSET Numbers
    BY <2>3, <1>3, FS_Subset
  <2>6. r = InsertAt(BuildSections(q, y), y, <<>>)
    BY <1>2
  <2>7. Spread(q, h, U, <<>>)
    BY <1>5
  <2>8. T(k) = U \cup {y}
    <3>1. 1..k = (1..(k - 1)) \cup {k}
      BY <2>1
    <3> QED
      BY <3>1
  <2> HIDE DEF U, y, q, r
  <2>9. /\ At(r, y, <<>>) = <<>>
        /\ \A i \in Numbers : i < y => At(r, i, <<>>) = At(q, i, <<>>)
        /\ \A i \in Numbers : i > y => At(r, i, <<>>) = At(q, i - 1, <<>>)
    BY <2>3, <2>6, InsertSectionIs
  <2>10. Spread(r, h, U \cup {y}, <<>>)
    BY <2>3, <2>4, <2>5, <2>7, <2>9, SpreadMore
  <2> QED
    BY <2>1, <2>8, <2>10 DEF r
<1>6. n \in P
  <2> HIDE DEF P
  <2>1. \A k \in 1..n : k - 1 \in P => k \in P
    BY <1>5
  <2>2. n \in 0..n
    BY <1>1
  <2> QED
    BY <1>1, <1>4, <2>1, <2>2, Climb
<1>7. T(n) = S
  BY <1>1 DEF Lists
<1>8. Spread(InsertSections(h, S), h, S, <<>>)
  BY <1>2, <1>6, <1>7
<1>9. InsertSections(h, S) \in Caches
  BY <1>1, <1>2
<1> QED
  BY <1>3, <1>8, <1>9, SectionsSpreadFresh DEF S

LEMMA DeletedOne ==
    ASSUME NEW X, NEW t \in Seq(X), NEW s \in DOMAIN t
    PROVE  /\ DOMAIN Deleted(t, {s}) = 1..(Len(t) - 1)
           /\ \A k \in 1..(Len(t) - 1) : k < s => Deleted(t, {s})[k] = t[k]
           /\ \A k \in 1..(Len(t) - 1) : k >= s => Deleted(t, {s})[k] = t[k + 1]
<1> DEFINE n == Len(t)  D == DOMAIN t \ {s}
           q == [k \in 1..(n - 1) |-> IF k < s THEN k ELSE k + 1]
<1>1. n \in Nat /\ DOMAIN t = 1..n /\ s \in 1..n /\ n - 1 \in Nat
  OBVIOUS
<1>2. D \in SUBSET (1..n)
  BY <1>1
<1>3. \A k \in 1..(n - 1) : q[k] \in D
  BY <1>1
<1>4. q \in [1..(n - 1) -> D]
  BY <1>3
<1>5. Rises(q)
  BY <1>1 DEF Rises
<1>6. Lists(q, D)
  <2> SUFFICES ASSUME NEW x \in D PROVE \E i \in 1..(n - 1) : q[i] = x
    BY DEF Lists
  <2>1. x \in 1..n /\ x # s
    BY <1>1
  <2>2. CASE x < s
    <3>1. x \in 1..(n - 1) /\ q[x] = x
      BY <2>1, <2>2, <1>1
    <3> QED
      BY <3>1
  <2>3. CASE x > s
    <3>1. x - 1 \in 1..(n - 1) /\ q[x - 1] = x
      BY <2>1, <2>3, <1>1
    <3> QED
      BY <3>1
  <2> QED
    BY <2>1, <2>2, <2>3, <1>1
<1>7. Ascending(D) = q
  <2> HIDE DEF D, q, n
  <2> QED
    BY <1>1, <1>2, <1>4, <1>5, <1>6, AscendingUnique
<1>8. Deleted(t, {s}) = [k \in 1..(n - 1) |-> t[q[k]]]
  <2>1. DOMAIN q = 1..(n - 1)
    OBVIOUS
  <2> QED
    BY <1>7, <2>1 DEF Deleted
<1>9. DOMAIN Deleted(t, {s}) = 1..(n - 1)
  BY <1>8
<1>10. \A k \in 1..(n - 1) : Deleted(t, {s})[k] = t[q[k]]
  BY <1>8
<1>11. \A k \in 1..(n - 1) : k < s => q[k] = k
  OBVIOUS
<1>12. \A k \in 1..(n - 1) : k >= s => q[k] = k + 1
  BY <1>1
<1> HIDE DEF q
<1>13. \A k \in 1..(n - 1) : k < s => Deleted(t, {s})[k] = t[k]
  BY <1>10, <1>11
<1>14. \A k \in 1..(n - 1) : k >= s => Deleted(t, {s})[k] = t[k + 1]
  BY <1>10, <1>12
<1> QED
  BY <1>9, <1>13, <1>14

\* fd_deleteSections:withRowAnimation: and UIKit delete the same section.
LEMMA DeleteSectionsFresh ==
    ASSUME NEW o, NEW h \in Caches, NEW t \in Seq(Seq(Contents)), Fresh(o, h, t),
           NEW s \in DOMAIN t
    PROVE  Fresh(o, DeleteSections(h, {s}), Deleted(t, {s}))
<1>1. s \in 1..Len(t) /\ Len(t) \in Nat /\ s \in Numbers /\ s \in Nat
  BY DEF Numbers
<1>2. Cardinality({s}) = 1
  BY FS_Singleton
<1>3. Ascending({s})[1] = s
  <2>1. {s} \in SUBSET (1..Len(t))
    BY <1>1
  <2>2. Ascending({s}) \in [1..1 -> {s}]
    BY <1>1, <1>2, <2>1, AscendingRises
  <2> QED
    BY <2>2
<1>4. DeleteSections(h, {s}) = RemoveAt(BuildSections(h, s), s)
  <2> DEFINE S == {s}  m == Len(t)
  <2>1. S \in SUBSET (1..m) /\ m \in Nat
    BY <1>1
  <2> HIDE DEF S, m
  <2>2. PICK f \in [0..Cardinality(S) -> Caches] :
          /\ f[0] = h /\ f[Cardinality(S)] = DeleteSections(h, S)
          /\ \A k \in 1..Cardinality(S) :
               f[k] = RemoveAt(BuildSections(f[k - 1], Ascending(S)[k]), Ascending(S)[k])
    BY <2>1, DeleteSectionsRuns
  <2>3. Cardinality(S) = 1 /\ Ascending(S)[1] = s
    BY <1>2, <1>3 DEF S
  <2>4. f[1] = RemoveAt(BuildSections(f[0], s), s)
    BY <2>2, <2>3
  <2> QED
    BY <2>2, <2>3, <2>4 DEF S
<1> DEFINE g == DeleteSections(h, {s})  u == Deleted(t, {s})
<1>5. /\ \A i \in Numbers : i < s => At(g, i, <<>>) = At(h, i, <<>>)
      /\ \A i \in Numbers : i >= s => At(g, i, <<>>) = At(h, i + 1, <<>>)
  <2>1. g = RemoveAt(BuildSections(h, s), s)
    BY <1>4
  <2> HIDE DEF g
  <2> QED
    BY <1>1, <2>1, DeleteSectionIs
<1>6. /\ DOMAIN u = 1..(Len(t) - 1)
      /\ \A k \in 1..(Len(t) - 1) : k < s => u[k] = t[k]
      /\ \A k \in 1..(Len(t) - 1) : k >= s => u[k] = t[k + 1]
  BY DeletedOne
<1> HIDE DEF g, u
<1>7. ASSUME NEW i \in Numbers PROVE SectionFresh(o, At(g, i, <<>>), At(u, i, <<>>))
  <2>0. i \in Nat /\ i >= 1 /\ i + 1 \in Numbers
    BY DEF Numbers
  <2>1. CASE i < s
    <3>1. At(u, i, <<>>) = At(t, i, <<>>)
      BY <2>0, <2>1, <1>1, <1>6 DEF At
    <3> QED
      BY <3>1, <2>1, <1>5 DEF Fresh
  <2>2. CASE i >= s
    <3>1. At(u, i, <<>>) = At(t, i + 1, <<>>)
      BY <2>0, <2>2, <1>1, <1>6 DEF At
    <3> QED
      BY <3>1, <2>0, <2>2, <1>5 DEF Fresh
  <2> QED
    BY <2>0, <2>1, <2>2, <1>1
<1> QED
  BY <1>7 DEF Fresh, g, u

\* fd_reloadSections:withRowAnimation: empties the sections.
LEMMA ReloadSectionsFresh ==
    ASSUME NEW o, NEW h \in Caches, NEW t \in Seq(Seq(Contents)), Fresh(o, h, t),
           NEW S \in SUBSET (DOMAIN t), NEW new
    PROVE  Fresh(o, ReloadSections(h, S),
                 [s \in DOMAIN t |-> IF s \in S THEN new[s] ELSE t[s]])
<1> DEFINE a == Ascending(S)  n == Cardinality(S)
           T(k) == {a[j] : j \in 1..k}
           Emptied(g, U) ==
             /\ \A i \in Numbers : i \in U => At(g, i, <<>>) = <<>>
             /\ \A i \in Numbers : i \notin U => At(g, i, <<>>) = At(h, i, <<>>)
<1> DEFINE m == Len(t)
<1>0. m \in Nat /\ S \in SUBSET (1..m) /\ S \in SUBSET Numbers
  BY DEF Numbers
<1> HIDE DEF m
<1>1. n \in Nat /\ a \in [1..n -> S] /\ Rises(a) /\ Lists(a, S)
  BY <1>0, AscendingRises
<1>2. PICK f \in [0..n -> Caches] :
        /\ f[0] = h /\ f[n] = ReloadSections(h, S)
        /\ \A k \in 1..n : f[k] = SectionEmptied(f[k - 1], a[k])
  BY <1>0, ReloadSectionsRuns
<1> HIDE DEF n, a
<1> DEFINE P == {k \in 0..n : Emptied(f[k], T(k))}
<1>4. 0 \in P
  BY <1>1, <1>2
<1>5. ASSUME NEW k \in 1..n, k - 1 \in P PROVE k \in P
  <2> DEFINE y == a[k]  q == f[k - 1]  r == f[k]
  <2>1. k - 1 \in 0..n /\ k \in 0..n
    BY <1>1
  <2>2. y \in Numbers /\ q \in Caches /\ r = SectionEmptied(q, y)
    BY <2>1, <1>0, <1>1, <1>2
  <2>3. T(k) = T(k - 1) \cup {y}
    <3>1. 1..k = (1..(k - 1)) \cup {k}
      OBVIOUS
    <3> QED
      BY <3>1
  <2>4. Emptied(q, T(k - 1))
    BY <1>5
  <2> HIDE DEF y, q, r, T
  <2>5. /\ At(r, y, <<>>) = <<>>
        /\ \A i \in Numbers : i # y => At(r, i, <<>>) = At(q, i, <<>>)
    BY <2>2, ReloadSectionIs
  <2>6. Emptied(r, T(k))
    BY <2>3, <2>4, <2>5
  <2> QED
    BY <2>1, <2>6 DEF r
<1>6. n \in P
  <2> HIDE DEF P
  <2>1. \A k \in 1..n : k - 1 \in P => k \in P
    BY <1>5
  <2>2. n \in 0..n
    BY <1>1
  <2> QED
    BY <1>1, <1>4, <2>1, <2>2, Climb
<1>7. T(n) = S
  BY <1>1 DEF Lists
<1> DEFINE g == ReloadSections(h, S)
           u == [s \in DOMAIN t |-> IF s \in S THEN new[s] ELSE t[s]]
<1>8. Emptied(g, S)
  BY <1>2, <1>6, <1>7
<1>9. ASSUME NEW i \in Numbers, i \notin S
      PROVE  At(u, i, <<>>) = At(t, i, <<>>)
  BY <1>9 DEF At
<1> HIDE DEF g, u
<1>10. ASSUME NEW i \in Numbers PROVE SectionFresh(o, At(g, i, <<>>), At(u, i, <<>>))
  <2>1. CASE i \in S
    BY <2>1, <1>8, BlankFresh
  <2>2. CASE i \notin S
    BY <2>2, <1>8, <1>9 DEF Fresh
  <2> QED
    BY <2>1, <2>2
<1> QED
  BY <1>10 DEF Fresh, g, u

-----------------------------------------------------------------------------
(* Rows.                                                                    *)

\* The cache has been built up to an index path, or up to all of several.
Covers(g, p) == p[1] \in DOMAIN g /\ p[2] <= Len(g[p[1]])
Room(paths) == {g \in Caches : \A k \in DOMAIN paths : Covers(g, paths[k])}

LEMMA BuildCacheCovers ==
    ASSUME NEW h \in Caches, NEW p \in Positions
    PROVE  /\ Covers(BuildCache(h, p), p)
           /\ \A e \in Positions : Covers(h, e) => Covers(BuildCache(h, p), e)
<1> DEFINE g == BuildCache(h, p)
<1>1. /\ g \in Caches /\ p[1] \in DOMAIN g /\ Len(g[p[1]]) >= p[2]
      /\ Len(g) >= Len(h)
      /\ \A s \in 1..Len(h) : Len(g[s]) >= Len(h[s])
  BY BuildCacheIs
<1> HIDE DEF g
<1>2. /\ DOMAIN h = 1..Len(h) /\ DOMAIN g = 1..Len(g) /\ Len(h) \in Nat /\ Len(g) \in Nat
      /\ \A s \in 1..Len(h) : Len(h[s]) \in Nat
      /\ \A s \in 1..Len(g) : Len(g[s]) \in Nat
  BY <1>1 DEF Caches, Rows
<1>3. p[2] \in Nat /\ \A e \in Positions : e[2] \in Nat
  BY DEF Positions, Numbers
<1>4. Covers(g, p)
  BY <1>1, <1>2, <1>3 DEF Covers
<1>5. ASSUME NEW e \in Positions, Covers(h, e) PROVE Covers(g, e)
  <2>1. e[1] \in 1..Len(h) /\ e[2] <= Len(h[e[1]])
    BY <1>2, <1>5 DEF Covers
  <2>2. e[1] \in 1..Len(g) /\ Len(g[e[1]]) >= Len(h[e[1]])
    BY <2>1, <1>1, <1>2
  <2>3. Len(g[e[1]]) \in Nat /\ Len(h[e[1]]) \in Nat /\ e[2] \in Nat
    BY <2>1, <2>2, <1>2, <1>3
  <2>4. e[2] <= Len(g[e[1]])
    BY <2>1, <2>2, <2>3
  <2> QED
    BY <2>2, <2>4, <1>2 DEF Covers
<1> QED
  BY <1>4, <1>5 DEF g

\* buildCachesAtIndexPathsIfNeeded: makes room and changes no height.
LEMMA BuildCachesIs ==
    ASSUME NEW h \in Caches, NEW paths \in Seq(Positions)
    PROVE  /\ BuildCaches(h, paths) \in Room(paths)
           /\ SameHeights(BuildCaches(h, paths), h)
<1> DEFINE n == Len(paths)
<1>1. n \in Nat /\ DOMAIN paths = 1..n /\ \A k \in 1..n : paths[k] \in Positions
  OBVIOUS
<1>2. PICK f \in [0..n -> Caches] :
        /\ f[0] = h /\ f[n] = BuildCaches(h, paths)
        /\ \A k \in 1..n : f[k] = BuildCache(f[k - 1], paths[k])
  BY BuildCachesRuns
<1> HIDE DEF n
<1> DEFINE Built(k) == SameHeights(f[k], h) /\ \A j \in 1..k : Covers(f[k], paths[j])
           P == {k \in 0..n : Built(k)}
<1>3. 0 \in P
  BY <1>1, <1>2 DEF SameHeights
<1>4. ASSUME NEW k \in 1..n, k - 1 \in P PROVE k \in P
  <2> DEFINE g == f[k - 1]  c == f[k]  p == paths[k]
  <2>1. k - 1 \in 0..n /\ k \in 0..n /\ \A j \in 1..k : j = k \/ j \in 1..(k - 1)
    BY <1>1
  <2>2. g \in Caches /\ c = BuildCache(g, p) /\ p \in Positions
    BY <2>1, <1>1, <1>2
  <2>3. SameHeights(g, h) /\ \A j \in 1..(k - 1) : Covers(g, paths[j])
    BY <1>4
  <2>4. \A j \in 1..(k - 1) : paths[j] \in Positions
    BY <1>1
  <2> HIDE DEF g, c
  <2>5. SameHeights(c, g)
    BY <2>2, BuildCacheIs
  <2>6. Covers(c, p) /\ \A e \in Positions : Covers(g, e) => Covers(c, e)
    BY <2>2, BuildCacheCovers
  <2>7. SameHeights(c, h)
    BY <2>3, <2>5 DEF SameHeights
  <2>8. \A j \in 1..k : Covers(c, paths[j])
    BY <2>1, <2>3, <2>4, <2>6
  <2> QED
    BY <2>1, <2>7, <2>8 DEF c
<1>5. n \in P
  <2> HIDE DEF P
  <2>1. \A k \in 1..n : k - 1 \in P => k \in P
    BY <1>4
  <2>2. n \in 0..n
    BY <1>1
  <2> QED
    BY <1>1, <1>3, <2>1, <2>2, Climb
<1>6. n \in 0..n
  BY <1>1
<1> QED
  BY <1>1, <1>2, <1>5, <1>6 DEF Room

RowInserted(g, p) == [g EXCEPT ![p[1]] = InsertAt(@, p[2], NoHeight)]

LEMMA RowInsertedIs ==
    ASSUME NEW g \in Caches, NEW p \in Positions, Covers(g, p)
    PROVE  /\ RowInserted(g, p) \in Caches
           /\ \A e \in Positions : Covers(g, e) => Covers(RowInserted(g, p), e)
           /\ \A s \in Numbers : s # p[1] =>
                At(RowInserted(g, p), s, <<>>) = At(g, s, <<>>)
           /\ HeightAt(RowInserted(g, p), p[1], p[2]) = NoHeight
           /\ \A r \in Numbers : r < p[2] =>
                HeightAt(RowInserted(g, p), p[1], r) = HeightAt(g, p[1], r)
           /\ \A r \in Numbers : r > p[2] =>
                HeightAt(RowInserted(g, p), p[1], r) = HeightAt(g, p[1], r - 1)
<1> DEFINE s == p[1]  u == g[s]  x == InsertAt(u, p[2], NoHeight)
           c == [g EXCEPT ![s] = x]  X == Heights \cup {NoHeight}
<1>1. s \in DOMAIN g /\ u \in Rows /\ p[2] \in Nat /\ p[2] >= 1 /\ p[2] <= Len(u)
  BY DEF Covers, Caches, Positions, Numbers
<1>2. u \in Seq(X) /\ Len(u) \in Nat /\ p[2] \in 1..(Len(u) + 1) /\ NoHeight \in X
  BY <1>1 DEF Rows
<1>3. RowInserted(g, p) = c
  BY DEF RowInserted
<1> HIDE DEF X, u
<1>4. x \in Seq(X) /\ Len(x) = Len(u) + 1 /\ At(x, p[2], NoHeight) = NoHeight
  BY <1>2, AtInsertBlank
<1>5. \A k \in Numbers : k < p[2] => At(x, k, NoHeight) = At(u, k, NoHeight)
  BY <1>2, AtInsertBlank
<1>6. \A k \in Numbers : k > p[2] => At(x, k, NoHeight) = At(u, k - 1, NoHeight)
  BY <1>2, AtInsertBlank
<1>7. x \in Rows
  BY <1>4 DEF Rows, X
<1> HIDE DEF x, s
<1>8. /\ c \in Caches /\ DOMAIN c = DOMAIN g /\ c[s] = x /\ At(c, s, <<>>) = x
      /\ \A i \in DOMAIN g : i # s => c[i] = g[i]
      /\ \A i \in Numbers : i # s => At(c, i, <<>>) = At(g, i, <<>>)
  <2>1. s \in DOMAIN g /\ x \in Rows
    BY <1>1, <1>7
  <2>2. c \in Caches /\ DOMAIN c = DOMAIN g /\ c[s] = x
    BY <2>1, AtExcept
  <2>3. \A i \in DOMAIN g : i # s => c[i] = g[i]
    BY <2>1, AtExcept
  <2>4. At(c, s, <<>>) = x
    BY <2>1, AtExcept
  <2>5. \A i \in Numbers : i # s => At(c, i, <<>>) = At(g, i, <<>>)
    BY <2>1, AtExcept
  <2> QED
    BY <2>2, <2>3, <2>4, <2>5
<1>9. At(g, s, <<>>) = u
  BY <1>1 DEF At, u
<1> HIDE DEF c
<1>10. ASSUME NEW e \in Positions, Covers(g, e) PROVE Covers(c, e)
  <2>1. e[1] \in DOMAIN c /\ e[2] \in Nat /\ e[2] <= Len(g[e[1]])
    BY <1>8, <1>10 DEF Covers, Positions, Numbers
  <2>2. CASE e[1] = s
    <3>1. e[2] <= Len(x)
      BY <2>1, <2>2, <1>2, <1>4 DEF u
    <3> QED
      BY <3>1, <2>1, <2>2, <1>8 DEF Covers
  <2>3. CASE e[1] # s
    BY <2>1, <2>3, <1>8 DEF Covers
  <2> QED
    BY <2>2, <2>3
<1>11. HeightAt(c, s, p[2]) = NoHeight
  BY <1>4, <1>8 DEF HeightAt
<1>12. \A r \in Numbers : r < p[2] => HeightAt(c, s, r) = HeightAt(g, s, r)
  BY <1>5, <1>8, <1>9 DEF HeightAt
<1>13. \A r \in Numbers : r > p[2] => HeightAt(c, s, r) = HeightAt(g, s, r - 1)
  BY <1>6, <1>8, <1>9 DEF HeightAt
<1> QED
  BY <1>3, <1>8, <1>10, <1>11, <1>12, <1>13 DEF s

RowSet(g, p, y) == [g EXCEPT ![p[1]][p[2]] = y]

LEMMA RowSetIs ==
    ASSUME NEW g \in Caches, NEW p \in Positions, Covers(g, p),
           NEW y \in Heights \cup {NoHeight}
    PROVE  /\ RowSet(g, p, y) \in Caches
           /\ Alike(RowSet(g, p, y), g)
           /\ HeightAt(RowSet(g, p, y), p[1], p[2]) = y
           /\ \A s, r \in Numbers : s # p[1] \/ r # p[2] =>
                HeightAt(RowSet(g, p, y), s, r) = HeightAt(g, s, r)
<1> DEFINE s == p[1]  u == g[s]  x == [u EXCEPT ![p[2]] = y]
           c == [g EXCEPT ![s] = x]
<1>1. s \in DOMAIN g /\ u \in Rows /\ p[2] \in Nat /\ p[2] >= 1 /\ p[2] <= Len(u)
  BY DEF Covers, Caches, Positions, Numbers
<1>2. RowSet(g, p, y) = c
  BY DEF RowSet
<1>3. p[2] \in DOMAIN u
  BY <1>1 DEF Rows
<1>4. x \in Rows /\ DOMAIN x = DOMAIN u /\ x[p[2]] = y
  BY <1>1, <1>3 DEF Rows
<1>5. \A r \in DOMAIN u : r # p[2] => x[r] = u[r]
  OBVIOUS
<1> HIDE DEF x, s
<1>6. /\ c \in Caches /\ DOMAIN c = DOMAIN g /\ c[s] = x /\ At(c, s, <<>>) = x
      /\ \A i \in DOMAIN g : i # s => c[i] = g[i]
      /\ \A i \in Numbers : i # s => At(c, i, <<>>) = At(g, i, <<>>)
  BY <1>1, <1>4, AtExcept
<1>7. At(g, s, <<>>) = u
  BY <1>1 DEF At
<1> HIDE DEF c
<1>8. Alike(c, g)
  BY <1>4, <1>6 DEF Alike
<1>9. HeightAt(c, s, p[2]) = y
  BY <1>3, <1>4, <1>6 DEF HeightAt, At
<1>10. ASSUME NEW i \in Numbers, NEW r \in Numbers, i # s \/ r # p[2]
       PROVE  HeightAt(c, i, r) = HeightAt(g, i, r)
  <2>1. CASE i # s
    BY <2>1, <1>6 DEF HeightAt
  <2>2. CASE i = s
    <3>1. At(x, r, NoHeight) = At(u, r, NoHeight)
      BY <2>2, <1>4, <1>5, <1>10 DEF At
    <3> QED
      BY <3>1, <2>2, <1>6, <1>7 DEF HeightAt
  <2> QED
    BY <2>1, <2>2
<1> QED
  BY <1>2, <1>6, <1>8, <1>9, <1>10 DEF s

\* An enumeration of a finite set.
LEMMA SetToSeqIs ==
    ASSUME NEW P, IsFiniteSet(P)
    PROVE  SetToSeq(P) \in SetToSeqs(P)
<1>1. ExistsBijection(1..Cardinality(P), P)
  BY FS_CardinalityType
<1>2. PICK f \in Bijection(1..Cardinality(P), P) : TRUE
  BY <1>1 DEF ExistsBijection
<1>3. f \in [1..Cardinality(P) -> P] /\ IsInjective(f)
  BY <1>2 DEF Bijection, Injection, IsInjective
<1>4. SetToSeq(P) \in [1..Cardinality(P) -> P] /\ IsInjective(SetToSeq(P))
  BY <1>3 DEF SetToSeq
<1> QED
  BY <1>4 DEF SetToSeqs, IsInjective

LEMMA SetToSeqsIs ==
    ASSUME NEW P, IsFiniteSet(P), NEW q \in SetToSeqs(P)
    PROVE  /\ q \in Seq(P) /\ q \in [1..Cardinality(P) -> P] /\ Len(q) = Cardinality(P)
           /\ \A x \in P : \E k \in 1..Cardinality(P) : q[k] = x
<1> DEFINE n == Cardinality(P)
<1>1. n \in Nat
  BY FS_CardinalityType
<1>2. q \in [1..n -> P] /\ \A i, j \in 1..n : i # j => q[i] # q[j]
  BY DEF SetToSeqs
<1>3. IsFiniteSet(1..n) /\ Cardinality(1..n) = n
  <2>1. Cardinality(1..n) = IF 1 > n THEN 0 ELSE n - 1 + 1
    BY <1>1, FS_Interval
  <2> QED
    BY <1>1, <2>1, FS_Interval
<1>4. q \in Injection(1..n, P)
  BY <1>2 DEF Injection, IsInjective
<1>5. q \in Surjection(1..n, P)
  BY <1>3, <1>4, FS_Injection
<1>6. \A x \in P : \E k \in 1..n : q[k] = x
  BY <1>5 DEF Surjection
<1>7. q \in Seq(P) /\ Len(q) = n
  BY <1>1, <1>2
<1> QED
  BY <1>2, <1>6, <1>7

\* fd_insertRowsAtIndexPaths:
LEMMA InsertRowsRuns ==
    ASSUME NEW h \in Caches, NEW paths \in Seq(Positions)
    PROVE  \E f \in [0..Len(paths) -> Room(paths)] :
             /\ f[0] = BuildCaches(h, paths) /\ f[Len(paths)] = InsertRows(h, paths)
             /\ \A k \in 1..Len(paths) :
                  f[k] = RowInserted(f[k - 1], paths[k])
<1> DEFINE n == Len(paths)
           q == paths
           X == Room(paths)
           b == BuildCaches(h, paths)
           Step(g, e) == RowInserted(g, e)
           F == [k \in 1..n |-> [g \in X |-> Step(g, q[k])]]
           Eq(it) == it = [T \in SUBSET (1..n) |->
                             IF T = {} THEN b ELSE Step(it[T \ {Max(T)}], q[Max(T)])]
           solution == CHOOSE it : Eq(it)
<1>0. b \in X
  BY BuildCachesIs
<1>1. n \in Nat /\ DOMAIN q = 1..n /\ \A k \in 1..n : q[k] \in Positions
  OBVIOUS
<1>2. InsertRows(h, paths) = solution[1..n]
  BY <1>1 DEF InsertRows, RowInserted, FoldLeft, MapThenFoldSet
<1> HIDE DEF n, q, X, b
<1>3. StepsIn(F, n, X)
  <2>1. \A k \in 1..n : \A g \in X : Step(g, q[k]) \in X
    <3> SUFFICES ASSUME NEW k \in 1..n, NEW g \in X PROVE Step(g, q[k]) \in X
      OBVIOUS
    <3> DEFINE p == q[k]
    <3>1. p \in Positions /\ g \in Caches /\ Covers(g, p)
      BY <1>1 DEF X, Room, q
    <3>2. \A j \in 1..n : q[j] \in Positions /\ Covers(g, q[j])
      BY <1>1 DEF X, Room, q
    <3> HIDE DEF p
    <3>3. RowInserted(g, p) \in Caches
      BY <3>1, RowInsertedIs
    <3>4. \A e \in Positions : Covers(g, e) => Covers(RowInserted(g, p), e)
      BY <3>1, RowInsertedIs
    <3>5. \A j \in 1..n : Covers(RowInserted(g, p), q[j])
      BY <3>2, <3>4
    <3>6. RowInserted(g, p) \in Room(q)
      BY <3>3, <3>5, <1>1 DEF Room
    <3> QED
      BY <3>6 DEF p, X, q
  <2> QED
    BY <2>1 DEF StepsIn
<1>4. \A k \in 1..n : \A g \in X : F[k][g] = Step(g, q[k])
  OBVIOUS
<1> HIDE DEF F
<1>5. PICK it : Solves(it, n, X, b, F)
  BY <1>0, <1>1, <1>3, FoldExists
<1>6. Eq(it)
  <2>1. ASSUME NEW T \in SUBSET (1..n), T # {}
        PROVE  it[T] = Step(it[T \ {Max(T)}], q[Max(T)])
    <3>1. T \ {Max(T)} \in SUBSET (1..n)
      OBVIOUS
    <3>2. it[T \ {Max(T)}] \in X
      BY <3>1, <1>5 DEF Solves
    <3>3. Max(T) \in 1..n /\ it[T] = F[Max(T)][it[T \ {Max(T)}]]
      BY <1>5, <2>1 DEF Solves
    <3> QED
      BY <1>4, <3>2, <3>3
  <2>2. it = [T \in SUBSET (1..n) |-> it[T]] /\ it[{}] = b
    BY <1>5 DEF Solves
  <2> QED
    BY <2>1, <2>2
<1>7. Eq(solution)
  BY <1>6
<1> HIDE DEF solution
<1>8. solution[{}] = b
  BY <1>7
<1>9. Follows(solution, n, X, b, F)
  <2> SUFFICES ASSUME NEW T \in SUBSET (1..n), T # {}, solution[T \ {Max(T)}] \in X
               PROVE  solution[T] = F[Max(T)][solution[T \ {Max(T)}]]
    BY <1>8 DEF Follows
  <2>1. Max(T) \in 1..n
    BY <1>5 DEF Solves
  <2>2. solution[T] = Step(solution[T \ {Max(T)}], q[Max(T)])
    BY <1>7
  <2> QED
    BY <1>4, <2>1, <2>2
<1>10. PICK f : Runs(f, n, X, b, F) /\ f[n] = solution[1..n]
  BY <1>0, <1>1, <1>3, <1>9, FoldRuns
<1>11. f \in [0..n -> X] /\ f[0] = b /\ f[n] = InsertRows(h, paths)
  BY <1>2, <1>10 DEF Runs
<1>12. ASSUME NEW k \in 1..n PROVE f[k] = Step(f[k - 1], q[k])
  <2>1. k - 1 \in 0..n
    BY <1>1
  <2>2. f[k - 1] \in X /\ f[k] = F[k][f[k - 1]]
    BY <2>1, <1>10, <1>11 DEF Runs
  <2> QED
    BY <2>2, <1>4
<1> QED
  BY <1>11, <1>12 DEF n, q, X, b


LEMMA RowSetCovers ==
    ASSUME NEW g \in Caches, NEW p \in Positions, Covers(g, p),
           NEW y \in Heights \cup {NoHeight}
    PROVE  /\ RowSet(g, p, y) \in Caches
           /\ \A e \in Positions : Covers(g, e) => Covers(RowSet(g, p, y), e)
<1> DEFINE c == RowSet(g, p, y)
<1>1. c \in Caches /\ Alike(c, g)
  BY RowSetIs
<1> HIDE DEF c
<1>2. ASSUME NEW s \in DOMAIN g PROVE s \in DOMAIN c /\ Len(c[s]) = Len(g[s])
  <2>1. s \in DOMAIN c /\ DOMAIN c[s] = DOMAIN g[s]
    BY <1>1 DEF Alike
  <2>2. c[s] \in Rows /\ g[s] \in Rows
    BY <1>1, <2>1 DEF Caches
  <2> QED
    BY <2>1, <2>2 DEF Rows
<1>3. \A e \in Positions : Covers(g, e) => Covers(c, e)
  BY <1>2 DEF Covers
<1> QED
  BY <1>1, <1>3 DEF c

\* fd_reloadRowsAtIndexPaths:
LEMMA ForgetRowsRuns ==
    ASSUME NEW h \in Caches, NEW P, SetToSeq(P) \in Seq(Positions)
    PROVE  \E f \in [0..Len(SetToSeq(P)) -> Room(SetToSeq(P))] :
             /\ f[0] = BuildCaches(h, SetToSeq(P)) /\ f[Len(SetToSeq(P))] = ForgetRows(h, P)
             /\ \A k \in 1..Len(SetToSeq(P)) :
                  f[k] = RowSet(f[k - 1], SetToSeq(P)[k], NoHeight)
<1> DEFINE n == Len(SetToSeq(P))
           q == SetToSeq(P)
           X == Room(SetToSeq(P))
           b == BuildCaches(h, SetToSeq(P))
           Step(g, e) == RowSet(g, e, NoHeight)
           F == [k \in 1..n |-> [g \in X |-> Step(g, q[k])]]
           Eq(it) == it = [T \in SUBSET (1..n) |->
                             IF T = {} THEN b ELSE Step(it[T \ {Max(T)}], q[Max(T)])]
           solution == CHOOSE it : Eq(it)
<1>0. b \in X
  BY BuildCachesIs
<1>1. n \in Nat /\ DOMAIN q = 1..n /\ \A k \in 1..n : q[k] \in Positions
  OBVIOUS
<1>2. ForgetRows(h, P) = solution[1..n]
  BY <1>1 DEF ForgetRows, RowSet, FoldLeft, MapThenFoldSet
<1> HIDE DEF n, q, X, b
<1>3. StepsIn(F, n, X)
  <2>1. \A k \in 1..n : \A g \in X : Step(g, q[k]) \in X
    <3> SUFFICES ASSUME NEW k \in 1..n, NEW g \in X PROVE Step(g, q[k]) \in X
      OBVIOUS
    <3> DEFINE p == q[k]
    <3>1. p \in Positions /\ g \in Caches /\ Covers(g, p)
      BY <1>1 DEF X, Room, q
    <3>2. \A j \in 1..n : q[j] \in Positions /\ Covers(g, q[j])
      BY <1>1 DEF X, Room, q
    <3> HIDE DEF p
    <3>3. RowSet(g, p, NoHeight) \in Caches
      BY <3>1, EmptyRows, RowSetCovers
    <3>4. \A e \in Positions : Covers(g, e) => Covers(RowSet(g, p, NoHeight), e)
      BY <3>1, EmptyRows, RowSetCovers
    <3>5. \A j \in 1..n : Covers(RowSet(g, p, NoHeight), q[j])
      BY <3>2, <3>4
    <3>6. RowSet(g, p, NoHeight) \in Room(q)
      BY <3>3, <3>5, <1>1 DEF Room
    <3> QED
      BY <3>6 DEF p, X, q
  <2> QED
    BY <2>1 DEF StepsIn
<1>4. \A k \in 1..n : \A g \in X : F[k][g] = Step(g, q[k])
  OBVIOUS
<1> HIDE DEF F
<1>5. PICK it : Solves(it, n, X, b, F)
  BY <1>0, <1>1, <1>3, FoldExists
<1>6. Eq(it)
  <2>1. ASSUME NEW T \in SUBSET (1..n), T # {}
        PROVE  it[T] = Step(it[T \ {Max(T)}], q[Max(T)])
    <3>1. T \ {Max(T)} \in SUBSET (1..n)
      OBVIOUS
    <3>2. it[T \ {Max(T)}] \in X
      BY <3>1, <1>5 DEF Solves
    <3>3. Max(T) \in 1..n /\ it[T] = F[Max(T)][it[T \ {Max(T)}]]
      BY <1>5, <2>1 DEF Solves
    <3> QED
      BY <1>4, <3>2, <3>3
  <2>2. it = [T \in SUBSET (1..n) |-> it[T]] /\ it[{}] = b
    BY <1>5 DEF Solves
  <2> QED
    BY <2>1, <2>2
<1>7. Eq(solution)
  BY <1>6
<1> HIDE DEF solution
<1>8. solution[{}] = b
  BY <1>7
<1>9. Follows(solution, n, X, b, F)
  <2> SUFFICES ASSUME NEW T \in SUBSET (1..n), T # {}, solution[T \ {Max(T)}] \in X
               PROVE  solution[T] = F[Max(T)][solution[T \ {Max(T)}]]
    BY <1>8 DEF Follows
  <2>1. Max(T) \in 1..n
    BY <1>5 DEF Solves
  <2>2. solution[T] = Step(solution[T \ {Max(T)}], q[Max(T)])
    BY <1>7
  <2> QED
    BY <1>4, <2>1, <2>2
<1>10. PICK f : Runs(f, n, X, b, F) /\ f[n] = solution[1..n]
  BY <1>0, <1>1, <1>3, <1>9, FoldRuns
<1>11. f \in [0..n -> X] /\ f[0] = b /\ f[n] = ForgetRows(h, P)
  BY <1>2, <1>10 DEF Runs
<1>12. ASSUME NEW k \in 1..n PROVE f[k] = Step(f[k - 1], q[k])
  <2>1. k - 1 \in 0..n
    BY <1>1
  <2>2. f[k - 1] \in X /\ f[k] = F[k][f[k - 1]]
    BY <2>1, <1>10, <1>11 DEF Runs
  <2> QED
    BY <2>2, <1>4
<1> QED
  BY <1>11, <1>12 DEF n, q, X, b

LEMMA FreshIs ==
    ASSUME NEW o, NEW h, NEW t
    PROVE  Fresh(o, h, t) <=>
             \A s, r \in Numbers : HeightAt(h, s, r) # NoHeight =>
               /\ s \in DOMAIN t /\ r \in DOMAIN t[s]
               /\ HeightAt(h, s, r) = [content |-> t[s][r], width |-> o]
<1>1. \A s \in Numbers : s \in DOMAIN t => At(t, s, <<>>) = t[s]
  BY DEF At
<1>2. \A s \in Numbers : s \notin DOMAIN t => At(t, s, <<>>) = <<>>
  BY DEF At
<1>3. DOMAIN <<>> = {}
  OBVIOUS
<1> QED
  BY <1>1, <1>2, <1>3 DEF Fresh, SectionFresh, HeightAt

\* The index paths of an insertion ascend within each section.
Ordered(paths) ==
    \A i, j \in DOMAIN paths : i < j =>
      paths[i][1] # paths[j][1] \/ paths[i][2] < paths[j][2]

LEMMA InsertRowsSpread ==
    ASSUME NEW h \in Caches, NEW P \in SUBSET Positions, IsFiniteSet(P),
           NEW paths \in SetToSeqs(P), Ordered(paths)
    PROVE  /\ InsertRows(h, paths) \in Caches
           /\ \A s \in Numbers :
                Spread(At(InsertRows(h, paths), s, <<>>), At(h, s, <<>>), RowsIn(P, s), NoHeight)
<1> DEFINE n == Len(paths)
           T(k) == {paths[j] : j \in 1..k}
           Done(g, U) == \A s \in Numbers :
             Spread(At(g, s, <<>>), At(h, s, <<>>), RowsIn(U, s), NoHeight)
<1>0. /\ paths \in Seq(P) /\ paths \in [1..Cardinality(P) -> P] /\ Len(paths) = Cardinality(P)
      /\ \A x \in P : \E k \in 1..Cardinality(P) : paths[k] = x
  BY SetToSeqsIs
<1>1. paths \in Seq(Positions) /\ n \in Nat /\ DOMAIN paths = 1..n
  BY <1>0
<1>2. /\ \A k \in 1..n : paths[k] \in P
      /\ \A k \in 1..n : paths[k] \in Positions
      /\ \A x \in P : \E k \in 1..n : paths[k] = x
  BY <1>0
<1>3. PICK f \in [0..n -> Room(paths)] :
        /\ f[0] = BuildCaches(h, paths) /\ f[n] = InsertRows(h, paths)
        /\ \A k \in 1..n : f[k] = RowInserted(f[k - 1], paths[k])
  BY <1>1, InsertRowsRuns
<1> HIDE DEF n
<1> DEFINE Q == {k \in 0..n : Done(f[k], T(k))}
<1>4. 0 \in Q
  <2>1. SameHeights(f[0], h)
    BY <1>1, <1>3, BuildCachesIs
  <2>2. ASSUME NEW s \in Numbers
        PROVE  Spread(At(f[0], s, <<>>), At(h, s, <<>>), RowsIn(T(0), s), NoHeight)
    <3>1. RowsIn(T(0), s) = {}
      BY DEF RowsIn
    <3> DEFINE q == At(f[0], s, <<>>)  p == At(h, s, <<>>)
    <3>2. \A i \in Numbers : At(q, i, NoHeight) = At(p, i, NoHeight)
      BY <2>1 DEF SameHeights, HeightAt
    <3> HIDE DEF q, p
    <3>3. Spread(q, p, {}, NoHeight)
      BY <3>2, SpreadNothing
    <3> QED
      BY <3>1, <3>3 DEF q, p
  <2>3. 0 \in 0..n
    BY <1>1
  <2> HIDE DEF T
  <2> QED
    BY <2>2, <2>3
<1>5. ASSUME NEW k \in 1..n, k - 1 \in Q PROVE k \in Q
  <2> DEFINE U == T(k - 1)  p == paths[k]  g == f[k - 1]  c == f[k]
  <2>1. k - 1 \in 0..n /\ k \in 0..n /\ k \in Nat
    BY <1>1
  <2>2. p \in Positions /\ g \in Caches /\ Covers(g, p) /\ c = RowInserted(g, p)
    BY <2>1, <1>1, <1>2, <1>3 DEF Room
  <2>3. Done(g, U)
    BY <1>5
  <2>4. T(k) = U \cup {p}
    <3>1. 1..k = (1..(k - 1)) \cup {k}
      BY <2>1
    <3> QED
      BY <3>1
  <2>5. \A e \in U : e \in Positions /\ (e[1] = p[1] => e[2] < p[2])
    <3>1. \A j \in 1..(k - 1) : j \in 1..n /\ j < k
      BY <2>1, <1>1
    <3> QED
      BY <3>1, <1>1, <1>2 DEF Ordered
  <2> HIDE DEF U, p, g, c, T
  <2>6. p[1] \in Numbers /\ p[2] \in Numbers
    BY <2>2 DEF Positions
  <2>7. ASSUME NEW s \in Numbers
        PROVE  Spread(At(c, s, <<>>), At(h, s, <<>>), RowsIn(T(k), s), NoHeight)
    <3> DEFINE S == RowsIn(U, s)
    <3>1. Spread(At(g, s, <<>>), At(h, s, <<>>), S, NoHeight)
      BY <2>3
    <3>2. CASE s # p[1]
      <4>1. RowsIn(T(k), s) = S
        BY <3>2, <2>4 DEF RowsIn
      <4>2. At(c, s, <<>>) = At(g, s, <<>>)
        BY <3>2, <2>2, RowInsertedIs
      <4> QED
        BY <3>1, <4>1, <4>2
    <3>3. CASE s = p[1]
      <4>1. RowsIn(T(k), s) = S \cup {p[2]}
        BY <3>3, <2>4 DEF RowsIn
      <4>2. S \in SUBSET Numbers /\ \A j \in S : j < p[2]
        BY <3>3, <2>5 DEF RowsIn, Positions
      <4>3. IsFiniteSet(S)
        <5>1. S \in SUBSET (1..p[2])
          BY <4>2, <2>6 DEF Numbers
        <5>2. IsFiniteSet(1..p[2])
          <6>1. p[2] \in Int /\ 1 \in Int
            BY <2>6 DEF Numbers
          <6> QED
            BY <6>1, FS_Interval
        <5> QED
          BY <5>1, <5>2, FS_Subset
      <4> DEFINE y == p[2]  q == At(g, s, <<>>)  r == At(c, s, <<>>)  v == At(h, s, <<>>)
      <4>4. HeightAt(c, s, y) = NoHeight
        BY <3>3, <2>2, RowInsertedIs
      <4>5. \A i \in Numbers : i < y => HeightAt(c, s, i) = HeightAt(g, s, i)
        BY <3>3, <2>2, RowInsertedIs
      <4>6. \A i \in Numbers : i > y => HeightAt(c, s, i) = HeightAt(g, s, i - 1)
        BY <3>3, <2>2, RowInsertedIs
      <4>7. /\ At(r, y, NoHeight) = NoHeight
            /\ \A i \in Numbers : i < y => At(r, i, NoHeight) = At(q, i, NoHeight)
            /\ \A i \in Numbers : i > y => At(r, i, NoHeight) = At(q, i - 1, NoHeight)
        BY <4>4, <4>5, <4>6 DEF HeightAt
      <4>8. Spread(q, v, S, NoHeight) /\ y \in Numbers /\ \A j \in S : j < y
        BY <3>1, <4>2, <2>6
      <4> HIDE DEF S, y, q, r, v
      <4>9. Spread(r, v, S \cup {y}, NoHeight)
        BY <4>2, <4>3, <4>7, <4>8, SpreadMore
      <4> QED
        BY <4>1, <4>9 DEF y, r, v
    <3> QED
      BY <3>2, <3>3
  <2> QED
    BY <2>1, <2>7 DEF c
<1>6. n \in Q
  <2> HIDE DEF Q
  <2>1. \A k \in 1..n : k - 1 \in Q => k \in Q
    BY <1>5
  <2>2. n \in 0..n
    BY <1>1
  <2> QED
    BY <1>1, <1>4, <2>1, <2>2, Climb
<1>7. T(n) = P
  BY <1>2
<1>8. InsertRows(h, paths) \in Caches
  <2>1. n \in 0..n
    BY <1>1
  <2> QED
    BY <2>1, <1>3 DEF Room
<1> QED
  BY <1>3, <1>6, <1>7, <1>8

\* fd_insertRowsAtIndexPaths:withRowAnimation: and UIKit insert the same rows.
LEMMA InsertRowsFresh ==
    ASSUME NEW o, NEW h \in Caches, NEW t \in Seq(Seq(Contents)), Fresh(o, h, t),
           NEW P \in SUBSET Positions, IsFiniteSet(P), \A p \in P : p[1] \in DOMAIN t,
           NEW paths \in SetToSeqs(P), Ordered(paths), NEW c
    PROVE  Fresh(o, InsertRows(h, paths),
                 [s \in DOMAIN t |-> Inserted(t[s], [r \in RowsIn(P, s) |-> c])])
<1> DEFINE g == InsertRows(h, paths)
           u == [s \in DOMAIN t |-> Inserted(t[s], [r \in RowsIn(P, s) |-> c])]
<1>1. \A s \in Numbers : Spread(At(g, s, <<>>), At(h, s, <<>>), RowsIn(P, s), NoHeight)
  BY InsertRowsSpread
<1>2. ASSUME NEW s \in Numbers PROVE SectionFresh(o, At(g, s, <<>>), At(u, s, <<>>))
  <2> DEFINE new == [r \in RowsIn(P, s) |-> c]  hr == At(h, s, <<>>)  gr == At(g, s, <<>>)
  <2>1. SectionFresh(o, hr, At(t, s, <<>>)) /\ Spread(gr, hr, RowsIn(P, s), NoHeight)
    BY <1>1 DEF Fresh
  <2>2. CASE s \in DOMAIN t
    <3>1. At(u, s, <<>>) = Inserted(t[s], new) /\ At(t, s, <<>>) = t[s]
      BY <2>2 DEF At
    <3>2. t[s] \in Seq(Contents)
      BY <2>2
    <3>3. RowsIn(P, s) \in SUBSET Numbers
      BY DEF RowsIn, Positions
    <3>4. IsFiniteSet(RowsIn(P, s))
      <4> DEFINE Q == {q \in P : q[1] = s}  F == [q \in Q |-> q[2]]
      <4>1. IsFiniteSet(Q)
        BY FS_Subset
      <4>2. F \in Surjection(Q, RowsIn(P, s))
        BY DEF Surjection, RowsIn
      <4> HIDE DEF F, Q
      <4> QED
        BY <4>1, <4>2, FS_Surjection
    <3>5. DOMAIN new = RowsIn(P, s)
      OBVIOUS
    <3> HIDE DEF new, gr, hr
    <3>6. SectionFresh(o, gr, Inserted(t[s], new))
      BY <2>1, <3>1, <3>2, <3>3, <3>4, <3>5, RowsSpreadFresh
    <3> QED
      BY <3>1, <3>6 DEF gr
  <2>3. CASE s \notin DOMAIN t
    <3>1. RowsIn(P, s) = {}
      BY <2>3 DEF RowsIn
    <3>2. SectionFresh(o, hr, <<>>)
      BY <2>1, <2>3 DEF At
    <3>3. \A i \in Numbers : Before({}, i) = 0 /\ i - 0 = i
      <4> TAKE i \in Numbers
      <4>1. {j \in {} : j < i} = {} /\ i - 0 = i
        BY DEF Numbers
      <4> QED
        BY <4>1, FS_EmptySet DEF Before
    <3>4. \A i \in Numbers : At(gr, i, NoHeight) = At(hr, i, NoHeight)
      <4>1. Spread(gr, hr, {}, NoHeight)
        BY <2>1, <3>1
      <4> HIDE DEF gr, hr
      <4> QED
        BY <4>1, <3>3 DEF Spread
    <3>5. SectionFresh(o, gr, <<>>)
      BY <3>2, <3>4 DEF SectionFresh
    <3> HIDE DEF gr
    <3> QED
      BY <3>5, FreshNowhere DEF gr
  <2> QED
    BY <2>2, <2>3
<1> HIDE DEF g, u
<1> QED
  BY <1>2 DEF Fresh, g, u

\* What ForgetRows leaves.
LEMMA ForgetRowsIs ==
    ASSUME NEW h \in Caches, NEW P \in SUBSET Positions, IsFiniteSet(P)
    PROVE  /\ ForgetRows(h, P) \in Caches
           /\ \A s, r \in Numbers : <<s, r>> \in P =>
                HeightAt(ForgetRows(h, P), s, r) = NoHeight
           /\ \A s, r \in Numbers : <<s, r>> \notin P =>
                HeightAt(ForgetRows(h, P), s, r) = HeightAt(h, s, r)
<1> DEFINE q == SetToSeq(P)  n == Len(q)
           T(k) == {q[j] : j \in 1..k}
           Forgot(g, U) ==
             /\ \A s, r \in Numbers : <<s, r>> \in U => HeightAt(g, s, r) = NoHeight
             /\ \A s, r \in Numbers : <<s, r>> \notin U => HeightAt(g, s, r) = HeightAt(h, s, r)
<1>0. /\ q \in Seq(P) /\ q \in [1..Cardinality(P) -> P] /\ Len(q) = Cardinality(P)
      /\ \A x \in P : \E k \in 1..Cardinality(P) : q[k] = x
  BY SetToSeqIs, SetToSeqsIs
<1>1. q \in Seq(Positions) /\ n \in Nat /\ DOMAIN q = 1..n
  BY <1>0
<1>2. /\ \A k \in 1..n : q[k] \in Positions
      /\ \A k \in 1..n : q[k] \in P
      /\ \A x \in P : \E k \in 1..n : q[k] = x
  BY <1>0
<1>3. PICK f \in [0..n -> Room(q)] :
        /\ f[0] = BuildCaches(h, q) /\ f[n] = ForgetRows(h, P)
        /\ \A k \in 1..n : f[k] = RowSet(f[k - 1], q[k], NoHeight)
  BY <1>1, ForgetRowsRuns
<1> HIDE DEF n, q
<1> DEFINE Q == {k \in 0..n : Forgot(f[k], T(k))}
<1>4. 0 \in Q
  <2>1. SameHeights(f[0], h)
    BY <1>1, <1>3, BuildCachesIs
  <2>2. T(0) = {}
    OBVIOUS
  <2> QED
    BY <2>1, <2>2, <1>1 DEF SameHeights
<1>5. ASSUME NEW k \in 1..n, k - 1 \in Q PROVE k \in Q
  <2> DEFINE U == T(k - 1)  p == q[k]  g == f[k - 1]  c == f[k]
  <2>1. k - 1 \in 0..n /\ k \in 0..n /\ k \in Nat
    BY <1>1
  <2>2. p \in Positions /\ g \in Caches /\ Covers(g, p) /\ c = RowSet(g, p, NoHeight)
    BY <2>1, <1>1, <1>2, <1>3 DEF Room
  <2>3. Forgot(g, U)
    BY <1>5
  <2>4. T(k) = U \cup {p}
    <3>1. 1..k = (1..(k - 1)) \cup {k}
      BY <2>1
    <3> QED
      BY <3>1
  <2> HIDE DEF U, p, g, c, T
  <2>5. /\ HeightAt(c, p[1], p[2]) = NoHeight
        /\ \A s, r \in Numbers : s # p[1] \/ r # p[2] => HeightAt(c, s, r) = HeightAt(g, s, r)
    BY <2>2, EmptyRows, RowSetIs
  <2>6. \A s, r \in Numbers : <<s, r>> = p <=> s = p[1] /\ r = p[2]
    BY <2>2 DEF Positions
  <2>7. Forgot(c, T(k))
    BY <2>3, <2>4, <2>5, <2>6
  <2> QED
    BY <2>1, <2>7 DEF c
<1>6. n \in Q
  <2> HIDE DEF Q
  <2>1. \A k \in 1..n : k - 1 \in Q => k \in Q
    BY <1>5
  <2>2. n \in 0..n
    BY <1>1
  <2> QED
    BY <1>1, <1>4, <2>1, <2>2, Climb
<1>7. T(n) = P
  BY <1>2
<1>8. ForgetRows(h, P) \in Caches
  <2>1. n \in 0..n
    BY <1>1
  <2> QED
    BY <2>1, <1>3 DEF Room
<1> QED
  BY <1>3, <1>6, <1>7, <1>8

\* Forgetting the rows that change keeps a cache fresh.
LEMMA ForgetRowsFresh ==
    ASSUME NEW o, NEW h \in Caches, NEW t, Fresh(o, h, t),
           NEW P \in SUBSET Positions, IsFiniteSet(P),
           NEW u, DOMAIN u = DOMAIN t, \A s \in DOMAIN t : DOMAIN u[s] = DOMAIN t[s],
           \A s \in DOMAIN t : \A r \in DOMAIN t[s] : <<s, r>> \notin P => u[s][r] = t[s][r]
    PROVE  Fresh(o, ForgetRows(h, P), u)
<1> DEFINE g == ForgetRows(h, P)
<1>1. /\ \A s, r \in Numbers : <<s, r>> \in P => HeightAt(g, s, r) = NoHeight
      /\ \A s, r \in Numbers : <<s, r>> \notin P => HeightAt(g, s, r) = HeightAt(h, s, r)
  BY ForgetRowsIs
<1>2. \A s, r \in Numbers : HeightAt(h, s, r) # NoHeight =>
        /\ s \in DOMAIN t /\ r \in DOMAIN t[s]
        /\ HeightAt(h, s, r) = [content |-> t[s][r], width |-> o]
  BY FreshIs
<1> HIDE DEF g
<1>3. \A s, r \in Numbers : HeightAt(g, s, r) # NoHeight =>
        /\ s \in DOMAIN u /\ r \in DOMAIN u[s]
        /\ HeightAt(g, s, r) = [content |-> u[s][r], width |-> o]
  BY <1>1, <1>2
<1> QED
  BY <1>3, FreshIs DEF g

LEMMA DeletedIs ==
    ASSUME NEW X, NEW q \in Seq(X), NEW S
    PROVE  /\ Deleted(q, S) \in Seq(X)
           /\ DOMAIN Deleted(q, S) = 1..Cardinality(DOMAIN q \ S)
           /\ \A k \in 1..Cardinality(DOMAIN q \ S) :
                Deleted(q, S)[k] = q[Ascending(DOMAIN q \ S)[k]]
<1> DEFINE D == DOMAIN q \ S
<1>1. D \in SUBSET (1..Len(q)) /\ Len(q) \in Nat /\ \A i \in D : q[i] \in X
  OBVIOUS
<1>2. Deleted(q, S) = [k \in DOMAIN Ascending(D) |-> q[Ascending(D)[k]]]
  BY DEF Deleted
<1> HIDE DEF D
<1>3. Cardinality(D) \in Nat /\ Ascending(D) \in [1..Cardinality(D) -> D]
  BY <1>1, AscendingRises
<1>4. Deleted(q, S) \in [1..Cardinality(D) -> X]
  BY <1>1, <1>2, <1>3
<1>5. Deleted(q, S) \in Seq(X)
  BY <1>3, <1>4
<1> QED
  BY <1>2, <1>3, <1>4, <1>5 DEF D

LEMMA RowsDeletedFresh ==
    ASSUME NEW o, NEW X, NEW hr \in Seq(X), NEW Y, NEW tr \in Seq(Y),
           SectionFresh(o, hr, tr), NEW S
    PROVE  SectionFresh(o, Deleted(hr, S), Deleted(tr, S))
<1> DEFINE A == DOMAIN hr \ S  a == Ascending(A)  m == Cardinality(A)
           B == DOMAIN tr \ S  b == Ascending(B)  n == Cardinality(B)
<1>1. /\ DOMAIN Deleted(hr, S) = 1..m
      /\ \A k \in 1..m : Deleted(hr, S)[k] = hr[a[k]]
  <2>1. DOMAIN Deleted(hr, S) = 1..m
    BY DeletedIs
  <2>2. \A k \in 1..m : Deleted(hr, S)[k] = hr[a[k]]
    BY DeletedIs
  <2> QED
    BY <2>1, <2>2
<1>2. /\ DOMAIN Deleted(tr, S) = 1..n
      /\ \A k \in 1..n : Deleted(tr, S)[k] = tr[b[k]]
  <2>1. DOMAIN Deleted(tr, S) = 1..n
    BY DeletedIs
  <2>2. \A k \in 1..n : Deleted(tr, S)[k] = tr[b[k]]
    BY DeletedIs
  <2> QED
    BY <2>1, <2>2
<1>3. A \in SUBSET (1..Len(hr)) /\ B \in SUBSET (1..Len(tr))
      /\ Len(hr) \in Nat /\ Len(tr) \in Nat
  OBVIOUS
<1>4. m \in Nat /\ a \in [1..m -> A] /\ Rises(a) /\ Lists(a, A) /\ A \in SUBSET Nat
  <2>1. A \in SUBSET Nat
    BY <1>3
  <2> HIDE DEF A
  <2> QED
    BY <2>1, <1>3, AscendingRises
<1>5. n \in Nat /\ b \in [1..n -> B] /\ Rises(b) /\ Lists(b, B) /\ B \in SUBSET Nat
  <2>1. B \in SUBSET Nat
    BY <1>3
  <2> HIDE DEF B
  <2> QED
    BY <2>1, <1>3, AscendingRises
<1> HIDE DEF a, b, m, n
<1> SUFFICES ASSUME NEW r \in Numbers, At(Deleted(hr, S), r, NoHeight) # NoHeight
             PROVE  /\ r \in DOMAIN Deleted(tr, S)
                    /\ At(Deleted(hr, S), r, NoHeight)
                         = [content |-> Deleted(tr, S)[r], width |-> o]
  BY DEF SectionFresh
<1> DEFINE x == a[r]
<1>6. r \in 1..m /\ At(Deleted(hr, S), r, NoHeight) = hr[x]
  BY <1>1 DEF At
<1>7. x \in A /\ x \in DOMAIN hr /\ x \notin S /\ x \in Nat
  BY <1>4, <1>6
<1>8. x \in Numbers /\ At(hr, x, NoHeight) = hr[x]
  BY <1>7 DEF Numbers, At
<1>9. x \in DOMAIN tr /\ hr[x] = [content |-> tr[x], width |-> o]
  BY <1>6, <1>8 DEF SectionFresh
<1>10. \A y \in Nat : y <= x => (y \in A <=> y \in B)
  <2> SUFFICES ASSUME NEW y \in Nat, y <= x PROVE y \in DOMAIN hr <=> y \in DOMAIN tr
    OBVIOUS
  <2>1. DOMAIN hr = 1..Len(hr) /\ DOMAIN tr = 1..Len(tr)
    OBVIOUS
  <2>2. x <= Len(hr) /\ x <= Len(tr)
    BY <2>1, <1>7, <1>9
  <2> QED
    BY <2>1, <2>2, <1>3, <1>7
<1> HIDE DEF A, B
<1>11. r \in 1..n /\ b[r] = a[r]
  BY <1>4, <1>5, <1>6, <1>10, RisingAgree
<1> QED
  BY <1>2, <1>6, <1>9, <1>11

\* fd_deleteRowsAtIndexPaths:withRowAnimation: and UIKit delete the same rows.
LEMMA DeleteRowsFresh ==
    ASSUME NEW o, NEW h \in Caches, NEW t \in Seq(Seq(Contents)), Fresh(o, h, t),
           NEW P \in SUBSET Positions, IsFiniteSet(P)
    PROVE  /\ DeleteRows(h, P) \in Caches
           /\ Fresh(o, DeleteRows(h, P), [s \in DOMAIN t |-> Deleted(t[s], RowsIn(P, s))])
<1> DEFINE q == SetToSeq(P)  g == BuildCaches(h, q)  c == DeleteRows(h, P)
           u == [s \in DOMAIN t |-> Deleted(t[s], RowsIn(P, s))]
<1>1. q \in Seq(Positions)
  <2>1. q \in Seq(P)
    BY SetToSeqIs, SetToSeqsIs
  <2> QED
    BY <2>1
<1>2. g \in Caches /\ SameHeights(g, h)
  <2> HIDE DEF q
  <2> QED
    BY <1>1, BuildCachesIs DEF Room
<1>3. c = [s \in DOMAIN g |-> Deleted(g[s], RowsIn(P, s))]
  BY DEF DeleteRows
<1> HIDE DEF g, c
<1>4. Fresh(o, g, t)
  BY <1>2, SameFresh
<1>5. \A s \in DOMAIN g : g[s] \in Rows
  BY <1>2 DEF Caches
<1>6. c \in Caches
  <2>1. \A s \in DOMAIN g : Deleted(g[s], RowsIn(P, s)) \in Rows
    <3> TAKE s \in DOMAIN g
    <3> DEFINE v == g[s]  R == RowsIn(P, s)  X == Heights \cup {NoHeight}
    <3>1. v \in Seq(X)
      BY <1>5 DEF Rows
    <3> HIDE DEF v, R, X
    <3>2. Deleted(v, R) \in Seq(X)
      BY <3>1, DeletedIs
    <3> QED
      BY <3>2 DEF v, R, X, Rows
  <2>2. DOMAIN g = 1..Len(g) /\ Len(g) \in Nat
    BY <1>2 DEF Caches
  <2>3. c \in [1..Len(g) -> Rows]
    BY <2>1, <2>2, <1>3
  <2> QED
    BY <2>2, <2>3 DEF Caches
<1>7. ASSUME NEW s \in Numbers PROVE SectionFresh(o, At(c, s, <<>>), At(u, s, <<>>))
  <2> DEFINE R == RowsIn(P, s)  v == At(g, s, <<>>)  w == At(t, s, <<>>)
  <2>1. SectionFresh(o, v, w)
    BY <1>4 DEF Fresh
  <2>2. v \in Seq(Heights \cup {NoHeight}) /\ w \in Seq(Contents)
    BY <1>5 DEF At, Rows
  <2> HIDE DEF R, v, w
  <2>3. SectionFresh(o, Deleted(v, R), Deleted(w, R))
    BY <2>1, <2>2, RowsDeletedFresh
  <2>4. CASE s \notin DOMAIN g
    BY <2>4, <1>3, BlankFresh DEF At
  <2>5. CASE s \in DOMAIN g /\ s \in DOMAIN t
    BY <2>3, <2>5, <1>3 DEF At, R, v, w
  <2>6. CASE s \in DOMAIN g /\ s \notin DOMAIN t
    <3>1. w = <<>> /\ At(u, s, <<>>) = <<>> /\ At(c, s, <<>>) = Deleted(v, R)
      BY <2>6, <1>3 DEF At, w, v, R
    <3>2. DOMAIN Deleted(w, R) = {}
      <4>1. DOMAIN Deleted(w, R) = 1..Cardinality(DOMAIN w \ R)
        BY <2>2, DeletedIs
      <4>2. DOMAIN w \ R = {}
        BY <3>1
      <4>3. Cardinality(DOMAIN w \ R) = 0
        BY <4>2, FS_EmptySet
      <4> QED
        BY <4>1, <4>3
    <3>3. SectionFresh(o, Deleted(v, R), <<>>)
      BY <2>3, <3>2 DEF SectionFresh
    <3> QED
      BY <3>1, <3>3
  <2> QED
    BY <2>4, <2>5, <2>6
<1> HIDE DEF u
<1> QED
  BY <1>6, <1>7 DEF Fresh, c, u

-----------------------------------------------------------------------------
(* Moves to the next position.                                              *)

LEMMA InsertAtEntry ==
    ASSUME NEW X, NEW q \in Seq(X), NEW n \in Nat, n = Len(q) + 1, NEW i \in 1..n,
           NEW e \in X, NEW k \in 1..n
    PROVE  /\ k < i => InsertAt(q, i, e)[k] = q[k]
           /\ k > i => InsertAt(q, i, e)[k] = q[k - 1]
<1>1. i \in 1..(Len(q) + 1) /\ k \in 1..(Len(q) + 1)
  OBVIOUS
<1>2. PutIn(InsertAt(q, i, e), q, i, e)
  BY <1>1, InsertAtPuts
<1> QED
  BY <1>1, <1>2 DEF PutIn

LEMMA MovedNext ==
    ASSUME NEW X, NEW q \in Seq(X), NEW i \in DOMAIN q, NEW j \in DOMAIN q,
           i - j \in {-1, 1}
    PROVE  /\ DOMAIN Moved(q, i, j) = DOMAIN q
           /\ Moved(q, i, j)[i] = q[j] /\ Moved(q, i, j)[j] = q[i]
           /\ \A k \in DOMAIN q : k # i /\ k # j => Moved(q, i, j)[k] = q[k]
<1> DEFINE r == RemoveAt(q, i)  e == q[i]  n == Len(q)  w == InsertAt(r, j, e)
<1>1. n \in Nat /\ DOMAIN q = 1..n /\ i \in 1..n /\ j \in 1..n /\ e \in X
  OBVIOUS
<1>2. r \in Seq(X) /\ Len(r) = n - 1
  BY <1>1, RemoveAtIs
<1>3. \A k \in 1..(n - 1) : r[k] = IF k < i THEN q[k] ELSE q[k + 1]
  BY <1>1, RemoveAtIs
<1> HIDE DEF r, e
<1>4. n = Len(r) + 1
  BY <1>1, <1>2
<1>5. r \in Seq(X) /\ j \in 1..(Len(r) + 1) /\ e \in X
  BY <1>1, <1>2, <1>4
<1>6. w \in Seq(X) /\ PutIn(w, r, j, e)
  BY <1>5, InsertAtPuts
<1>7. Moved(q, i, j) = w
  BY DEF Moved, r, e
<1> HIDE DEF w
<1>8. w \in Seq(X) /\ Len(w) = Len(r) + 1 /\ w[j] = e
  BY <1>6 DEF PutIn
<1>9. \A k \in 1..n : k < j => w[k] = r[k]
  BY <1>4, <1>6 DEF PutIn
<1>10. \A k \in 1..n : k > j => w[k] = r[k - 1]
  BY <1>4, <1>6 DEF PutIn
<1> HIDE DEF n
<1>11. DOMAIN w = 1..n
  BY <1>4, <1>8
<1>12. ASSUME NEW k \in 1..n, k < j PROVE w[k] = IF k < i THEN q[k] ELSE q[k + 1]
  <2>1. k \in 1..(n - 1)
    BY <1>1, <1>12
  <2> QED
    BY <2>1, <1>3, <1>9, <1>12
<1>13. ASSUME NEW k \in 1..n, k > j PROVE w[k] = IF k - 1 < i THEN q[k - 1] ELSE q[k]
  <2>1. k - 1 \in 1..(n - 1) /\ (k - 1) + 1 = k
    BY <1>1, <1>4, <1>13
  <2>2. r[k - 1] = IF k - 1 < i THEN q[k - 1] ELSE q[(k - 1) + 1]
    BY <2>1, <1>3
  <2> QED
    BY <2>1, <2>2, <1>10, <1>13
<1>14. i = j + 1 \/ j = i + 1
  BY <1>1
<1>15. w[i] = q[j]
  <2>1. CASE i = j + 1
    <3>1. i > j /\ i - 1 = j /\ i - 1 < i
      BY <2>1, <1>1
    <3> QED
      BY <3>1, <1>1, <1>13
  <2>2. CASE j = i + 1
    <3>1. i < j /\ ~(i < i)
      BY <2>2, <1>1
    <3> QED
      BY <3>1, <2>2, <1>1, <1>12
  <2> QED
    BY <2>1, <2>2, <1>14
<1>16. ASSUME NEW k \in 1..n, k # i, k # j PROVE w[k] = q[k]
  <2>1. CASE k < j
    <3>1. k < i
      BY <2>1, <1>1, <1>14, <1>16
    <3> QED
      BY <2>1, <3>1, <1>12
  <2>2. CASE k > j
    <3>1. ~(k - 1 < i)
      BY <2>2, <1>1, <1>14, <1>16
    <3> QED
      BY <2>2, <3>1, <1>13
  <2> QED
    BY <2>1, <2>2, <1>1, <1>16
<1> QED
  BY <1>1, <1>8, <1>7, <1>11, <1>15, <1>16 DEF e

\* fd_moveSection:toSection: exchanges the sections.
LEMMA ExchangeSectionsIs ==
    ASSUME NEW h \in Caches, NEW s \in Numbers, NEW t \in Numbers, s # t
    PROVE  /\ ExchangeSections(h, s, t) \in Caches
           /\ At(ExchangeSections(h, s, t), s, <<>>) = At(h, t, <<>>)
           /\ At(ExchangeSections(h, s, t), t, <<>>) = At(h, s, <<>>)
           /\ \A i \in Numbers : i # s /\ i # t =>
                At(ExchangeSections(h, s, t), i, <<>>) = At(h, i, <<>>)
<1> DEFINE b == BuildSections(h, s)  g == BuildSections(b, t)
           x == g[s]  d == [g EXCEPT ![s] = g[t]]  c == [d EXCEPT ![t] = x]
<1>1. s \in Nat /\ s >= 1 /\ t \in Nat /\ t >= 1 /\ \A i \in Numbers : i \in Nat
  BY DEF Numbers
<1>2. b \in Caches /\ Len(b) >= s
  BY <1>1, BuildSectionsIs
<1>3. \A i \in Nat : At(b, i, <<>>) = At(h, i, <<>>)
  BY <1>1, BuildSectionsIs
<1> HIDE DEF b
<1>4. g \in Caches /\ Len(g) >= t /\ Len(g) >= Len(b)
  BY <1>1, <1>2, BuildSectionsIs
<1>5. \A i \in Nat : At(g, i, <<>>) = At(b, i, <<>>)
  BY <1>1, <1>2, BuildSectionsIs
<1>6. ExchangeSections(h, s, t) = c
  BY DEF ExchangeSections, b
<1> HIDE DEF g
<1>7. /\ s \in DOMAIN g /\ t \in DOMAIN g /\ x \in Rows /\ g[t] \in Rows
      /\ At(g, s, <<>>) = x /\ At(g, t, <<>>) = g[t]
  <2>1. Len(b) \in Nat /\ Len(g) \in Nat /\ DOMAIN g = 1..Len(g)
    BY <1>2, <1>4 DEF Caches
  <2>2. s \in DOMAIN g /\ t \in DOMAIN g
    BY <2>1, <1>1, <1>2, <1>4
  <2> QED
    BY <2>2, <1>4 DEF At, Caches
<1>8. d \in Caches /\ DOMAIN d = DOMAIN g /\ At(d, s, <<>>) = g[t]
  BY <1>4, <1>7, AtExcept
<1>9. \A i \in Numbers : i # s => At(d, i, <<>>) = At(g, i, <<>>)
  BY <1>4, <1>7, AtExcept
<1> HIDE DEF d, x
<1>15. d \in Caches /\ t \in DOMAIN d /\ x \in Rows
  BY <1>7, <1>8
<1>10. c \in Caches /\ At(c, t, <<>>) = x
  <2>1. c \in Caches
    BY <1>15, AtExcept
  <2>2. At(c, t, <<>>) = x
    BY <1>15, AtExcept
  <2> QED
    BY <2>1, <2>2
<1>11. \A i \in Numbers : i # t => At(c, i, <<>>) = At(d, i, <<>>)
  BY <1>7, <1>8, AtExcept
<1> HIDE DEF c
<1>12. \A i \in Numbers : At(g, i, <<>>) = At(h, i, <<>>)
  BY <1>1, <1>3, <1>5
<1> QED
  BY <1>6, <1>7, <1>8, <1>9, <1>10, <1>11, <1>12

LEMMA MoveSectionFresh ==
    ASSUME NEW o, NEW h \in Caches, NEW t \in Seq(Seq(Contents)), Fresh(o, h, t),
           NEW i \in DOMAIN t, NEW j \in DOMAIN t, i - j \in {-1, 1}
    PROVE  Fresh(o, ExchangeSections(h, i, j), Moved(t, i, j))
<1> DEFINE g == ExchangeSections(h, i, j)  u == Moved(t, i, j)
<1>1. i \in Numbers /\ j \in Numbers /\ i # j
  BY DEF Numbers
<1>2. At(g, i, <<>>) = At(h, j, <<>>) /\ At(g, j, <<>>) = At(h, i, <<>>)
  BY <1>1, ExchangeSectionsIs
<1>3. \A k \in Numbers : k # i /\ k # j => At(g, k, <<>>) = At(h, k, <<>>)
  BY <1>1, ExchangeSectionsIs
<1>4. /\ DOMAIN u = DOMAIN t /\ u[i] = t[j] /\ u[j] = t[i]
      /\ \A k \in DOMAIN t : k # i /\ k # j => u[k] = t[k]
  BY MovedNext
<1> HIDE DEF g, u
<1>5. /\ At(u, i, <<>>) = At(t, j, <<>>) /\ At(u, j, <<>>) = At(t, i, <<>>)
      /\ \A k \in Numbers : k # i /\ k # j => At(u, k, <<>>) = At(t, k, <<>>)
  BY <1>4 DEF At
<1>6. ASSUME NEW k \in Numbers PROVE SectionFresh(o, At(g, k, <<>>), At(u, k, <<>>))
  <2>1. CASE k = i
    BY <2>1, <1>1, <1>2, <1>5 DEF Fresh
  <2>2. CASE k = j
    BY <2>2, <1>1, <1>2, <1>5 DEF Fresh
  <2>3. CASE k # i /\ k # j
    BY <2>3, <1>3, <1>5 DEF Fresh
  <2> QED
    BY <2>1, <2>2, <2>3
<1> QED
  BY <1>6 DEF Fresh, g, u

\* fd_moveRowAtIndexPath:toIndexPath: exchanges the rows.
LEMMA ExchangeRowsIs ==
    ASSUME NEW h \in Caches, NEW p \in Positions, NEW q \in Positions
    PROVE  /\ ExchangeRows(h, p, q) \in Caches
           /\ Alike(ExchangeRows(h, p, q), BuildCaches(h, <<p, q>>))
           /\ HeightAt(ExchangeRows(h, p, q), q[1], q[2]) = HeightAt(h, p[1], p[2])
           /\ p # q =>
                HeightAt(ExchangeRows(h, p, q), p[1], p[2]) = HeightAt(h, q[1], q[2])
           /\ \A s, r \in Numbers : <<s, r>> # p /\ <<s, r>> # q =>
                HeightAt(ExchangeRows(h, p, q), s, r) = HeightAt(h, s, r)
<1> DEFINE b == <<p, q>>  g == BuildCaches(h, b)  x == g[p[1]][p[2]]  y == g[q[1]][q[2]]
           d == RowSet(g, p, y)  c == RowSet(d, q, x)
<1>1. b \in Seq(Positions) /\ DOMAIN b = {1, 2} /\ b[1] = p /\ b[2] = q
  OBVIOUS
<1>2. g \in Room(b) /\ SameHeights(g, h)
  <2> HIDE DEF b
  <2> QED
    BY <1>1, BuildCachesIs
<1>3. ExchangeRows(h, p, q) = c
  BY DEF ExchangeRows, RowSet
<1> HIDE DEF g
<1>4. g \in Caches /\ Covers(g, p) /\ Covers(g, q)
  <2>1. g \in Caches /\ \A k \in DOMAIN b : Covers(g, b[k])
    BY <1>2 DEF Room
  <2> QED
    BY <2>1, <1>1
<1> HIDE DEF b
<1>5. ASSUME NEW e \in Positions, Covers(g, e)
      PROVE  /\ g[e[1]][e[2]] \in Heights \cup {NoHeight}
             /\ g[e[1]][e[2]] = HeightAt(g, e[1], e[2])
             /\ e[1] \in Numbers /\ e[2] \in Numbers
  <2>1. e[1] \in Numbers /\ e[2] \in Nat /\ e[2] >= 1 /\ e[2] \in Numbers
    BY DEF Positions, Numbers
  <2>2. e[1] \in DOMAIN g /\ e[2] <= Len(g[e[1]]) /\ g[e[1]] \in Rows
    BY <1>4, <1>5 DEF Covers, Caches
  <2> DEFINE v == g[e[1]]
  <2>3. v \in Rows /\ e[2] <= Len(v)
    BY <2>2
  <2>4. e[2] \in DOMAIN v /\ v[e[2]] \in Heights \cup {NoHeight}
    <3> HIDE DEF v
    <3> QED
      BY <2>1, <2>3 DEF Rows
  <2> QED
    BY <2>1, <2>2, <2>4 DEF HeightAt, At
<1>6. /\ x \in Heights \cup {NoHeight} /\ x = HeightAt(g, p[1], p[2])
      /\ y \in Heights \cup {NoHeight} /\ y = HeightAt(g, q[1], q[2])
      /\ p[1] \in Numbers /\ p[2] \in Numbers /\ q[1] \in Numbers /\ q[2] \in Numbers
  BY <1>4, <1>5
<1> HIDE DEF x, y
<1>7. d \in Caches /\ Alike(d, g) /\ HeightAt(d, p[1], p[2]) = y
  BY <1>4, <1>6, RowSetIs
<1>8. \A s, r \in Numbers : s # p[1] \/ r # p[2] => HeightAt(d, s, r) = HeightAt(g, s, r)
  BY <1>4, <1>6, RowSetIs
<1>9. Covers(d, q)
  BY <1>4, <1>6, RowSetCovers
<1> HIDE DEF d
<1>10. c \in Caches /\ Alike(c, d) /\ HeightAt(c, q[1], q[2]) = x
  BY <1>6, <1>7, <1>9, RowSetIs
<1>11. \A s, r \in Numbers : s # q[1] \/ r # q[2] => HeightAt(c, s, r) = HeightAt(d, s, r)
  BY <1>6, <1>7, <1>9, RowSetIs
<1> HIDE DEF c
<1>12. Alike(c, g)
  BY <1>7, <1>10 DEF Alike
<1>13. /\ \A s, r \in Numbers : <<s, r>> = p <=> s = p[1] /\ r = p[2]
       /\ \A s, r \in Numbers : <<s, r>> = q <=> s = q[1] /\ r = q[2]
       /\ p = <<p[1], p[2]>> /\ q = <<q[1], q[2]>>
  BY DEF Positions
<1>14. \A s, r \in Numbers : HeightAt(g, s, r) = HeightAt(h, s, r)
  BY <1>2 DEF SameHeights
<1>15. HeightAt(c, q[1], q[2]) = HeightAt(h, p[1], p[2])
  BY <1>6, <1>10, <1>14
<1>16. p # q => HeightAt(c, p[1], p[2]) = HeightAt(h, q[1], q[2])
  BY <1>6, <1>7, <1>11, <1>13, <1>14
<1>17. \A s, r \in Numbers : <<s, r>> # p /\ <<s, r>> # q =>
         HeightAt(c, s, r) = HeightAt(h, s, r)
  BY <1>8, <1>11, <1>13, <1>14
<1> QED
  BY <1>3, <1>10, <1>12, <1>15, <1>16, <1>17 DEF g, b

LEMMA MoveRowFresh ==
    ASSUME NEW o, NEW h \in Caches, NEW t \in Seq(Seq(Contents)), Fresh(o, h, t),
           NEW p \in Positions, NEW q \in Positions, p[1] = q[1], p[1] \in DOMAIN t,
           p[2] \in DOMAIN t[p[1]], q[2] \in DOMAIN t[p[1]], p[2] - q[2] \in {-1, 1}
    PROVE  Fresh(o, ExchangeRows(h, p, q), [t EXCEPT ![p[1]] = Moved(t[p[1]], p[2], q[2])])
<1> DEFINE s == p[1]  i == p[2]  j == q[2]  w == t[s]  v == Moved(w, i, j)
           g == ExchangeRows(h, p, q)  u == [t EXCEPT ![s] = v]
<1>1. /\ s \in Numbers /\ i \in Numbers /\ j \in Numbers /\ i # j /\ p # q
      /\ p = <<s, i>> /\ q = <<s, j>>
  BY DEF Positions, Numbers
<1>2. w \in Seq(Contents) /\ i \in DOMAIN w /\ j \in DOMAIN w
  OBVIOUS
<1>3. /\ DOMAIN v = DOMAIN w /\ v[i] = w[j] /\ v[j] = w[i]
      /\ \A k \in DOMAIN w : k # i /\ k # j => v[k] = w[k]
  <2> HIDE DEF w
  <2> QED
    BY <1>2, MovedNext
<1>4. HeightAt(g, s, j) = HeightAt(h, s, i) /\ HeightAt(g, s, i) = HeightAt(h, s, j)
  <2>1. HeightAt(g, q[1], q[2]) = HeightAt(h, p[1], p[2])
    BY ExchangeRowsIs
  <2>2. p # q => HeightAt(g, p[1], p[2]) = HeightAt(h, q[1], q[2])
    BY ExchangeRowsIs
  <2> HIDE DEF g
  <2> QED
    BY <2>1, <2>2, <1>1
<1>5. \A a, r \in Numbers : <<a, r>> # p /\ <<a, r>> # q => HeightAt(g, a, r) = HeightAt(h, a, r)
  BY ExchangeRowsIs
<1>6. \A a, r \in Numbers : HeightAt(h, a, r) # NoHeight =>
        /\ a \in DOMAIN t /\ r \in DOMAIN t[a]
        /\ HeightAt(h, a, r) = [content |-> t[a][r], width |-> o]
  BY FreshIs
<1> HIDE DEF v, g
<1>7. DOMAIN u = DOMAIN t /\ u[s] = v /\ \A a \in DOMAIN t : a # s => u[a] = t[a]
  OBVIOUS
<1> HIDE DEF u
<1>8. ASSUME NEW a \in Numbers, NEW r \in Numbers, HeightAt(g, a, r) # NoHeight
      PROVE  /\ a \in DOMAIN u /\ r \in DOMAIN u[a]
             /\ HeightAt(g, a, r) = [content |-> u[a][r], width |-> o]
  <2>1. CASE a = s /\ r = i
    <3>1. HeightAt(h, s, j) # NoHeight /\ HeightAt(g, a, r) = HeightAt(h, s, j)
      BY <2>1, <1>4, <1>8
    <3>2. HeightAt(h, s, j) = [content |-> w[j], width |-> o]
      BY <3>1, <1>1, <1>6
    <3> QED
      BY <3>1, <3>2, <2>1, <1>2, <1>3, <1>7
  <2>2. CASE a = s /\ r = j
    <3>1. HeightAt(h, s, i) # NoHeight /\ HeightAt(g, a, r) = HeightAt(h, s, i)
      BY <2>2, <1>4, <1>8
    <3>2. HeightAt(h, s, i) = [content |-> w[i], width |-> o]
      BY <3>1, <1>1, <1>6
    <3> QED
      BY <3>1, <3>2, <2>2, <1>2, <1>3, <1>7
  <2>3. CASE a = s /\ r # i /\ r # j
    <3>1. <<a, r>> # p /\ <<a, r>> # q
      BY <2>3, <1>1
    <3>2. HeightAt(g, a, r) = HeightAt(h, a, r) /\ HeightAt(h, a, r) # NoHeight
      BY <3>1, <1>5, <1>8
    <3>3. r \in DOMAIN w /\ HeightAt(h, a, r) = [content |-> w[r], width |-> o]
      BY <3>2, <2>3, <1>6
    <3> QED
      BY <3>2, <3>3, <2>3, <1>3, <1>7
  <2>4. CASE a # s
    <3>1. <<a, r>> # p /\ <<a, r>> # q
      BY <2>4, <1>1
    <3>2. HeightAt(g, a, r) = HeightAt(h, a, r) /\ HeightAt(h, a, r) # NoHeight
      BY <3>1, <1>5, <1>8
    <3> QED
      BY <3>2, <2>4, <1>6, <1>7
  <2> QED
    BY <2>1, <2>2, <2>3, <2>4
<1>9. Fresh(o, g, u)
  BY <1>8, FreshIs
<1> QED
  BY <1>9 DEF g, u, v

\* A height that was computed and cached.
LEMMA CachedFresh ==
    ASSUME NEW o \in Orientations, NEW h \in Caches, NEW t \in Seq(Seq(Contents)), Fresh(o, h, t),
           NEW p \in Positions, p[1] \in DOMAIN t, p[2] \in DOMAIN t[p[1]]
    PROVE  LET y == [content |-> t[p[1]][p[2]], width |-> o] IN
             /\ RowSet(BuildCache(h, p), p, y) \in Caches
             /\ Alike(RowSet(BuildCache(h, p), p, y), BuildCache(h, p))
             /\ Fresh(o, RowSet(BuildCache(h, p), p, y), t)
<1> DEFINE y == [content |-> t[p[1]][p[2]], width |-> o]  g == BuildCache(h, p)  c == RowSet(g, p, y)
<1>1. y \in Heights \cup {NoHeight}
  <2>1. t[p[1]] \in Seq(Contents)
    OBVIOUS
  <2>2. t[p[1]][p[2]] \in Contents
    BY <2>1
  <2> QED
    BY <2>2 DEF Heights
<1>2. g \in Caches /\ Covers(g, p) /\ SameHeights(g, h)
  BY BuildCacheIs, BuildCacheCovers
<1> HIDE DEF g
<1>3. y = [content |-> t[p[1]][p[2]], width |-> o]
  OBVIOUS
<1> HIDE DEF y
<1>4. c \in Caches /\ Alike(c, g) /\ HeightAt(c, p[1], p[2]) = y
  BY <1>1, <1>2, RowSetIs
<1>5. \A s, r \in Numbers : s # p[1] \/ r # p[2] => HeightAt(c, s, r) = HeightAt(g, s, r)
  BY <1>1, <1>2, RowSetIs
<1>6. \A s, r \in Numbers : HeightAt(g, s, r) # NoHeight =>
        /\ s \in DOMAIN t /\ r \in DOMAIN t[s]
        /\ HeightAt(g, s, r) = [content |-> t[s][r], width |-> o]
  <2>1. Fresh(o, g, t)
    BY <1>2, SameFresh
  <2> QED
    BY <2>1, FreshIs
<1> HIDE DEF c
<1>7. \A s, r \in Numbers : HeightAt(c, s, r) # NoHeight =>
        /\ s \in DOMAIN t /\ r \in DOMAIN t[s]
        /\ HeightAt(c, s, r) = [content |-> t[s][r], width |-> o]
  BY <1>3, <1>4, <1>5, <1>6
<1>8. Fresh(o, c, t)
  BY <1>7, FreshIs
<1> QED
  BY <1>4, <1>8 DEF c, g, y

-----------------------------------------------------------------------------
(* The two orientations.                                                    *)

LEMMA AlikeRuns ==
    ASSUME NEW n \in Nat, NEW f, NEW g, Alike(f[0], g[0]),
           \A k \in 1..n : Alike(f[k - 1], g[k - 1]) => Alike(f[k], g[k])
    PROVE  Alike(f[n], g[n])
<1> DEFINE P == {k \in 0..n : Alike(f[k], g[k])}
<1>1. 0 \in P
  OBVIOUS
<1>2. \A k \in 1..n : k - 1 \in P => k \in P
  OBVIOUS
<1>3. n \in 0..n
  OBVIOUS
<1>4. n \in P
  <2> HIDE DEF P
  <2> QED
    BY <1>1, <1>2, <1>3, Climb
<1> QED
  BY <1>4

LEMMA BuildCachesAlike ==
    ASSUME NEW g \in Caches, NEW h \in Caches, Alike(g, h), NEW paths \in Seq(Positions)
    PROVE  Alike(BuildCaches(g, paths), BuildCaches(h, paths))
<1> DEFINE n == Len(paths)
<1>1. n \in Nat /\ \A k \in 1..n : paths[k] \in Positions
  OBVIOUS
<1>2. PICK f \in [0..n -> Caches] :
        /\ f[0] = g /\ f[n] = BuildCaches(g, paths)
        /\ \A k \in 1..n : f[k] = BuildCache(f[k - 1], paths[k])
  BY BuildCachesRuns
<1>3. PICK e \in [0..n -> Caches] :
        /\ e[0] = h /\ e[n] = BuildCaches(h, paths)
        /\ \A k \in 1..n : e[k] = BuildCache(e[k - 1], paths[k])
  BY BuildCachesRuns
<1> HIDE DEF n
<1>4. ASSUME NEW k \in 1..n, Alike(f[k - 1], e[k - 1]) PROVE Alike(f[k], e[k])
  <2>1. k - 1 \in 0..n
    BY <1>1
  <2>2. f[k - 1] \in Caches /\ e[k - 1] \in Caches /\ paths[k] \in Positions
    BY <2>1, <1>1
  <2>3. Alike(BuildCache(f[k - 1], paths[k]), BuildCache(e[k - 1], paths[k]))
    BY <2>2, <1>4, BuildCacheAlike
  <2> QED
    BY <2>3, <1>2, <1>3
<1>5. Alike(f[n], e[n])
  BY <1>1, <1>2, <1>3, <1>4, AlikeRuns
<1> QED
  BY <1>2, <1>3, <1>5

LEMMA InsertSectionAlike ==
    ASSUME NEW g \in Caches, NEW h \in Caches, Alike(g, h), NEW s \in Numbers
    PROVE  Alike(InsertAt(BuildSections(g, s), s, <<>>), InsertAt(BuildSections(h, s), s, <<>>))
<1> DEFINE b == BuildSections(g, s)  c == BuildSections(h, s)  n == Len(b) + 1
           e == <<>>  x == InsertAt(b, s, e)  y == InsertAt(c, s, e)
<1>1. s \in Nat /\ s >= 1
  BY DEF Numbers
<1>2. b \in Caches /\ Len(b) >= s /\ c \in Caches /\ Alike(b, c)
  BY <1>1, BuildSectionsIs, BuildSectionsAlike
<1>10. e \in Rows
  BY EmptyRows
<1> HIDE DEF b, c, e
<1>3. /\ b \in Seq(Rows) /\ c \in Seq(Rows) /\ Len(b) = Len(c) /\ Len(b) \in Nat
      /\ DOMAIN b = 1..Len(b) /\ e \in Rows
      /\ \A k \in 1..Len(b) : DOMAIN b[k] = DOMAIN c[k]
  BY <1>2, <1>10 DEF Caches, Alike
<1>4. n \in Nat /\ s \in 1..n /\ s \in 1..(Len(b) + 1) /\ s \in 1..(Len(c) + 1)
  BY <1>1, <1>2, <1>3
<1>5. x \in Seq(Rows) /\ Len(x) = Len(b) + 1 /\ x[s] = e
  BY <1>3, <1>4, InsertAtIs
<1>6. y \in Seq(Rows) /\ Len(y) = Len(c) + 1 /\ y[s] = e
  BY <1>3, <1>4, InsertAtIs
<1>7. DOMAIN x = 1..n /\ DOMAIN y = 1..n
  BY <1>3, <1>5, <1>6
<1>9. n = Len(b) + 1 /\ n = Len(c) + 1
  BY <1>3
<1> HIDE DEF n
<1>8. ASSUME NEW k \in 1..n PROVE DOMAIN x[k] = DOMAIN y[k]
  <2>6. b \in Seq(Rows) /\ c \in Seq(Rows) /\ n \in Nat /\ s \in 1..n /\ e \in Rows
    BY <1>3, <1>4
  <2>1. /\ k < s => x[k] = b[k]
        /\ k > s => x[k] = b[k - 1]
    BY <2>6, <1>9, InsertAtEntry
  <2>2. n = Len(c) + 1
    BY <1>9
  <2>3. /\ k < s => y[k] = c[k]
        /\ k > s => y[k] = c[k - 1]
    BY <2>2, <2>6, InsertAtEntry
  <2>4. (k < s => k \in 1..Len(b)) /\ (k > s => k - 1 \in 1..Len(b))
    BY <1>1, <1>3, <1>4, <1>9
  <2> HIDE DEF x, y, n
  <2>5. k < s \/ k > s \/ k = s
    BY <1>4
  <2> QED
    BY <2>1, <2>3, <2>4, <2>5, <1>3, <1>5, <1>6
<1> HIDE DEF x, y
<1> QED
  BY <1>7, <1>8 DEF Alike, b, c, e, x, y

LEMMA DeleteSectionAlike ==
    ASSUME NEW g \in Caches, NEW h \in Caches, Alike(g, h), NEW s \in Numbers
    PROVE  Alike(RemoveAt(BuildSections(g, s), s), RemoveAt(BuildSections(h, s), s))
<1> DEFINE b == BuildSections(g, s)  c == BuildSections(h, s)
           x == RemoveAt(b, s)  y == RemoveAt(c, s)
<1>1. s \in Nat /\ s >= 1
  BY DEF Numbers
<1>2. b \in Caches /\ Len(b) >= s /\ c \in Caches /\ Alike(b, c)
  BY <1>1, BuildSectionsIs, BuildSectionsAlike
<1> HIDE DEF b, c
<1>3. /\ b \in Seq(Rows) /\ c \in Seq(Rows) /\ Len(b) = Len(c) /\ Len(b) \in Nat
      /\ DOMAIN b = 1..Len(b)
      /\ \A k \in 1..Len(b) : DOMAIN b[k] = DOMAIN c[k]
  BY <1>2 DEF Caches, Alike
<1>4. s \in 1..Len(b) /\ s \in 1..Len(c)
  BY <1>1, <1>2, <1>3
<1>5. x \in Seq(Rows) /\ Len(x) = Len(b) - 1
  BY <1>3, <1>4, RemoveAtIs
<1>6. y \in Seq(Rows) /\ Len(y) = Len(c) - 1
  BY <1>3, <1>4, RemoveAtIs
<1>7. DOMAIN x = 1..(Len(b) - 1) /\ DOMAIN y = 1..(Len(b) - 1)
  BY <1>3, <1>5, <1>6
<1>8. ASSUME NEW k \in 1..(Len(b) - 1) PROVE DOMAIN x[k] = DOMAIN y[k]
  <2>1. x[k] = IF k < s THEN b[k] ELSE b[k + 1]
    BY <1>3, <1>4, RemoveAtIs
  <2>2. k \in 1..(Len(c) - 1)
    BY <1>3
  <2>3. y[k] = IF k < s THEN c[k] ELSE c[k + 1]
    BY <2>2, <1>3, <1>4, RemoveAtIs
  <2>4. k \in 1..Len(b) /\ k + 1 \in 1..Len(b)
    BY <1>3
  <2> HIDE DEF x, y
  <2> QED
    BY <2>1, <2>3, <2>4, <1>3
<1> QED
  BY <1>7, <1>8 DEF Alike, b, c

LEMMA EmptySectionAlike ==
    ASSUME NEW g \in Caches, NEW h \in Caches, Alike(g, h), NEW s \in Numbers
    PROVE  Alike(SectionEmptied(g, s), SectionEmptied(h, s))
<1> DEFINE b == BuildSections(g, s)  c == BuildSections(h, s)  x == <<>>
<1>1. Alike(b, c)
  BY BuildSectionsAlike DEF Numbers
<1> HIDE DEF b, c, x
<1>2. Alike([b EXCEPT ![s] = x], [c EXCEPT ![s] = x])
  BY <1>1, AlikeExcept
<1> QED
  BY <1>2 DEF SectionEmptied, b, c, x

LEMMA InsertSectionsAlike ==
    ASSUME NEW g \in Caches, NEW h \in Caches, Alike(g, h),
           NEW m \in Nat, NEW S \in SUBSET (1..m)
    PROVE  InsertSections(g, S) \in Caches /\ Alike(InsertSections(g, S), InsertSections(h, S))
<1> DEFINE n == Cardinality(S)  a == Ascending(S)
<1>1. n \in Nat /\ a \in [1..n -> S]
  BY AscendingRises
<1>2. PICK f \in [0..n -> Caches] :
        /\ f[0] = g /\ f[n] = InsertSections(g, S)
        /\ \A k \in 1..n : f[k] = InsertAt(BuildSections(f[k - 1], a[k]), a[k], <<>>)
  BY InsertSectionsRuns
<1>3. PICK e \in [0..n -> Caches] :
        /\ e[0] = h /\ e[n] = InsertSections(h, S)
        /\ \A k \in 1..n : e[k] = InsertAt(BuildSections(e[k - 1], a[k]), a[k], <<>>)
  BY InsertSectionsRuns
<1> HIDE DEF n, a
<1>4. ASSUME NEW k \in 1..n, Alike(f[k - 1], e[k - 1]) PROVE Alike(f[k], e[k])
  <2> DEFINE b == f[k - 1]  c == e[k - 1]  s == a[k]
  <2>1. k - 1 \in 0..n /\ a[k] \in Numbers
    <3>1. a[k] \in 1..m
      BY <1>1
    <3>2. a[k] \in Numbers
      BY <3>1 DEF Numbers
    <3> QED
      BY <3>2, <1>1
  <2>2. b \in Caches /\ c \in Caches /\ s \in Numbers /\ Alike(b, c)
    BY <2>1, <1>4
  <2>3. f[k] = InsertAt(BuildSections(b, s), s, <<>>) /\ e[k] = InsertAt(BuildSections(c, s), s, <<>>)
    BY <1>2, <1>3
  <2> HIDE DEF b, c, s
  <2> QED
    BY <2>2, <2>3, InsertSectionAlike
<1>5. Alike(f[n], e[n])
  BY <1>1, <1>2, <1>3, <1>4, AlikeRuns
<1>6. f[n] \in Caches
  BY <1>1
<1> QED
  BY <1>2, <1>3, <1>5, <1>6

LEMMA DeleteSectionsAlike ==
    ASSUME NEW g \in Caches, NEW h \in Caches, Alike(g, h),
           NEW m \in Nat, NEW S \in SUBSET (1..m)
    PROVE  DeleteSections(g, S) \in Caches /\ Alike(DeleteSections(g, S), DeleteSections(h, S))
<1> DEFINE n == Cardinality(S)  a == Ascending(S)
<1>1. n \in Nat /\ a \in [1..n -> S]
  BY AscendingRises
<1>2. PICK f \in [0..n -> Caches] :
        /\ f[0] = g /\ f[n] = DeleteSections(g, S)
        /\ \A k \in 1..n : f[k] = RemoveAt(BuildSections(f[k - 1], a[k]), a[k])
  BY DeleteSectionsRuns
<1>3. PICK e \in [0..n -> Caches] :
        /\ e[0] = h /\ e[n] = DeleteSections(h, S)
        /\ \A k \in 1..n : e[k] = RemoveAt(BuildSections(e[k - 1], a[k]), a[k])
  BY DeleteSectionsRuns
<1> HIDE DEF n, a
<1>4. ASSUME NEW k \in 1..n, Alike(f[k - 1], e[k - 1]) PROVE Alike(f[k], e[k])
  <2> DEFINE b == f[k - 1]  c == e[k - 1]  s == a[k]
  <2>1. k - 1 \in 0..n /\ a[k] \in Numbers
    <3>1. a[k] \in 1..m
      BY <1>1
    <3>2. a[k] \in Numbers
      BY <3>1 DEF Numbers
    <3> QED
      BY <3>2, <1>1
  <2>2. b \in Caches /\ c \in Caches /\ s \in Numbers /\ Alike(b, c)
    BY <2>1, <1>4
  <2>3. f[k] = RemoveAt(BuildSections(b, s), s) /\ e[k] = RemoveAt(BuildSections(c, s), s)
    BY <1>2, <1>3
  <2> HIDE DEF b, c, s
  <2> QED
    BY <2>2, <2>3, DeleteSectionAlike
<1>5. Alike(f[n], e[n])
  BY <1>1, <1>2, <1>3, <1>4, AlikeRuns
<1>6. f[n] \in Caches
  BY <1>1
<1> QED
  BY <1>2, <1>3, <1>5, <1>6

LEMMA ReloadSectionsAlike ==
    ASSUME NEW g \in Caches, NEW h \in Caches, Alike(g, h),
           NEW m \in Nat, NEW S \in SUBSET (1..m)
    PROVE  ReloadSections(g, S) \in Caches /\ Alike(ReloadSections(g, S), ReloadSections(h, S))
<1> DEFINE n == Cardinality(S)  a == Ascending(S)
<1>1. n \in Nat /\ a \in [1..n -> S]
  BY AscendingRises
<1>2. PICK f \in [0..n -> Caches] :
        /\ f[0] = g /\ f[n] = ReloadSections(g, S)
        /\ \A k \in 1..n : f[k] = SectionEmptied(f[k - 1], a[k])
  BY ReloadSectionsRuns
<1>3. PICK e \in [0..n -> Caches] :
        /\ e[0] = h /\ e[n] = ReloadSections(h, S)
        /\ \A k \in 1..n : e[k] = SectionEmptied(e[k - 1], a[k])
  BY ReloadSectionsRuns
<1> HIDE DEF n, a
<1>4. ASSUME NEW k \in 1..n, Alike(f[k - 1], e[k - 1]) PROVE Alike(f[k], e[k])
  <2> DEFINE b == f[k - 1]  c == e[k - 1]  s == a[k]
  <2>1. k - 1 \in 0..n /\ a[k] \in Numbers
    <3>1. a[k] \in 1..m
      BY <1>1
    <3>2. a[k] \in Numbers
      BY <3>1 DEF Numbers
    <3> QED
      BY <3>2, <1>1
  <2>2. b \in Caches /\ c \in Caches /\ s \in Numbers /\ Alike(b, c)
    BY <2>1, <1>4
  <2>3. f[k] = SectionEmptied(b, s) /\ e[k] = SectionEmptied(c, s)
    BY <1>2, <1>3
  <2> HIDE DEF b, c, s
  <2> QED
    BY <2>2, <2>3, EmptySectionAlike
<1>5. Alike(f[n], e[n])
  BY <1>1, <1>2, <1>3, <1>4, AlikeRuns
<1>6. f[n] \in Caches
  BY <1>1
<1> QED
  BY <1>2, <1>3, <1>5, <1>6

LEMMA InsertRowAlike ==
    ASSUME NEW g \in Caches, NEW h \in Caches, Alike(g, h), NEW p \in Positions,
           Covers(g, p), Covers(h, p)
    PROVE  Alike(RowInserted(g, p), RowInserted(h, p))
<1> DEFINE s == p[1]  b == g[s]  c == h[s]  X == Heights \cup {NoHeight}
           x == InsertAt(b, p[2], NoHeight)  y == InsertAt(c, p[2], NoHeight)
<1>1. /\ s \in DOMAIN g /\ b \in Rows /\ p[2] \in Nat /\ p[2] >= 1 /\ p[2] <= Len(b)
      /\ s \in DOMAIN h /\ c \in Rows /\ p[2] <= Len(c)
  BY DEF Covers, Caches, Positions, Numbers
<1>2. DOMAIN b = DOMAIN c
  BY <1>1 DEF Alike
<1> HIDE DEF b, c, X, s
<1>3. /\ b \in Seq(X) /\ c \in Seq(X) /\ Len(b) = Len(c) /\ NoHeight \in X
      /\ p[2] \in 1..(Len(b) + 1) /\ p[2] \in 1..(Len(c) + 1)
  BY <1>1, <1>2 DEF Rows, X
<1>4. x \in Seq(X) /\ Len(x) = Len(b) + 1
  BY <1>3, InsertAtIs
<1>5. y \in Seq(X) /\ Len(y) = Len(c) + 1
  BY <1>3, InsertAtIs
<1> HIDE DEF x, y
<1>6. DOMAIN x = DOMAIN y
  BY <1>3, <1>4, <1>5
<1>7. Alike([g EXCEPT ![s] = x], [h EXCEPT ![s] = y])
  BY <1>6, AlikeExcept
<1> QED
  BY <1>7 DEF RowInserted, s, b, c, x, y

LEMMA InsertRowsAlike ==
    ASSUME NEW g \in Caches, NEW h \in Caches, Alike(g, h),
           NEW paths \in Seq(Positions)
    PROVE  InsertRows(g, paths) \in Caches /\ Alike(InsertRows(g, paths), InsertRows(h, paths))
<1> DEFINE q == paths  n == Len(q)
<1>0. q \in Seq(Positions)
  OBVIOUS
<1>1. n \in Nat /\ DOMAIN q = 1..n /\ \A k \in 1..n : q[k] \in Positions
  BY <1>0
<1>2. PICK f \in [0..n -> Room(q)] :
        /\ f[0] = BuildCaches(g, q) /\ f[n] = InsertRows(g, paths)
        /\ \A k \in 1..n : f[k] = RowInserted(f[k - 1], q[k])
  BY <1>0, InsertRowsRuns
<1>3. PICK e \in [0..n -> Room(q)] :
        /\ e[0] = BuildCaches(h, q) /\ e[n] = InsertRows(h, paths)
        /\ \A k \in 1..n : e[k] = RowInserted(e[k - 1], q[k])
  BY <1>0, InsertRowsRuns
<1> HIDE DEF n, q
<1>4. ASSUME NEW k \in 1..n, Alike(f[k - 1], e[k - 1]) PROVE Alike(f[k], e[k])
  <2> DEFINE b == f[k - 1]  c == e[k - 1]  p == q[k]
  <2>1. k - 1 \in 0..n /\ b \in Room(q) /\ c \in Room(q)
    BY <1>1
  <2>2. b \in Caches /\ c \in Caches /\ p \in Positions /\ Alike(b, c)
    BY <2>1, <1>1, <1>4 DEF Room
  <2>3. Covers(b, p) /\ Covers(c, p)
    BY <2>1, <1>1 DEF Room
  <2>4. f[k] = RowInserted(b, p) /\ e[k] = RowInserted(c, p)
    BY <1>2, <1>3
  <2> HIDE DEF b, c, p
  <2> QED
    BY <2>2, <2>3, <2>4, InsertRowAlike
<1>5. Alike(f[0], e[0])
  BY <1>0, <1>2, <1>3, BuildCachesAlike
<1>6. Alike(f[n], e[n])
  BY <1>1, <1>4, <1>5, AlikeRuns
<1>7. f[n] \in Caches
  <2>1. n \in 0..n
    BY <1>1
  <2> QED
    BY <2>1 DEF Room
<1> QED
  BY <1>2, <1>3, <1>6, <1>7

LEMMA ForgetRowsAlike ==
    ASSUME NEW g \in Caches, NEW h \in Caches, Alike(g, h),
           NEW P \in SUBSET Positions, IsFiniteSet(P)
    PROVE  ForgetRows(g, P) \in Caches /\ Alike(ForgetRows(g, P), ForgetRows(h, P))
<1> DEFINE q == SetToSeq(P)  n == Len(q)
<1>0. q \in Seq(Positions)
  <2>1. q \in Seq(P)
    BY SetToSeqIs, SetToSeqsIs
  <2> QED
    BY <2>1
<1>1. n \in Nat /\ DOMAIN q = 1..n /\ \A k \in 1..n : q[k] \in Positions
  BY <1>0
<1>2. PICK f \in [0..n -> Room(q)] :
        /\ f[0] = BuildCaches(g, q) /\ f[n] = ForgetRows(g, P)
        /\ \A k \in 1..n : f[k] = RowSet(f[k - 1], q[k], NoHeight)
  BY <1>0, ForgetRowsRuns
<1>3. PICK e \in [0..n -> Room(q)] :
        /\ e[0] = BuildCaches(h, q) /\ e[n] = ForgetRows(h, P)
        /\ \A k \in 1..n : e[k] = RowSet(e[k - 1], q[k], NoHeight)
  BY <1>0, ForgetRowsRuns
<1> HIDE DEF n, q
<1>4. ASSUME NEW k \in 1..n, Alike(f[k - 1], e[k - 1]) PROVE Alike(f[k], e[k])
  <2> DEFINE b == f[k - 1]  c == e[k - 1]  p == q[k]
  <2>1. k - 1 \in 0..n /\ b \in Room(q) /\ c \in Room(q)
    BY <1>1
  <2>2. b \in Caches /\ c \in Caches /\ p \in Positions /\ Alike(b, c)
    BY <2>1, <1>1, <1>4 DEF Room
  <2>3. Covers(b, p) /\ Covers(c, p)
    BY <2>1, <1>1 DEF Room
  <2>4. f[k] = RowSet(b, p, NoHeight) /\ e[k] = RowSet(c, p, NoHeight)
    BY <1>2, <1>3
  <2> HIDE DEF b, c, p
  <2>5. Alike(f[k], b) /\ Alike(e[k], c)
    BY <2>2, <2>3, <2>4, EmptyRows, RowSetIs
  <2> QED
    BY <2>2, <2>5 DEF Alike
<1>5. Alike(f[0], e[0])
  BY <1>0, <1>2, <1>3, BuildCachesAlike
<1>6. Alike(f[n], e[n])
  BY <1>1, <1>4, <1>5, AlikeRuns
<1>7. f[n] \in Caches
  <2>1. n \in 0..n
    BY <1>1
  <2> QED
    BY <2>1 DEF Room
<1> QED
  BY <1>2, <1>3, <1>6, <1>7

LEMMA DeleteRowsAlike ==
    ASSUME NEW g \in Caches, NEW h \in Caches, Alike(g, h),
           NEW P \in SUBSET Positions, IsFiniteSet(P)
    PROVE  DeleteRows(g, P) \in Caches /\ Alike(DeleteRows(g, P), DeleteRows(h, P))
<1> DEFINE q == SetToSeq(P)  b == BuildCaches(g, q)  c == BuildCaches(h, q)
           X == Heights \cup {NoHeight}  R(s) == RowsIn(P, s)
<1>1. q \in Seq(Positions)
  <2>1. q \in Seq(P)
    BY SetToSeqIs, SetToSeqsIs
  <2> QED
    BY <2>1
<1>2. b \in Caches /\ c \in Caches /\ Alike(b, c)
  <2> HIDE DEF q
  <2>1. b \in Caches
    BY <1>1, BuildCachesIs DEF Room
  <2>2. c \in Caches
    BY <1>1, BuildCachesIs DEF Room
  <2>3. Alike(b, c)
    BY <1>1, BuildCachesAlike
  <2> QED
    BY <2>1, <2>2, <2>3
<1>3. /\ DeleteRows(g, P) = [s \in DOMAIN b |-> Deleted(b[s], R(s))]
      /\ DeleteRows(h, P) = [s \in DOMAIN c |-> Deleted(c[s], R(s))]
  BY DEF DeleteRows
<1> HIDE DEF b, c, X, R
<1>4. /\ DOMAIN b = 1..Len(b) /\ Len(b) \in Nat /\ DOMAIN c = DOMAIN b
      /\ \A s \in DOMAIN b : b[s] \in Seq(X)
      /\ \A s \in DOMAIN b : c[s] \in Seq(X)
      /\ \A s \in DOMAIN b : DOMAIN b[s] = DOMAIN c[s]
  BY <1>2 DEF Caches, Rows, Alike, X
<1>5. ASSUME NEW s \in DOMAIN b
      PROVE  Deleted(b[s], R(s)) \in Seq(X) /\ DOMAIN Deleted(b[s], R(s)) = DOMAIN Deleted(c[s], R(s))
  <2> DEFINE v == b[s]  w == c[s]  S == R(s)
  <2>1. v \in Seq(X) /\ w \in Seq(X) /\ DOMAIN v = DOMAIN w
    BY <1>4
  <2> HIDE DEF v, w, S
  <2>2. Deleted(v, S) \in Seq(X) /\ DOMAIN Deleted(v, S) = 1..Cardinality(DOMAIN v \ S)
    BY <2>1, DeletedIs
  <2>3. DOMAIN Deleted(w, S) = 1..Cardinality(DOMAIN w \ S)
    BY <2>1, DeletedIs
  <2> QED
    BY <2>1, <2>2, <2>3 DEF v, w, S
<1>6. DeleteRows(g, P) \in Caches
  <2>1. DeleteRows(g, P) \in [1..Len(b) -> Rows]
    BY <1>3, <1>4, <1>5 DEF Rows, X
  <2> QED
    BY <1>4, <2>1 DEF Caches
<1>7. Alike(DeleteRows(g, P), DeleteRows(h, P))
  <2>1. DOMAIN DeleteRows(g, P) = DOMAIN b /\ DOMAIN DeleteRows(h, P) = DOMAIN b
    BY <1>3, <1>4
  <2>2. ASSUME NEW s \in DOMAIN b PROVE DOMAIN DeleteRows(g, P)[s] = DOMAIN DeleteRows(h, P)[s]
    BY <1>3, <1>4, <1>5
  <2> QED
    BY <2>1, <2>2 DEF Alike
<1> QED
  BY <1>6, <1>7

LEMMA ExchangeSectionsAlike ==
    ASSUME NEW g \in Caches, NEW h \in Caches, Alike(g, h), NEW s \in Numbers, NEW t \in Numbers
    PROVE  Alike(ExchangeSections(g, s, t), ExchangeSections(h, s, t))
<1> DEFINE b == BuildSections(BuildSections(g, s), t)  c == BuildSections(BuildSections(h, s), t)
<1>1. s \in Nat /\ t \in Nat
  BY DEF Numbers
<1>2. /\ BuildSections(g, s) \in Caches /\ BuildSections(h, s) \in Caches
      /\ Alike(BuildSections(g, s), BuildSections(h, s))
  BY <1>1, BuildSectionsIs, BuildSectionsAlike
<1>3. Alike(b, c) /\ b \in Caches /\ Len(b) >= t /\ Len(b) >= Len(BuildSections(g, s))
  BY <1>1, <1>2, BuildSectionsIs, BuildSectionsAlike
<1>4. s \in DOMAIN b /\ t \in DOMAIN b
  <2>1. Len(BuildSections(g, s)) >= s
    BY <1>1, BuildSectionsIs
  <2>2. DOMAIN b = 1..Len(b) /\ Len(b) \in Nat /\ Len(BuildSections(g, s)) \in Nat
    BY <1>2, <1>3 DEF Caches
  <2>3. s >= 1 /\ t >= 1 /\ s <= Len(b)
    BY <1>1, <1>3, <2>1, <2>2 DEF Numbers
  <2> QED
    BY <1>1, <1>3, <2>2, <2>3
<1> HIDE DEF b, c
<1>5. DOMAIN b[s] = DOMAIN c[s] /\ DOMAIN b[t] = DOMAIN c[t]
  BY <1>3, <1>4 DEF Alike
<1>6. Alike([b EXCEPT ![s] = b[t]], [c EXCEPT ![s] = c[t]])
  BY <1>3, <1>5, AlikeExcept
<1>7. Alike([[b EXCEPT ![s] = b[t]] EXCEPT ![t] = b[s]], [[c EXCEPT ![s] = c[t]] EXCEPT ![t] = c[s]])
  <2> DEFINE d == [b EXCEPT ![s] = b[t]]  e == [c EXCEPT ![s] = c[t]]
  <2>1. Alike(d, e)
    BY <1>6
  <2> HIDE DEF d, e
  <2>2. Alike([d EXCEPT ![t] = b[s]], [e EXCEPT ![t] = c[s]])
    BY <2>1, <1>5, AlikeExcept
  <2> QED
    BY <2>2 DEF d, e
<1>8. /\ ExchangeSections(g, s, t) = [[b EXCEPT ![s] = b[t]] EXCEPT ![t] = b[s]]
      /\ ExchangeSections(h, s, t) = [[c EXCEPT ![s] = c[t]] EXCEPT ![t] = c[s]]
  BY DEF ExchangeSections, b, c
<1> QED
  BY <1>7, <1>8

LEMMA ExchangeRowsAlike ==
    ASSUME NEW g \in Caches, NEW h \in Caches, Alike(g, h),
           NEW p \in Positions, NEW q \in Positions
    PROVE  Alike(ExchangeRows(g, p, q), ExchangeRows(h, p, q))
<1>1. <<p, q>> \in Seq(Positions)
  OBVIOUS
<1>2. Alike(BuildCaches(g, <<p, q>>), BuildCaches(h, <<p, q>>))
  <2> DEFINE b == <<p, q>>
  <2> HIDE DEF b
  <2>1. b \in Seq(Positions)
    BY <1>1 DEF b
  <2>2. Alike(BuildCaches(g, b), BuildCaches(h, b))
    BY <2>1, BuildCachesAlike
  <2> QED
    BY <2>2 DEF b
<1>3. Alike(ExchangeRows(g, p, q), BuildCaches(g, <<p, q>>))
  BY ExchangeRowsIs
<1>4. Alike(ExchangeRows(h, p, q), BuildCaches(h, <<p, q>>))
  BY ExchangeRowsIs
<1> QED
  BY <1>2, <1>3, <1>4 DEF Alike

=============================================================================
