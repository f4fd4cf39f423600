---------------------------- MODULE NaturalLemmas ----------------------------
(***************************************************************************)
(* Least and greatest elements of sets of naturals.  Min and Max are each  *)
(* a CHOOSE: they return such an element only where one exists.  The       *)
(* powers of two, which the provers know nothing of, as the numbers of     *)
(* subsets.  Functions that are defined step by step: that they exist, and *)
(* what holds of all their values.  And the elements of a finite set in    *)
(* order: that such a list exists, and that it has them all.               *)
(***************************************************************************)
EXTENDS Naturals, FiniteSetsExt, TLAPS, WellFoundedInduction, FiniteSetTheorems

\* A non-empty set of naturals has a least element.
LEMMA LeastNatural ==
  ASSUME NEW T, T \subseteq Nat, T # {}
  PROVE  \E x \in T : \A y \in T : x <= y
<1>1. PICK x \in T : \A y \in T : ~ (<<y, x>> \in OpToRel(<, Nat))
  BY WFMin, NatLessThanWellFounded
<1>2. \A y \in Nat : y < x => <<y, x>> \in OpToRel(<, Nat)
  BY DEF OpToRel
<1>3. ASSUME NEW y \in T PROVE x <= y
  <2>1. ~(y < x)
    BY <1>1, <1>2
  <2> QED BY <2>1
<1> QED BY <1>3

\* A non-empty set of naturals with an upper bound has a maximum: the
\* difference to the bound has a least element.
LEMMA GreatestNatural ==
  ASSUME NEW N \in Nat, NEW T, T \subseteq 0 .. N, T # {}
  PROVE  Max(T) \in T /\ \A y \in T : y <= Max(T)
<1> DEFINE U == {u \in Nat : \E x \in T : u = N - x}
<1>1. PICK u \in U : \A y \in U : u <= y
  <2>1. U \subseteq Nat
    OBVIOUS
  <2>2. PICK x \in T : TRUE
    OBVIOUS
  <2>3. N - x \in U
    BY SMT
  <2> HIDE DEF U
  <2> QED BY <2>1, <2>3, LeastNatural
<1>2. PICK x \in T : u = N - x
  BY <1>1
<1>3. ASSUME NEW y \in T PROVE y <= x
  <2>1. N - y \in U
    BY SMT
  <2>2. u <= N - y
    BY <1>1, <2>1
  <2>3. u \in Nat /\ x \in 0 .. N /\ y \in 0 .. N
    BY <1>2
  <2> HIDE DEF U
  <2> QED BY <1>2, <2>2, <2>3
<1> QED BY <1>2, <1>3 DEF Max

\* A non-empty finite set of naturals has one too.
LEMMA GreatestOfFinite ==
  ASSUME NEW T, T \subseteq Nat, IsFiniteSet(T), T # {}
  PROVE  \E x \in T : \A y \in T : y <= x
<1> DEFINE below(x) == {y \in T : y < x}
           U == {u \in Nat : \E x \in T : u = Cardinality(T) - Cardinality(below(x))}
<1>1. Cardinality(T) \in Nat
  BY FS_CardinalityType
<1>2. ASSUME NEW x \in T
      PROVE  /\ IsFiniteSet(below(x)) /\ Cardinality(below(x)) \in Nat
             /\ Cardinality(below(x)) <= Cardinality(T)
  <2>1. below(x) \in SUBSET T
    OBVIOUS
  <2> HIDE DEF below
  <2> QED BY <2>1, FS_Subset, FS_CardinalityType
<1>3. ASSUME NEW x \in T, NEW y \in T, x < y
      PROVE  Cardinality(below(x)) < Cardinality(below(y))
  <2>1. x \in Nat /\ y \in Nat
    OBVIOUS
  <2>2. ASSUME NEW z \in T, z < x PROVE z < y
    <3>1. z \in Nat
      OBVIOUS
    <3> QED BY <1>3, <2>1, <2>2, <3>1
  <2>3. x \in below(y) /\ x \notin below(x)
    BY <1>3, <2>1
  <2>4. below(x) \in SUBSET below(y)
    BY <2>2
  <2> HIDE DEF below
  <2> QED BY <1>2, <2>3, <2>4, FS_Subset
<1> HIDE DEF below
<1>4. PICK u \in U : \A v \in U : u <= v
  <2>1. PICK x \in T : TRUE
    OBVIOUS
  <2>2. Cardinality(T) - Cardinality(below(x)) \in U
    BY <1>1, <1>2
  <2>3. U \subseteq Nat /\ U # {}
    BY <2>2
  <2> HIDE DEF U
  <2> QED BY <2>3, LeastNatural
<1>5. PICK x \in T : u = Cardinality(T) - Cardinality(below(x))
  BY <1>4
<1>6. ASSUME NEW y \in T PROVE y <= x
  <2>1. SUFFICES ASSUME x < y PROVE FALSE
    OBVIOUS
  <2>2. Cardinality(T) - Cardinality(below(y)) \in U
    BY <1>1, <1>2
  <2>3. u <= Cardinality(T) - Cardinality(below(y))
    BY <1>4, <2>2
  <2> QED BY <1>1, <1>2, <1>3, <1>5, <2>1, <2>3
<1> QED BY <1>6

\* So the minimum of a non-empty set of naturals is its least element.
LEMMA MinIsLeast ==
  ASSUME NEW T, T \subseteq Nat, T # {}
  PROVE  Min(T) \in T /\ \A y \in T : Min(T) <= y
BY LeastNatural DEF Min

\* 1 .. n has 2^n subsets.
LEMMA PowerCountsSubsets ==
  ASSUME NEW n \in Nat
  PROVE  IsFiniteSet(SUBSET (1 .. n)) /\ Cardinality(SUBSET (1 .. n)) = 2^n
<1>1. IsFiniteSet(1 .. n) /\ Cardinality(1 .. n) = n
  BY FS_Interval
<1> QED BY <1>1, FS_SUBSET

\* With one more element there are twice as many: each with and without it.
LEMMA PowersOfTwo ==
  ASSUME NEW n \in Nat
  PROVE  2^n \in Nat \ {0} /\ 2^0 = 1 /\ 2^(n + 1) = 2^n + 2^n
<1> DEFINE S == SUBSET (1 .. n)
           with == [x \in S |-> x \union {n + 1}]
           T == {x \union {n + 1} : x \in S}
<1>1. IsFiniteSet(S) /\ Cardinality(S) = 2^n
  BY PowerCountsSubsets
<1>2. IsFiniteSet(SUBSET (1 .. n + 1)) /\ Cardinality(SUBSET (1 .. n + 1)) = 2^(n + 1)
  BY PowerCountsSubsets
<1>3. IsFiniteSet(SUBSET (1 .. 0)) /\ Cardinality(SUBSET (1 .. 0)) = 2^0
  BY PowerCountsSubsets
<1>4. n + 1 \notin 1 .. n /\ 1 .. n + 1 = (1 .. n) \union {n + 1} /\ 1 .. 0 = {}
  OBVIOUS
<1>5. 2^0 = 1
  <2>1. SUBSET (1 .. 0) = {{}}
    BY <1>4
  <2> QED BY <1>3, <2>1, FS_Singleton
<1>6. 2^n \in Nat \ {0}
  <2>1. {} \in S
    OBVIOUS
  <2>2. S # {}
    BY <2>1
  <2> HIDE DEF S
  <2> QED BY <1>1, <2>2, FS_CardinalityType, FS_EmptySet
<1>7. SUBSET (1 .. n + 1) = S \union T
  <2>1. ASSUME NEW y \in SUBSET (1 .. n + 1), n + 1 \in y PROVE y \in T
    <3>1. y \ {n + 1} \in S /\ y = (y \ {n + 1}) \union {n + 1}
      BY <1>4, <2>1
    <3> QED BY <3>1
  <2>2. ASSUME NEW y \in SUBSET (1 .. n + 1), n + 1 \notin y PROVE y \in S
    BY <1>4, <2>2
  <2>3. S \subseteq SUBSET (1 .. n + 1) /\ T \subseteq SUBSET (1 .. n + 1)
    BY <1>4
  <2> QED BY <2>1, <2>2, <2>3
<1>8. S \intersect T = {}
  BY <1>4
<1>9. with \in Bijection(S, T)
  <2>1. with \in [S -> T]
    OBVIOUS
  <2>2. ASSUME NEW x \in S, NEW y \in S, with[x] = with[y] PROVE x = y
    <3>1. x = with[x] \ {n + 1} /\ y = with[y] \ {n + 1}
      BY <1>4
    <3> QED BY <2>2, <3>1
  <2>3. \A y \in T : \E x \in S : with[x] = y
    OBVIOUS
  <2> HIDE DEF S, T, with
  <2> QED BY <2>1, <2>2, <2>3 DEF Bijection, Injection, Surjection, IsInjective
<1>10. IsFiniteSet(T) /\ Cardinality(T) = Cardinality(S)
  <2> HIDE DEF S, T, with
  <2> QED BY <1>1, <1>9, FS_Bijection DEF ExistsBijection
<1>11. Cardinality(S \union T) = Cardinality(S) + Cardinality(T)
  <2> HIDE DEF S, T, with
  <2>1. Cardinality(S \union T) = Cardinality(S) + Cardinality(T) - Cardinality(S \intersect T)
    BY <1>1, <1>10, FS_Union
  <2>2. Cardinality(S \intersect T) = 0
    BY <1>8, FS_EmptySet
  <2>3. Cardinality(S) \in Nat /\ Cardinality(T) \in Nat
    BY <1>1, <1>10, FS_CardinalityType
  <2> QED BY <2>1, <2>2, <2>3
<1> HIDE DEF S, T, with
<1> QED BY <1>1, <1>2, <1>5, <1>6, <1>7, <1>10, <1>11

\* What a quotient and a remainder are is known from the multiples on either side.
LEMMA QuotientBetweenMultiples ==
  ASSUME NEW m \in Nat \ {0}, NEW r \in Nat, NEW x \in Nat, r * m <= x, x < (r + 1) * m
  PROVE  x \div m = r
<1>1. PICK y \in 0 .. m - 1 : x = r * m + y
  <2>1. r * m \in Nat /\ (r + 1) * m = r * m + m
    BY SMT
  <2>2. x - r * m \in 0 .. m - 1
    BY <2>1
  <2> QED BY <2>1, <2>2
<1> QED BY <1>1, SMT

LEMMA RemainderOfMultiple ==
  ASSUME NEW s \in Nat \ {0}, NEW q \in Nat
  PROVE  (q * s) % s = 0
BY SMT

\* A multiple of a length, and the halves of that length that begin there.
LEMMA HalvesOfMultiple ==
  ASSUME NEW q \in Nat, NEW s \in Nat \ {0}
  PROVE  /\ q * (s + s) = (q + q) * s /\ q * (s + s) + s = (q + q + 1) * s
         /\ q * (s + s) = q * (2 * s) /\ q * (s + s) + (s + s) = (q + 1) * (2 * s)
BY SMT

\* What holds of 0, and of each number when it holds of the one before, holds up to n.
LEMMA BoundedInduction ==
  ASSUME NEW n \in Nat, NEW S, 0 \in S, \A i \in 1 .. n : i - 1 \in S => i \in S
  PROVE  0 .. n \subseteq S
<1> DEFINE T == {i \in 0 .. n : i \notin S}
<1>1. SUFFICES ASSUME T # {} PROVE FALSE
  OBVIOUS
<1>2. PICK i \in T : \A j \in T : i <= j
  <2>1. T \subseteq Nat
    OBVIOUS
  <2> HIDE DEF T
  <2> QED BY <1>1, <2>1, LeastNatural
<1>3. i \in 1 .. n /\ i - 1 \in 0 .. n /\ ~ (i <= i - 1)
  BY <1>2
<1>4. i - 1 \notin T
  <2> HIDE DEF T
  <2> QED BY <1>2, <1>3
<1> QED BY <1>2, <1>3, <1>4

\* A function that is defined step by step up to n exists; step[i] takes its value at
\* i - 1 to that at i.
Stepwise(n, first, step, f) ==
    f = [i \in 0 .. n |-> IF i = 0 THEN first ELSE step[i][f[i - 1]]]

LEMMA StepwiseExists ==
  ASSUME NEW n \in Nat, NEW X, NEW first \in X, NEW step \in [1 .. n -> [X -> X]]
  PROVE  \E f \in [0 .. n -> X] : Stepwise(n, first, step, f)
<1> DEFINE S == {m \in 0 .. n : \E f \in [0 .. m -> X] : Stepwise(m, first, step, f)}
<1>1. 0 \in S
  <2> DEFINE f == [i \in 0 .. 0 |-> first]
  <2>1. f \in [0 .. 0 -> X] /\ Stepwise(0, first, step, f)
    BY DEF Stepwise
  <2> HIDE DEF f
  <2> QED BY <2>1
<1>2. ASSUME NEW m \in 1 .. n, m - 1 \in S PROVE m \in S
  <2>1. PICK g \in [0 .. m - 1 -> X] : Stepwise(m - 1, first, step, g)
    BY <1>2
  <2> DEFINE f == [i \in 0 .. m |-> IF i = m THEN step[m][g[m - 1]] ELSE g[i]]
  <2>2. \A i \in 0 .. m - 1 : f[i] = g[i]
    OBVIOUS
  <2>3. g[m - 1] \in X /\ step[m][g[m - 1]] \in X
    OBVIOUS
  <2>4. f \in [0 .. m -> X]
    BY <2>3
  <2>5. ASSUME NEW i \in 0 .. m
        PROVE  f[i] = IF i = 0 THEN first ELSE step[i][f[i - 1]]
    <3>1. CASE i = m
      <4>1. f[m] = step[m][g[m - 1]] /\ f[m - 1] = g[m - 1]
        BY <2>2
      <4> HIDE DEF f
      <4> QED BY <3>1, <4>1
    <3>2. CASE i # m
      <4>1. f[i] = g[i] /\ (i # 0 => f[i - 1] = g[i - 1])
        BY <2>2, <3>2
      <4>2. g[i] = IF i = 0 THEN first ELSE step[i][g[i - 1]]
        BY <2>1, <3>2 DEF Stepwise
      <4> HIDE DEF f
      <4> QED BY <4>1, <4>2
    <3> QED BY <3>1, <3>2
  <2>6. Stepwise(m, first, step, f)
    <3>1. f = [i \in 0 .. m |-> f[i]]
      OBVIOUS
    <3> HIDE DEF f
    <3> QED BY <2>5, <3>1 DEF Stepwise
  <2> HIDE DEF f
  <2> QED BY <1>2, <2>4, <2>6
<1> HIDE DEF S
<1>3. 0 .. n \subseteq S
  <2>1. \A m \in 1 .. n : m - 1 \in S => m \in S
    BY <1>2
  <2> QED BY <1>1, <2>1, BoundedInduction
<1>4. n \in S
  BY <1>3
<1> QED BY <1>4 DEF S

\* A list goes up in a relation.
GoesUp(s, R) == \A i, j \in DOMAIN s : i < j => <<s[i], s[j]>> \in R

\* The elements of a finite set can be listed in the order of a strict total order:
\* each has as its place one more than the number of those before it.
LEMMA ListingExists ==
  ASSUME NEW S, IsFiniteSet(S), NEW R,
         \A f \in S : <<f, f>> \notin R,
         \A f, g, h \in S : <<f, g>> \in R /\ <<g, h>> \in R => <<f, h>> \in R,
         \A f, g \in S : f # g => <<f, g>> \in R \/ <<g, f>> \in R
  PROVE  \E s \in [1 .. Cardinality(S) -> S] : GoesUp(s, R)
<1> DEFINE N == Cardinality(S)
           before(f) == {g \in S : <<g, f>> \in R}
           rank == [f \in S |-> Cardinality(before(f)) + 1]
<1>1. N \in Nat
  BY FS_CardinalityType
<1>2. ASSUME NEW f \in S
      PROVE  /\ IsFiniteSet(before(f)) /\ Cardinality(before(f)) \in Nat /\ Cardinality(before(f)) < N
  <2>1. before(f) \in SUBSET S /\ f \notin before(f)
    OBVIOUS
  <2> HIDE DEF before
  <2>2. IsFiniteSet(before(f)) /\ Cardinality(before(f)) \in Nat
        /\ Cardinality(before(f)) <= N /\ Cardinality(before(f)) # N
    BY <2>1, FS_Subset, FS_CardinalityType
  <2> QED BY <1>1, <2>1, <2>2
<1>3. ASSUME NEW f \in S, NEW g \in S, <<f, g>> \in R
      PROVE  Cardinality(before(f)) < Cardinality(before(g))
  <2>1. before(f) \in SUBSET before(g) /\ f \in before(g) /\ f \notin before(f)
    BY <1>3
  <2> HIDE DEF before
  <2> QED BY <1>2, <2>1, FS_Subset
<1> HIDE DEF before
<1>4. rank \in [S -> 1 .. N]
  BY <1>1, <1>2
<1>5. \A f, g \in S : <<f, g>> \in R => rank[f] < rank[g]
  BY <1>2, <1>3
<1>6. rank \in Injection(S, 1 .. N)
  <2>1. ASSUME NEW f \in S, NEW g \in S, f # g PROVE rank[f] # rank[g]
    <3>1. <<f, g>> \in R \/ <<g, f>> \in R
      BY <2>1
    <3>2. rank[f] \in Nat /\ rank[g] \in Nat
      BY <1>2
    <3> HIDE DEF rank
    <3> QED BY <1>5, <3>1, <3>2
  <2> HIDE DEF rank
  <2> QED BY <1>4, <2>1 DEF Injection, IsInjective
<1>7. IsFiniteSet(1 .. N) /\ Cardinality(1 .. N) = N
  BY <1>1, FS_Interval
<1> HIDE DEF rank, N
<1>8. rank \in Surjection(S, 1 .. N)
  BY <1>6, <1>7, FS_Injection DEF N
<1>9. \A i \in 1 .. N : \E f \in S : rank[f] = i
  BY <1>8 DEF Surjection
<1> DEFINE s == [i \in 1 .. N |-> CHOOSE f \in S : rank[f] = i]
<1>10. \A i \in 1 .. N : s[i] \in S /\ rank[s[i]] = i
  BY <1>9
<1>11. s \in [1 .. N -> S] /\ DOMAIN s = 1 .. N
  BY <1>10
<1> HIDE DEF s
<1>12. ASSUME NEW i \in 1 .. N, NEW j \in 1 .. N, i < j PROVE <<s[i], s[j]>> \in R
  <2>1. s[i] \in S /\ s[j] \in S /\ rank[s[i]] = i /\ rank[s[j]] = j
    BY <1>10
  <2>2. s[i] # s[j] /\ ~ (j < i)
    BY <1>12, <2>1
  <2>3. <<s[j], s[i]>> \notin R
    BY <1>5, <2>1, <2>2
  <2> QED BY <2>1, <2>2, <2>3
<1> QED BY <1>11, <1>12 DEF N, GoesUp

\* Such a list has all of them.
LEMMA ListingIsComplete ==
  ASSUME NEW S, IsFiniteSet(S), NEW R, \A f \in S : <<f, f>> \notin R,
         NEW s \in [1 .. Cardinality(S) -> S], GoesUp(s, R)
  PROVE  \A f \in S : \E i \in 1 .. Cardinality(S) : s[i] = f
<1> DEFINE N == Cardinality(S)
<1>1. N \in Nat
  BY FS_CardinalityType
<1>2. s \in Injection(1 .. N, S)
  <2>1. ASSUME NEW i \in 1 .. N, NEW j \in 1 .. N, s[i] = s[j] PROVE i = j
    <3>1. ~ (i < j) /\ ~ (j < i)
      BY <2>1 DEF GoesUp
    <3> QED BY <1>1, <3>1
  <2> QED BY <2>1 DEF Injection, IsInjective
<1>3. IsFiniteSet(1 .. N) /\ Cardinality(1 .. N) = N
  BY <1>1, FS_Interval
<1>4. s \in Surjection(1 .. N, S)
  BY <1>1, <1>2, <1>3, FS_Injection
<1> QED BY <1>4 DEF Surjection
=============================================================================
