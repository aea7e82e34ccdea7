--------------------------- MODULE NaturalInduction ---------------------------
(***************************************************************************)
(* Facts about natural numbers and finite sets that the proofs about the   *)
(* components share: least and greatest elements, induction up to a bound, *)
(* and the existence of functions defined by recursion.                    *)
(***************************************************************************)
EXTENDS Integers, FiniteSets, FiniteSetsExt, FiniteSetTheorems,
        WellFoundedInduction, TLAPS

\* A non-empty set of natural numbers has a least element.
LEMMA LeastElement ==
    ASSUME NEW T \in SUBSET Nat, T # {}
    PROVE  \E m \in T : \A t \in T : m <= t
<1>. DEFINE R == {ss \in Nat \X Nat : ss[1] < ss[2]}
<1>1. IsWellFoundedOn(R, Nat)
    BY NatLessThanWellFounded DEF OpToRel
<1>2. \E x \in T : \A y \in T : ~(<<y, x>> \in R)
  <2>. HIDE DEF R
  <2>. QED
      BY <1>1, WFMin
<1>3. \A x, y \in Nat : <<y, x>> \in R <=> y < x
    OBVIOUS
<1>. HIDE DEF R
<1>4. PICK x \in T : \A y \in T : ~(<<y, x>> \in R)
    BY <1>2
<1>5. \A y \in T : y \in Nat /\ x \in Nat /\ ~(y < x)
    BY <1>3, <1>4
<1>6. \A y \in T : x <= y
    BY <1>5
<1>. QED
    BY <1>6

\* What holds of 0 and passes from k to k + 1 below n holds up to n.
LEMMA UpTo ==
    ASSUME NEW n \in Nat, NEW S, 0 \in S,
           \A k \in Nat : k \in S /\ k < n => k + 1 \in S
    PROVE  \A k \in 0..n : k \in S
<1>. DEFINE T == {k \in 0..n : k \notin S}
<1>. SUFFICES ASSUME T # {} PROVE FALSE
    OBVIOUS
<1>1. T \in SUBSET Nat
    OBVIOUS
<1>2. PICK m \in T : \A t \in T : m <= t
  <2>. HIDE DEF T
  <2>. QED
      BY <1>1, LeastElement
<1>3. m \in 1..n /\ m \notin S
    BY <1>2
<1>4. m - 1 \in 0..n /\ m - 1 < m /\ m - 1 < n /\ (m - 1) + 1 = m
    BY <1>3
<1>5. m - 1 \notin T
    BY <1>2, <1>3, <1>4
<1>6. m - 1 \in S
    BY <1>4, <1>5
<1>. QED
    BY <1>3, <1>4, <1>6

\* Min of a non-empty set of natural numbers is its least element.
LEMMA MinOf ==
    ASSUME NEW T \in SUBSET Nat, T # {}
    PROVE  Min(T) \in T /\ \A t \in T : Min(T) <= t
BY LeastElement DEF Min

\* Max of a non-empty bounded set of natural numbers is its greatest element.
LEMMA MaxOf ==
    ASSUME NEW T \in SUBSET Nat, T # {}, NEW b \in Nat, \A t \in T : t <= b
    PROVE  Max(T) \in T /\ \A t \in T : t <= Max(T)
<1>. DEFINE U == {u \in Nat : \A t \in T : t <= u}
<1>1. U \in SUBSET Nat /\ U # {}
    OBVIOUS
<1>2. PICK m \in U : \A u \in U : m <= u
  <2>. HIDE DEF U
  <2>. QED
      BY <1>1, LeastElement
<1>3. m \in Nat /\ \A t \in T : t <= m
    BY <1>2
<1>4. m \in T
  <2>. SUFFICES ASSUME m \notin T PROVE FALSE
      OBVIOUS
  <2>1. \A t \in T : t \in Nat /\ t < m
      BY <1>3
  <2>2. PICK t \in T : TRUE
      OBVIOUS
  <2>3. m - 1 \in Nat
      BY <1>3, <2>1, <2>2
  <2>4. \A u \in T : u <= m - 1
      BY <1>3, <2>1
  <2>5. m - 1 \in U
      BY <2>3, <2>4
  <2>. QED
      BY <1>2, <1>3, <2>5
<1>5. \E x \in T : \A y \in T : x >= y
    BY <1>3, <1>4
<1>6. Max(T) \in T /\ \A y \in T : Max(T) >= y
    BY <1>5 DEF Max
<1>. QED
    BY <1>6

Steps(n, S) == [1..n -> [S -> S]]

\* f begins with b and goes from k - 1 to k by g[k].
Solves(f, n, b, g) == f[0] = b /\ \A k \in 1..n : f[k] = g[k][f[k - 1]]

\* A recursion over 0..n with steps g has a solution.
LEMMA RecursionExists ==
    ASSUME NEW n \in Nat, NEW S, NEW b \in S, NEW g \in Steps(n, S)
    PROVE  \E f \in [0..n -> S] : Solves(f, n, b, g)
<1>. DEFINE A == {m \in Nat : \E f \in [0..m -> S] : Solves(f, m, b, g)}
<1>1. 0 \in A
  <2>. DEFINE f == [k \in 0..0 |-> b]
  <2>1. f \in [0..0 -> S] /\ Solves(f, 0, b, g)
      BY DEF Solves
  <2>. QED
      BY <2>1
<1>2. ASSUME NEW m \in Nat, m \in A, m < n PROVE m + 1 \in A
  <2>1. PICK f \in [0..m -> S] : Solves(f, m, b, g)
      BY <1>2
  <2>. DEFINE h == [k \in 0..(m + 1) |-> IF k = m + 1 THEN g[m + 1][f[m]] ELSE f[k]]
  <2>2. m + 1 \in 1..n /\ m \in 0..m
      BY <1>2
  <2>3. g[m + 1][f[m]] \in S
      BY <2>2 DEF Steps
  <2>4. \A k \in 0..(m + 1) : k # m + 1 => k \in 0..m
      OBVIOUS
  <2>5. h \in [0..(m + 1) -> S]
      BY <2>3, <2>4
  <2>6. h[0] = b
      BY <2>1 DEF Solves
  <2>7. ASSUME NEW k \in 1..(m + 1) PROVE h[k] = g[k][h[k - 1]]
    <3>1. k - 1 \in 0..(m + 1) /\ k - 1 # m + 1 /\ k \in 0..(m + 1)
        OBVIOUS
    <3>2. h[k - 1] = f[k - 1]
        BY <3>1
    <3>3. CASE k = m + 1
        BY <3>1, <3>2, <3>3
    <3>4. CASE k # m + 1
      <4>1. k \in 1..m
          BY <3>4
      <4>. QED
          BY <2>1, <3>1, <3>2, <3>4, <4>1 DEF Solves
    <3>. QED
        BY <3>3, <3>4
  <2>8. Solves(h, m + 1, b, g)
      BY <2>6, <2>7 DEF Solves
  <2>. HIDE DEF h
  <2>. QED
      BY <2>5, <2>8
<1>3. \A k \in 0..n : k \in A
  <2>. HIDE DEF A
  <2>. QED
      BY <1>1, <1>2, UpTo
<1>4. n \in A
    BY <1>3
<1>. QED
    BY <1>4

\* A non-empty finite set of natural numbers has a greatest element.
LEMMA MaxOfFinite ==
    ASSUME NEW T \in SUBSET Nat, T # {}, IsFiniteSet(T)
    PROVE  Max(T) \in T /\ \A t \in T : t <= Max(T)
<1>. DEFINE Bounded(U) == \E b \in Nat : \A u \in U : u <= b
            A == {n \in Nat : \A U \in SUBSET T : Cardinality(U) = n => Bounded(U)}
            n == Cardinality(T)
<1>0. n \in Nat /\ \A U \in SUBSET T : IsFiniteSet(U) /\ Cardinality(U) \in Nat
    BY FS_CardinalityType, FS_Subset
<1>1. 0 \in A
  <2>1. \A U \in SUBSET T : Cardinality(U) = 0 => U = {}
      BY <1>0, FS_EmptySet
  <2>. QED
      BY <2>1
<1>2. ASSUME NEW k \in Nat, k \in A, k < n PROVE k + 1 \in A
  <2>. SUFFICES ASSUME NEW U \in SUBSET T, Cardinality(U) = k + 1 PROVE Bounded(U)
      OBVIOUS
  <2>1. U # {}
      BY FS_EmptySet
  <2>2. PICK x \in U : TRUE
      BY <2>1
  <2>3. Cardinality(U \ {x}) = k
      BY <1>0, FS_RemoveElement
  <2>4. PICK b \in Nat : \A u \in U \ {x} : u <= b
      BY <1>2, <2>3
  <2>5. x \in Nat
      OBVIOUS
  <2>6. CASE b <= x
    <3>1. \A u \in U : u \in Nat /\ (u = x \/ u <= b)
        BY <2>4
    <3>2. \A u \in U : u <= x
        BY <2>5, <2>6, <3>1
    <3>. QED
        BY <2>5, <3>2
  <2>7. CASE ~(b <= x)
    <3>1. \A u \in U : u \in Nat /\ (u = x \/ u <= b)
        BY <2>4
    <3>2. \A u \in U : u <= b
        BY <2>5, <2>7, <3>1
    <3>. QED
        BY <3>2
  <2>. QED
      BY <2>6, <2>7
<1>3. \A k \in 0..n : k \in A
  <2>. HIDE DEF A, n
  <2>. QED
      BY <1>0, <1>1, <1>2, UpTo
<1>4. n \in A
  <2>. HIDE DEF A, n
  <2>. QED
      BY <1>0, <1>3
<1>5. Bounded(T)
    BY <1>4
<1>. QED
    BY <1>5, MaxOf

\* A non-empty finite set that R orders has a last element.
LEMMA LastInOrder ==
    ASSUME NEW T, T # {}, IsFiniteSet(T), NEW R,
           \A x, y \in T : x # y => <<x, y>> \in R \/ <<y, x>> \in R,
           \A x, y, z \in T : <<x, y>> \in R /\ <<y, z>> \in R => <<x, z>> \in R
    PROVE  \E m \in T : \A x \in T \ {m} : <<x, m>> \in R
<1>. DEFINE Lasts(U) == \E m \in U : \A x \in U \ {m} : <<x, m>> \in R
            A == {n \in Nat : \A U \in SUBSET T : Cardinality(U) = n => U = {} \/ Lasts(U)}
            n == Cardinality(T)
<1>0. n \in Nat /\ \A U \in SUBSET T : IsFiniteSet(U) /\ Cardinality(U) \in Nat
    BY FS_CardinalityType, FS_Subset
<1>1. 0 \in A
  <2>1. \A U \in SUBSET T : Cardinality(U) = 0 => U = {}
      BY <1>0, FS_EmptySet
  <2>. QED
      BY <2>1
<1>2. ASSUME NEW k \in Nat, k \in A, k < n PROVE k + 1 \in A
  <2>. SUFFICES ASSUME NEW U \in SUBSET T, Cardinality(U) = k + 1 PROVE Lasts(U)
      OBVIOUS
  <2>1. U # {}
      BY FS_EmptySet
  <2>2. PICK x \in U : TRUE
      BY <2>1
  <2>3. Cardinality(U \ {x}) = k
      BY <1>0, FS_RemoveElement
  <2>4. U \ {x} = {} \/ Lasts(U \ {x})
      BY <1>2, <2>3
  <2>5. CASE U \ {x} = {}
      BY <2>5
  <2>6. CASE Lasts(U \ {x})
    <3>1. PICK m \in U \ {x} : \A y \in (U \ {x}) \ {m} : <<y, m>> \in R
        BY <2>6
    <3>2. CASE <<x, m>> \in R
      <4>1. \A y \in U \ {m} : <<y, m>> \in R
          BY <3>1, <3>2
      <4>. QED
          BY <4>1
    <3>3. CASE <<m, x>> \in R
      <4>1. \A y \in U \ {x} : <<y, x>> \in R
        <5>. TAKE y \in U \ {x}
        <5>1. CASE y = m
            BY <3>3, <5>1
        <5>2. CASE y # m
          <6>1. <<y, m>> \in R
              BY <3>1, <5>2
          <6>. QED
              BY <3>3, <6>1
        <5>. QED
            BY <5>1, <5>2
      <4>. QED
          BY <4>1
    <3>. QED
        BY <3>2, <3>3
  <2>. QED
      BY <2>4, <2>5, <2>6
<1>3. \A k \in 0..n : k \in A
  <2>. HIDE DEF A, n
  <2>. QED
      BY <1>0, <1>1, <1>2, UpTo
<1>4. n \in A
  <2>. HIDE DEF A, n
  <2>. QED
      BY <1>0, <1>3
<1>. QED
    BY <1>4
=============================================================================
