--------------------------- MODULE NaturalFacts ---------------------------
(***************************************************************************)
(* Facts about the natural numbers that the proofs of this project share.  *)
(***************************************************************************)
EXTENDS Integers, FiniteSetTheorems, WellFoundedInduction, TLAPS

\* Every nonempty set of naturals has a least element: the loops of the code
\* that stop at the first index with some property are defined by it.  The
\* initial segments of the elements are finite sets, ordered by inclusion.
LEMMA LeastElement ==
  ASSUME NEW T \in SUBSET Nat, T # {}
  PROVE  \E m \in T : \A k \in T : m <= k
<1> DEFINE F == {0 .. k : k \in T}
<1>1. F \subseteq FiniteSubsetsOf(Nat)
  <2> SUFFICES ASSUME NEW k \in T PROVE 0 .. k \in FiniteSubsetsOf(Nat)
    OBVIOUS
  <2>1. IsFiniteSet(0 .. k)
    BY FS_Interval
  <2> QED BY <2>1 DEF FiniteSubsetsOf
<1>2. F # {}
  OBVIOUS
<1>3. IsWellFoundedOn(StrictSubsetOrdering(Nat), FiniteSubsetsOf(Nat))
  BY FS_StrictSubsetOrderingWellFounded
<1>4. \E x \in F : \A y \in F : ~ (<<y, x>> \in StrictSubsetOrdering(Nat))
  <2> HIDE DEF F
  <2> QED BY <1>1, <1>2, <1>3, WFMin
<1>5. PICK m \in T : \A k \in T : ~ (<<0 .. k, 0 .. m>> \in StrictSubsetOrdering(Nat))
  BY <1>4
<1>6. ASSUME NEW k \in T, k < m PROVE FALSE
  <2>1. 0 .. k \in SUBSET Nat /\ 0 .. m \in SUBSET Nat
    OBVIOUS
  <2>2. 0 .. k \subseteq 0 .. m
    BY <1>6
  <2>3. m \in 0 .. m /\ m \notin 0 .. k
    BY <1>6
  <2> QED BY <1>5, <2>1, <2>2, <2>3 DEF StrictSubsetOrdering
<1> QED BY <1>5, <1>6

----------------------------------------------------------------------------
(* Induction and recursion on the numbers up to a bound. *)

\* Induction, over a set rather than a predicate.
LEMMA IntervalInduction ==
  ASSUME NEW n \in Nat, NEW P, 0 \in P, \A k \in 1 .. n : k - 1 \in P => k \in P
  PROVE  0 .. n \subseteq P
<1> DEFINE T == {m \in Nat : m <= n /\ m \notin P}
<1>1. SUFFICES ASSUME T # {} PROVE FALSE
  OBVIOUS
<1>2. PICK m \in T : \A k \in T : m <= k
  <2>1. T \in SUBSET Nat
    OBVIOUS
  <2> HIDE DEF T
  <2> QED BY <1>1, <2>1, LeastElement
<1>3. m # 0 /\ m \in 1 .. n /\ m - 1 \in Nat
  BY <1>2
<1>4. m - 1 \in P
  BY <1>2, <1>3
<1> QED BY <1>2, <1>3, <1>4

\* The equation of a function that is defined by recursion up to n.
RecursiveUpto(f, n, base, step) ==
  f = [k \in 0 .. n |-> IF k = 0 THEN base ELSE step[k][f[k - 1]]]

\* It has a solution, so that such a definition defines a function.
LEMMA RecursionExists ==
  ASSUME NEW n \in Nat, NEW base, NEW step
  PROVE  \E f : RecursiveUpto(f, n, base, step)
<1> DEFINE P == {m \in 0 .. n : \E f : RecursiveUpto(f, m, base, step)}
<1>1. 0 \in P
  <2> DEFINE g == [k \in 0 .. 0 |-> base]
  <2>1. RecursiveUpto(g, 0, base, step)
    BY DEF RecursiveUpto
  <2> HIDE DEF g
  <2> QED BY <2>1
<1>2. ASSUME NEW m \in 1 .. n, m - 1 \in P PROVE m \in P
  <2>1. PICK h : RecursiveUpto(h, m - 1, base, step)
    BY <1>2
  <2> DEFINE g == [k \in 0 .. m |-> IF k = m THEN step[m][h[m - 1]] ELSE h[k]]
  <2>2. ASSUME NEW k \in 0 .. m
        PROVE  g[k] = IF k = 0 THEN base ELSE step[k][g[k - 1]]
    <3>1. CASE k = m
      BY <3>1
    <3>2. CASE k # m
      <4>1. k \in 0 .. m - 1
        BY <3>2
      <4>2. h[k] = IF k = 0 THEN base ELSE step[k][h[k - 1]]
        BY <2>1, <4>1 DEF RecursiveUpto
      <4>3. g[k] = h[k] /\ (k # 0 => g[k - 1] = h[k - 1])
        BY <3>2, <4>1
      <4> HIDE DEF g
      <4> QED BY <4>2, <4>3
    <3> QED BY <3>1, <3>2
  <2>3. RecursiveUpto(g, m, base, step)
    <3>1. g = [k \in 0 .. m |-> g[k]]
      OBVIOUS
    <3> HIDE DEF g
    <3> QED BY <2>2, <3>1 DEF RecursiveUpto
  <2> HIDE DEF g
  <2> QED BY <2>3
<1>3. n \in P
  <2> HIDE DEF P
  <2>1. 0 .. n \subseteq P
    BY <1>1, <1>2, IntervalInduction
  <2> QED BY <2>1
<1> QED BY <1>3

\* Its values stay in a set that the steps do not leave.
LEMMA RecursionStaysIn ==
  ASSUME NEW n \in Nat, NEW D, NEW base \in D, NEW step, NEW f,
         RecursiveUpto(f, n, base, step),
         \A k \in 1 .. n : \A x \in D : step[k][x] \in D
  PROVE  f \in [0 .. n -> D]
<1> DEFINE P == {m \in 0 .. n : f[m] \in D}
<1>1. 0 \in P
  BY DEF RecursiveUpto
<1>2. ASSUME NEW k \in 1 .. n, k - 1 \in P PROVE k \in P
  BY <1>2 DEF RecursiveUpto
<1>3. 0 .. n \subseteq P
  <2> HIDE DEF P
  <2> QED BY <1>1, <1>2, IntervalInduction
<1> QED BY <1>3 DEF RecursiveUpto

----------------------------------------------------------------------------
(* Remainders, for the counters and indices that wrap. *)

\* Division with remainder, as an equation.
LEMMA DivisionEquation ==
  ASSUME NEW a \in Nat, NEW b \in Nat \ {0}
  PROVE  \E q \in Nat, r \in 0 .. b - 1 : a = b * q + r /\ a % b = r
<1>1. a \div b \in Nat /\ (a % b) \in 0 .. b - 1 /\ a = b * (a \div b) + (a % b)
  OBVIOUS
<1> QED BY <1>1

LEMMA IntDivisionEquation ==
  ASSUME NEW a \in Int, NEW b \in Nat \ {0}
  PROVE  \E q \in Int, r \in 0 .. b - 1 : a = b * q + r /\ a % b = r
<1>1. a \div b \in Int /\ (a % b) \in 0 .. b - 1 /\ a = b * (a \div b) + (a % b)
  OBVIOUS
<1> QED BY <1>1

\* The equation determines the remainder.
LEMMA RemainderUnique ==
  ASSUME NEW b \in Nat \ {0}, NEW q \in Int, NEW r \in 0 .. b - 1
  PROVE  (b * q + r) % b = r
OBVIOUS

\* So it does the quotient.
LEMMA QuotientIs ==
  ASSUME NEW b \in Nat \ {0}, NEW q \in Nat, NEW r \in 0 .. b - 1
  PROVE  (b * q + r) \div b = q
<1> DEFINE a == b * q + r
           p == a \div b
<1>1. a \in Nat /\ b * q \in Nat
  OBVIOUS
<1>2. p \in Nat /\ (a % b) \in 0 .. b - 1 /\ a = b * p + (a % b)
  <2> HIDE DEF a
  <2> QED BY <1>1
<1>3. a % b = r
  BY RemainderUnique
<1>4. b * p = b * q
  <2> DEFINE x == b * p
             y == b * q
  <2>1. x \in Nat /\ y \in Nat /\ a = x + r /\ a = y + r
    <3> HIDE DEF p
    <3> QED BY <1>2, <1>3
  <2> HIDE DEF x, y, a
  <2>2. x = y
    BY <2>1
  <2> QED BY <2>2 DEF x, y
<1> HIDE DEF p, a
<1>5. p = q
  <2>1. CASE p < q
    <3>1. b * (p + 1) <= b * q /\ b * (p + 1) = b * p + b
      BY <1>2, <2>1
    <3> QED BY <1>2, <1>4, <3>1
  <2>2. CASE q < p
    <3>1. b * (q + 1) <= b * p /\ b * (q + 1) = b * q + b
      BY <1>2, <2>2
    <3> QED BY <1>2, <1>4, <3>1
  <2> QED BY <1>2, <2>1, <2>2
<1> QED BY <1>5 DEF p, a

LEMMA RemainderRange ==
  ASSUME NEW a \in Int, NEW b \in Nat \ {0}
  PROVE  a % b \in 0 .. b - 1
OBVIOUS

LEMMA SmallRemainder ==
  ASSUME NEW b \in Nat \ {0}, NEW r \in 0 .. b - 1
  PROVE  r % b = r
OBVIOUS

\* Multiples of the modulus do not change it.
LEMMA PlusMultiple ==
  ASSUME NEW a \in Int, NEW b \in Nat \ {0}, NEW c \in Int
  PROVE  (a + b * c) % b = a % b
<1>1. PICK q \in Int, r \in 0 .. b - 1 : a = b * q + r /\ a % b = r
  BY IntDivisionEquation
<1>2. q + c \in Int /\ a + b * c = b * (q + c) + r
  BY <1>1
<1>3. (b * (q + c) + r) % b = r
  BY <1>2, RemainderUnique
<1> QED BY <1>1, <1>2, <1>3

\* Numbers less than the modulus apart have different remainders.
LEMMA NearResiduesDiffer ==
  ASSUME NEW b \in Nat \ {0}, NEW a \in Nat, NEW c \in Nat, a < c, c - a < b
  PROVE  a % b # c % b
<1> SUFFICES ASSUME a % b = c % b PROVE FALSE
  OBVIOUS
<1>1. PICK q \in Nat, r \in 0 .. b - 1 : a = b * q + r /\ a % b = r
  BY DivisionEquation
<1>2. PICK s \in Nat, t \in 0 .. b - 1 : c = b * s + t /\ c % b = t
  BY DivisionEquation
<1>3. b * q < b * s /\ b * s - b * q < b
  BY <1>1, <1>2
<1>4. CASE s <= q
  <2>1. b * s <= b * q
    BY <1>4
  <2> QED BY <1>3, <2>1
<1>5. CASE s >= q + 1
  <2>1. b * s >= b * (q + 1) /\ b * (q + 1) = b * q + b
    BY <1>5
  <2> QED BY <1>3, <2>1
<1> QED BY <1>4, <1>5

\* Remainders may be taken early.
LEMMA ResidueTakenEarly ==
  ASSUME NEW a \in Int, NEW b \in Nat \ {0}, NEW c \in Int
  PROVE  ((a % b) + c) % b = (a + c) % b
<1>1. PICK q \in Int, r \in 0 .. b - 1 : a = b * q + r /\ a % b = r
  BY IntDivisionEquation
<1>2. r + c \in Int /\ a + c = (r + c) + b * q
  BY <1>1
<1>3. ((r + c) + b * q) % b = (r + c) % b
  BY <1>2, PlusMultiple
<1> QED BY <1>1, <1>2, <1>3

\* A counter that wraps at a multiple of c keeps its remainder.
LEMMA ResidueOfResidue ==
  ASSUME NEW a \in Int, NEW b \in Nat \ {0}, NEW c \in Nat \ {0}, b % c = 0
  PROVE  (a % b) % c = a % c
<1>1. PICK q \in Int, r \in 0 .. b - 1 : a = b * q + r /\ a % b = r
  BY IntDivisionEquation
<1>2. PICK s \in Nat : b = c * s
  <2>1. PICK s \in Nat, t \in 0 .. c - 1 : b = c * s + t /\ b % c = t
    BY DivisionEquation
  <2> QED BY <2>1
<1>3. PICK m \in Int : b * q = c * m
  <2>1. b * q = c * (s * q) /\ s * q \in Int
    BY <1>2
  <2> QED BY <2>1
<1>4. r \in Int /\ a = r + c * m
  BY <1>1, <1>3
<1>5. (r + c * m) % c = r % c
  BY <1>4, PlusMultiple
<1> QED BY <1>1, <1>4, <1>5
===========================================================================
