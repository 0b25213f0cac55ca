----------------------------- MODULE BasicFacts ------------------------------
(***************************************************************************)
(* Facts about division, least elements, the sizes of sets and induction   *)
(* that the proofs of several components rest on.  Induction over the      *)
(* naturals has the form "a set that holds 0 and is closed under successor *)
(* holds every natural".                                                   *)
(***************************************************************************)
EXTENDS Integers, FiniteSets, FiniteSetsExt, FiniteSetTheorems,
        WellFoundedInduction, TLAPS

(* What \div and % are, for dividends and divisors of any size.            *)
LEMMA Division ==
  ASSUME NEW a \in Nat, NEW b \in Nat \ {0}
  PROVE  /\ a \div b \in Nat
         /\ b * (a \div b) <= a
         /\ a < b * (a \div b) + b
         /\ a % b \in 0 .. (b - 1)
         /\ a = b * (a \div b) + (a % b)
  OBVIOUS

(* Products are monotonic, and so is what a product bounds.                *)
LEMMA Products ==
  ASSUME NEW a \in Nat, NEW b \in Nat, NEW n \in Nat
  PROVE  /\ a <= b => n * a <= n * b
         /\ n * a < n * b => a < b
         /\ n * (a + 1) = n * a + n
  OBVIOUS

(* The remainder is below the divisor and differs from the dividend by a   *)
(* multiple of it; it is the only such number.                             *)
LEMMA Remainder ==
  ASSUME NEW a \in Int, NEW b \in Nat \ {0}
  PROVE  /\ a % b \in 0 .. (b - 1)
         /\ a \div b \in Int
         /\ a = (a \div b) * b + (a % b)
  OBVIOUS

LEMMA RemainderUnique ==
  ASSUME NEW b \in Nat \ {0}, NEW q \in Int, NEW r \in 0 .. (b - 1)
  PROVE  (q * b + r) % b = r
  OBVIOUS

(* The least element of a set of naturals.                                 *)
LEMMA LeastIsMin ==
  ASSUME NEW S \in SUBSET Int, NEW m \in S, \A x \in S : m <= x
  PROVE  Min(S) = m
  <1>1. \E x \in S : \A y \in S : x <= y
    OBVIOUS
  <1>2. Min(S) \in S /\ \A y \in S : Min(S) <= y
    BY <1>1, Zenon DEF Min
  <1>3. Min(S) \in Int /\ m \in Int
    BY <1>2
  <1>4. Min(S) <= m /\ m <= Min(S)
    BY <1>2
  <1> QED
    BY <1>3, <1>4

(* A non-empty set of frame numbers has a least one.                       *)
LEMMA MinIsLeast ==
  ASSUME NEW S \in SUBSET Nat, S # {}
  PROVE  Min(S) \in S /\ \A y \in S : Min(S) <= y
  <1>1. PICK x \in S : \A y \in S : ~(<<y, x>> \in OpToRel(<, Nat))
    BY NatLessThanWellFounded, WFMin
  <1>2. \A y \in S : x <= y
    <2> SUFFICES ASSUME NEW y \in S, y < x PROVE FALSE
      OBVIOUS
    <2>1. <<y, x>> \in OpToRel(<, Nat)
      BY DEF OpToRel
    <2> QED
      BY <1>1, <2>1
  <1>3. \E z \in S : \A y \in S : z <= y
    BY <1>2
  <1> QED
    BY <1>3, Zenon DEF Min

LEMMA MarkRun ==
  ASSUME NEW free, IsFiniteSet(free), NEW R \in SUBSET free,
         NEW rest, rest = free \ R
  PROVE  Cardinality(rest) = Cardinality(free) - Cardinality(R)
  <1>1. free \cap R = R
    OBVIOUS
  <1>2. Cardinality(free \ R) = Cardinality(free) - Cardinality(free \cap R)
    BY FS_Difference
  <1> QED
    BY <1>1, <1>2

LEMMA ClearRun ==
  ASSUME NEW free, IsFiniteSet(free), NEW R, IsFiniteSet(R), free \cap R = {},
         NEW all, all = free \cup R
  PROVE  Cardinality(all) = Cardinality(free) + Cardinality(R)
  <1>1. Cardinality(free \cup R)
          = Cardinality(free) + Cardinality(R) - Cardinality({})
    BY FS_Union
  <1>2. /\ Cardinality(free) \in Nat /\ Cardinality(R) \in Nat
        /\ Cardinality({}) = 0
    BY FS_CardinalityType, FS_EmptySet
  <1> QED
    BY <1>1, <1>2
(* Induction over the naturals, for a set.                                 *)
LEMMA SetInduction ==
  ASSUME NEW S, 0 \in S, \A n \in Nat : n \in S => n + 1 \in S
  PROVE  Nat \subseteq S
  <1> SUFFICES ASSUME Nat \ S # {} PROVE FALSE
    OBVIOUS
  <1>1. Nat \ S \in SUBSET Nat
    OBVIOUS
  <1>2. Min(Nat \ S) \in Nat \ S /\ \A y \in Nat \ S : Min(Nat \ S) <= y
    BY <1>1, MinIsLeast
  <1> DEFINE m == Min(Nat \ S)
  <1>3. m \in Nat /\ m \notin S /\ \A y \in Nat \ S : m <= y
    BY <1>2
  <1> HIDE DEF m
  <1>4. m # 0 /\ m - 1 \in Nat /\ m - 1 \in S
    BY <1>3
  <1>5. (m - 1) + 1 = m
    BY <1>3
  <1> QED
    BY <1>3, <1>4, <1>5

(* A loop of n turns: it gives the state after each number of turns.       *)
IsLoop(it, A, base, F, n) ==
  /\ it \in [0 .. n -> A]
  /\ \A k \in 0 .. n : it[k] = IF k = 0 THEN base ELSE F[<<k, it[k - 1]>>]

(* The function that such a recursive definition chooses exists, whatever  *)
(* the body of the loop computes.                                          *)
LEMMA LoopExists ==
  ASSUME NEW A, NEW base \in A, NEW n \in Nat, NEW F \in [(1 .. n) \X A -> A]
  PROVE  \E it : IsLoop(it, A, base, F, n)
  <1> DEFINE S == {k \in Nat : k <= n => \E it : IsLoop(it, A, base, F, k)}
  <1>1. 0 \in S
    <2>1. IsLoop([k \in 0 .. 0 |-> base], A, base, F, 0)
      BY DEF IsLoop
    <2>2. 0 \in Nat
      OBVIOUS
    <2> QED
      BY <2>1, <2>2, Zenon
  <1>2. ASSUME NEW k \in Nat, k \in S PROVE k + 1 \in S
    <2> SUFFICES ASSUME k + 1 <= n PROVE \E it : IsLoop(it, A, base, F, k + 1)
      <3>1. k + 1 \in Nat
        OBVIOUS
      <3> QED
        BY <3>1, Zenon
    <2>1. k <= n /\ k + 1 \in 1 .. n /\ (k + 1) - 1 = k
      OBVIOUS
    <2>2. PICK h : IsLoop(h, A, base, F, k)
      BY <1>2, <2>1, Zenon
    <2> DEFINE g == [j \in 0 .. k + 1 |-> IF j = k + 1 THEN F[<<k + 1, h[k]>>] ELSE h[j]]
    <2>3. h[k] \in A /\ F[<<k + 1, h[k]>>] \in A
      BY <2>1, <2>2 DEF IsLoop
    <2>4. /\ g[k + 1] = F[<<k + 1, h[k]>>]
          /\ \A j \in 0 .. k : g[j] = h[j]
          /\ g \in [0 .. k + 1 -> A]
      BY <2>2, <2>3 DEF IsLoop
    <2> HIDE DEF g
    <2>5. ASSUME NEW j \in 0 .. k + 1
          PROVE  g[j] = IF j = 0 THEN base ELSE F[<<j, g[j - 1]>>]
      <3>1. CASE j = k + 1
        BY <2>1, <2>4, <3>1
      <3>2. CASE j # k + 1
        <4>1. j \in 0 .. k /\ (j # 0 => j - 1 \in 0 .. k)
          BY <3>2
        <4> QED
          BY <2>2, <2>4, <4>1 DEF IsLoop
      <3> QED
        BY <3>1, <3>2
    <2>6. IsLoop(g, A, base, F, k + 1)
      BY <2>4, <2>5 DEF IsLoop
    <2> QED
      BY <2>6
  <1> HIDE DEF S
  <1>3. n \in S /\ n <= n
    BY <1>1, <1>2, SetInduction
  <1> QED
    BY <1>3, Zenon DEF S
=============================================================================
