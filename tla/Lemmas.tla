-------------------------------- MODULE Lemmas --------------------------------
(***************************************************************************)
(* Facts about naturals, sequences and finite sets of numbers that the     *)
(* proofs need and the library lacks.                                      *)
(***************************************************************************)
EXTENDS FiniteSetTheorems, SequenceTheorems, WellFoundedInduction, TLAPS

\* A set of naturals that is not empty has a least element.
LEMMA LeastNatural ==
    ASSUME NEW S, S \subseteq Nat, S # {}
    PROVE  \E x \in S : \A y \in S : x <= y
<1> DEFINE R == {p \in Nat \X Nat : p[1] < p[2]}
<1>1. IsWellFoundedOn(R, Nat)
    BY NatLessThanWellFounded DEF OpToRel
<1>2. PICK x \in S : \A y \in S : <<y, x>> \notin R
    <2> HIDE DEF R
    <2>1. QED
        BY <1>1, WFMin
<1>3. ASSUME NEW y \in S PROVE x <= y
    <2>1. x \in Nat /\ y \in Nat /\ <<y, x>> \in Nat \X Nat
        OBVIOUS
    <2>2. ~(y < x)
        BY <1>2, <2>1
    <2>3. QED
        BY <2>1, <2>2
<1>4. QED
    BY <1>3

\* A function on the first n positions is a sequence.
LEMMA FunctionOfSeq ==
    ASSUME NEW S, NEW n \in Nat, NEW f \in [1 .. n -> S]
    PROVE  f \in Seq(S) /\ Len(f) = n /\ DOMAIN f = 1 .. n
<1>1. \A x \in 1 .. n : f[x] \in S
    OBVIOUS
<1>2. [x \in 1 .. n |-> f[x]] \in Seq(S)
    BY <1>1
<1>3. f = [x \in 1 .. n |-> f[x]] /\ DOMAIN f = 1 .. n
    OBVIOUS
<1>4. f \in Seq(S)
    BY <1>2, <1>3
<1>5. Len(f) = n
    BY <1>3, <1>4
<1>. QED
    BY <1>3, <1>4, <1>5

-----------------------------------------------------------------------------
\* No more than what it is mapped to one by one.
LEMMA NoMore ==
    ASSUME NEW S, IsFiniteSet(S), NEW T, IsFiniteSet(T), NEW f \in [S -> T],
           \A x, y \in S : f[x] = f[y] => x = y
    PROVE  Cardinality(S) <= Cardinality(T)
<1>1. Cardinality(S) \in Nat /\ Cardinality(T) \in Nat
  BY FS_CardinalityType
<1>2. ~(Cardinality(T) < Cardinality(S))
  BY FS_PigeonHole
<1> QED BY <1>1, <1>2

\* How many of S come before n.
Rank(S, n) == Cardinality({m \in S : m < n})

LEMMA RankType ==
    ASSUME NEW S, IsFiniteSet(S)
    PROVE  \A n \in Nat : Rank(S, n) \in Nat
<1> SUFFICES ASSUME NEW n \in Nat
             PROVE  Rank(S, n) \in Nat
  OBVIOUS
<1> DEFINE A == {m \in S : m < n}
<1>1. A \in SUBSET S
  OBVIOUS
<1>2. IsFiniteSet(A) /\ Cardinality(A) \in Nat
  <2> HIDE DEF A
  <2> QED BY <1>1, FS_Subset, FS_CardinalityType
<1> QED BY <1>2 DEF Rank

\* Ranks follow the order, and are no smaller in a larger set.
LEMMA RankGrows ==
    ASSUME NEW S, S \subseteq Nat, IsFiniteSet(S)
    PROVE  \A n, m \in S : n < m => Rank(S, n) < Rank(S, m)
<1> SUFFICES ASSUME NEW n \in S, NEW m \in S, n < m
             PROVE  Rank(S, n) < Rank(S, m)
  OBVIOUS
<1> DEFINE A == {k \in S : k < n}
           B == {k \in S : k < m}
<1>0. n \in Nat /\ m \in Nat
  OBVIOUS
<1>1. IsFiniteSet(B)
  BY <1>0, FS_Subset
<1>2. Rank(S, n) \in Nat /\ Rank(S, m) \in Nat
  BY <1>0, RankType
<1>3. A \in SUBSET B /\ n \in B /\ n \notin A
  <2>1. \A k \in S : k \in Nat /\ (k < n => k < m)
    BY <1>0
  <2>2. ~(n < n)
    BY <1>0
  <2> QED BY <2>1, <2>2
<1>4. Cardinality(A) <= Cardinality(B) /\ Cardinality(A) # Cardinality(B)
  <2> HIDE DEF A, B
  <2> QED BY <1>1, <1>3, FS_Subset
<1> QED BY <1>2, <1>4 DEF Rank

LEMMA RankKept ==
    ASSUME NEW T, T \subseteq Nat, IsFiniteSet(T), NEW S \in SUBSET T, NEW n \in Nat
    PROVE  Rank(S, n) <= Rank(T, n)
<1> DEFINE A == {k \in S : k < n}
           B == {k \in T : k < n}
<1>1. IsFiniteSet(B)
  BY FS_Subset
<1>2. A \in SUBSET B
  OBVIOUS
<1>3. Cardinality(A) <= Cardinality(B)
  <2> HIDE DEF A, B
  <2> QED BY <1>1, <1>2, FS_Subset
<1> QED BY <1>3 DEF Rank

\* No more elements than ranks for them.
LEMMA RankRange ==
    ASSUME NEW S, S \subseteq Nat, IsFiniteSet(S), NEW a \in Nat, NEW b \in Nat, a <= b,
           NEW P \in SUBSET S, \A n \in P : Rank(S, n) >= a /\ Rank(S, n) < b
    PROVE  IsFiniteSet(P) /\ Cardinality(P) \in Nat /\ Cardinality(P) <= b - a
<1> DEFINE T == a .. b - 1
           f == [n \in P |-> Rank(S, n)]
<1>1. IsFiniteSet(P) /\ Cardinality(P) \in Nat
  BY FS_Subset, FS_CardinalityType
<1>2. IsFiniteSet(T) /\ Cardinality(T) = b - a
  <2>1. a \in Int /\ b - 1 \in Int
    OBVIOUS
  <2>2. IsFiniteSet(T) /\ Cardinality(T) = IF a > b - 1 THEN 0 ELSE b - 1 - a + 1
    BY <2>1, FS_Interval
  <2> QED BY <2>2
<1>3. \A n \in P : n \in Nat /\ n \in S /\ Rank(S, n) \in Nat
  BY RankType
<1>4. f \in [P -> T]
  BY <1>3
<1>5. \A n, m \in P : f[n] = f[m] => n = m
  <2> SUFFICES ASSUME NEW n \in P, NEW m \in P, n # m
               PROVE  Rank(S, n) # Rank(S, m)
    OBVIOUS
  <2>1. n < m \/ m < n
    BY <1>3
  <2>2. n < m => Rank(S, n) < Rank(S, m)
    BY RankGrows
  <2>3. m < n => Rank(S, m) < Rank(S, n)
    BY RankGrows
  <2> QED BY <1>3, <2>1, <2>2, <2>3
<1>6. Cardinality(P) <= Cardinality(T)
  <2> HIDE DEF T, f
  <2> QED BY <1>1, <1>2, <1>4, <1>5, NoMore
<1> QED BY <1>1, <1>2, <1>6

\* Below the rank of an element each rank is somebody's.
LEMMA RankFilled ==
    ASSUME NEW S, S \subseteq Nat, IsFiniteSet(S), NEW a \in Nat, NEW n \in S, Rank(S, n) >= a
    PROVE  \E m \in S : Rank(S, m) = a
<1> DEFINE M == {m \in S : Rank(S, m) >= a}
<1>1. PICK m \in M : \A k \in M : m <= k
  <2>1. M \subseteq Nat /\ M # {}
    OBVIOUS
  <2> HIDE DEF M
  <2> QED BY <2>1, LeastNatural
<1>2. \A k \in S : Rank(S, k) \in Nat /\ k \in Nat
  BY RankType
<1>3. \A k \in {l \in S : l < m} : Rank(S, k) >= 0 /\ Rank(S, k) < a
  BY <1>1, <1>2
<1>4. Rank(S, m) <= a
  <2> DEFINE P == {l \in S : l < m}
  <2>1. P \in SUBSET S
    OBVIOUS
  <2>2. \A k \in P : Rank(S, k) >= 0 /\ Rank(S, k) < a
    BY <1>3
  <2>3. Cardinality(P) <= a - 0
    <3> HIDE DEF P
    <3>1. 0 \in Nat /\ 0 <= a
      OBVIOUS
    <3> QED BY <2>1, <2>2, <3>1, RankRange
  <2> QED BY <2>3 DEF Rank
<1> QED BY <1>1, <1>2, <1>4
===============================================================================
