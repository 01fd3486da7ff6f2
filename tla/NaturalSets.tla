---------------------------- MODULE NaturalSets ----------------------------
(***************************************************************************)
(* Lemmas about sets of natural numbers, shared by the proofs.             *)
(***************************************************************************)
EXTENDS Naturals, FiniteSetsExt, FiniteSetTheorems, WellFoundedInduction, TLAPS

\* A set of naturals that is not empty has a least element.
LEMMA LeastExists ==
  ASSUME NEW S \in SUBSET Nat, S # {}
  PROVE  \E m \in S : \A i \in S : m <= i
<1>1. \E m \in S : \A i \in S : ~(<<i, m>> \in OpToRel(<, Nat))
  BY NatLessThanWellFounded, WFMin
<1>2. PICK m \in S : \A i \in S : ~(i < m)
  BY <1>1 DEF OpToRel
<1> QED
  BY <1>2

\* A bounded one has a greatest.
LEMMA GreatestExists ==
  ASSUME NEW n \in Nat, NEW S \in SUBSET (0..n), S # {}
  PROVE  \E m \in S : \A i \in S : i <= m
<1> DEFINE Bounds == {b \in Nat : \A i \in S : i <= b}
<1>1. n \in Bounds
  OBVIOUS
<1>2. PICK m \in Bounds : \A b \in Bounds : m <= b
  BY <1>1, LeastExists
<1>3. m \in S
  <2> SUFFICES ASSUME m \notin S PROVE FALSE
    OBVIOUS
  <2>1. PICK i \in S : TRUE
    OBVIOUS
  <2>2. \A j \in S : j < m
    OBVIOUS
  <2>3. m - 1 \in Bounds
    BY <2>1, <2>2
  <2> QED
    BY <1>2, <2>3
<1> QED
  BY <1>3

\* Max finds it.
LEMMA MaxIs ==
  ASSUME NEW S \in SUBSET Nat, NEW k \in S, \A i \in S : i <= k
  PROVE  Max(S) = k
<1> DEFINE m == Max(S)
<1>1. k \in S /\ \A i \in S : k >= i
  OBVIOUS
<1>2. m \in S /\ \A i \in S : m >= i
  BY <1>1 DEF Max
<1>3. m \in Nat /\ k \in Nat /\ m >= k /\ k >= m
  BY <1>1, <1>2
<1> HIDE DEF m
<1>4. m = k
  BY <1>3
<1> QED
  BY <1>4 DEF m

\* A bounded set is finite.
LEMMA BoundedIsFinite ==
  ASSUME NEW n \in Nat, NEW S \in SUBSET (0..n)
  PROVE  IsFiniteSet(S) /\ Cardinality(S) \in Nat
<1>1. IsFiniteSet(0..n)
  BY FS_Interval
<1>2. IsFiniteSet(S)
  BY <1>1, FS_Subset
<1> QED
  BY <1>2, FS_CardinalityType

\* A set of positive numbers without gaps is the numbers up to its cardinality.
LEMMA SegmentIs ==
  ASSUME NEW n \in Nat, NEW S \in SUBSET (1..n),
         \A i \in S : \A j \in 1..n : j <= i => j \in S
  PROVE  Cardinality(S) \in Nat /\ S = 1..Cardinality(S)
<1>1. CASE S = {}
  <2>1. Cardinality(S) = 0
    BY <1>1, FS_EmptySet
  <2> QED
    BY <1>1, <2>1
<1>2. CASE S # {}
  <2>1. S \in SUBSET (0..n)
    OBVIOUS
  <2>2. PICK m \in S : \A i \in S : i <= m
    BY <1>2, <2>1, GreatestExists
  <2>3. S = 1..m /\ m \in Nat /\ 1 <= m
    <3>1. m \in 1..n /\ S \subseteq 1..m
      BY <2>2
    <3>2. 1..m \subseteq S
      BY <3>1
    <3>3. S = 1..m
      BY <3>1, <3>2, Zenon
    <3> QED
      BY <3>1, <3>3
  <2>4. Cardinality(S) = m
    BY <2>3, FS_Interval
  <2> QED
    BY <2>3, <2>4
<1> QED
  BY <1>1, <1>2
=============================================================================
