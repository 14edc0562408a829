--------------------------- MODULE SublistsProofs ---------------------------
(***************************************************************************)
(* Lemmas about least numbers and about the lists that remain of others,   *)
(* which the theorems about several components rest on.                    *)
(***************************************************************************)
EXTENDS Sublists, SequencesExt, FiniteSetTheorems, FunctionTheorems, WellFoundedInduction, TLAPS

LEMMA LeastNatural ==
    ASSUME NEW S \in SUBSET Nat, S # {}
    PROVE  Min(S) \in S /\ \A n \in S : Min(S) <= n
<1>1. PICK m \in S : \A n \in S : ~(<<n, m>> \in OpToRel(<, Nat))
  BY NatLessThanWellFounded, WFMin
<1>2. \A n \in S : ~(n < m)
  BY <1>1 DEF OpToRel
<1>3. \E x \in S : \A y \in S : x <= y
  BY <1>2
<1> QED
  BY <1>3 DEF Min

LEMMA GreatestPosition ==
    ASSUME NEW n \in Nat, NEW S \in SUBSET (1..n), S # {}
    PROVE  Max(S) \in S /\ \A i \in S : i <= Max(S)
<1> DEFINE D == {n - i : i \in S}
<1>n. \A i \in S : i \in 1..n
  OBVIOUS
<1>1. D \in SUBSET Nat
  BY <1>n
<1>2. PICK i \in S : TRUE
  OBVIOUS
<1>3. n - i \in D
  OBVIOUS
<1>4. PICK d \in D : \A e \in D : d <= e
  <2> HIDE DEF D
  <2> QED
    BY <1>1, <1>3, LeastNatural
<1>5. PICK m \in S : d = n - m
  BY <1>4
<1>6. \A j \in S : n - m <= n - j
  BY <1>4, <1>5
<1>7. \A j \in S : j <= m
  BY <1>6, <1>n
<1> QED
  BY <1>7 DEF Max

\* Positions are ranked without gaps from 1.
LEMMA RanksAreDistinct ==
    ASSUME NEW n \in Nat, NEW I \in SUBSET (1..n)
    PROVE  /\ IsFiniteSet(I) /\ Cardinality(I) \in Nat
           /\ \A i \in I : Rank(I, i) \in 1..Cardinality(I)
           /\ \A i, j \in I : Rank(I, i) = Rank(I, j) => i = j
<1>n. \A i \in I : i \in Nat
  OBVIOUS
<1>1. IsFiniteSet(I) /\ Cardinality(I) \in Nat
  <2>1. IsFiniteSet(1..n)
    BY 1 \in Int, n \in Int, FS_Interval
  <2>2. IsFiniteSet(I)
    BY <2>1, FS_Subset
  <2> QED
    BY <2>2, FS_CardinalityType
<1>2. ASSUME NEW i \in I PROVE Rank(I, i) \in 1..Cardinality(I)
  <2> DEFINE L == {j \in I : j <= i}
  <2>1. L \in SUBSET I /\ i \in L
    OBVIOUS
  <2>2. IsFiniteSet(L) /\ Cardinality(L) \in Nat /\ Cardinality(L) <= Cardinality(I)
    BY <1>1, <2>1, FS_Subset, FS_CardinalityType
  <2>3. Cardinality(L) # 0
    BY <2>1, <2>2, FS_EmptySet
  <2> QED
    BY <1>1, <2>2, <2>3 DEF Rank
<1>3. ASSUME NEW i \in I, NEW j \in I, i < j PROVE Rank(I, i) < Rank(I, j)
  <2> DEFINE L == {h \in I : h <= i}
             M == {h \in I : h <= j}
  <2>1. L \in SUBSET M /\ M \in SUBSET I /\ j \in M /\ j \notin L
    <3>1. \A h \in I : h <= i => h <= j
      BY <1>n, <1>3
    <3>2. j <= j /\ ~(j <= i)
      BY <1>n, <1>3
    <3> QED
      BY <3>1, <3>2
  <2>2. IsFiniteSet(M) /\ Cardinality(M) \in Nat
    BY <1>1, <2>1, FS_Subset, FS_CardinalityType
  <2>3. IsFiniteSet(L) /\ Cardinality(L) \in Nat /\ Cardinality(L) <= Cardinality(M)
    BY <2>1, <2>2, FS_Subset, FS_CardinalityType
  <2>4. Cardinality(L) # Cardinality(M)
    BY <2>1, <2>2, FS_Subset
  <2> HIDE DEF L, M
  <2>5. Cardinality(L) < Cardinality(M)
    BY <2>2, <2>3, <2>4
  <2> QED
    BY <2>5 DEF Rank, L, M
<1>4. ASSUME NEW i \in I, NEW j \in I, Rank(I, i) = Rank(I, j) PROVE i = j
  <2>1. Rank(I, i) \in Nat
    BY <1>1, <1>2
  <2>2. ~(i < j) /\ ~(j < i)
    BY <1>3, <1>4, <2>1
  <2> QED
    BY <1>n, <2>2
<1> QED
  BY <1>1, <1>2, <1>4

LEMMA PositionOfRank ==
    ASSUME NEW n \in Nat, NEW I \in SUBSET (1..n), NEW k \in 1..Cardinality(I)
    PROVE  PositionAt(I, k) \in I /\ Rank(I, PositionAt(I, k)) = k
<1> DEFINE c == Cardinality(I)
           f == [i \in I |-> Rank(I, i)]
<1>1. IsFiniteSet(I) /\ c \in Nat /\ IsFiniteSet(1..c) /\ Cardinality(1..c) = c
  <2>1. IsFiniteSet(I) /\ c \in Nat
    BY RanksAreDistinct
  <2>2. IsFiniteSet(1..c) /\ Cardinality(1..c) = IF 1 > c THEN 0 ELSE c - 1 + 1
    BY <2>1, 1 \in Int, c \in Int, FS_Interval
  <2> HIDE DEF c
  <2> QED
    BY <2>1, <2>2
<1>2. f \in [I -> 1..c]
  BY RanksAreDistinct
<1>3. \A i, j \in I : f[i] = f[j] => i = j
  BY RanksAreDistinct
<1>4. f \in Injection(I, 1..c)
  BY <1>2, <1>3 DEF Injection, IsInjective
<1>5. f \in Surjection(I, 1..c)
  BY <1>1, <1>4, FS_Injection
<1>6. \E i \in I : Rank(I, i) = k
  BY <1>5 DEF Surjection
<1> QED
  BY <1>6 DEF PositionAt

\* A filtered list holds the elements at the positions it was made of, and each once
\* if they differ.
LEMMA PickedElements ==
    ASSUME NEW s, NEW n \in Nat, NEW I \in SUBSET (1..n)
    PROVE  /\ Cardinality(I) \in Nat /\ DOMAIN Picked(s, I) = 1..Cardinality(I)
           /\ \A k \in DOMAIN Picked(s, I) : \E i \in I : Picked(s, I)[k] = s[i]
           /\ \A i \in I : \E k \in DOMAIN Picked(s, I) : Picked(s, I)[k] = s[i]
<1>1. Cardinality(I) \in Nat /\ DOMAIN Picked(s, I) = 1..Cardinality(I)
  BY RanksAreDistinct DEF Picked
<1>2. ASSUME NEW k \in 1..Cardinality(I) PROVE \E i \in I : Picked(s, I)[k] = s[i]
  BY <1>2, PositionOfRank DEF Picked
<1>3. ASSUME NEW i \in I PROVE \E k \in 1..Cardinality(I) : Picked(s, I)[k] = s[i]
  <2>1. Rank(I, i) \in 1..Cardinality(I)
    BY RanksAreDistinct
  <2>2. PositionAt(I, Rank(I, i)) \in I /\ Rank(I, PositionAt(I, Rank(I, i))) = Rank(I, i)
    BY <2>1, PositionOfRank
  <2>3. PositionAt(I, Rank(I, i)) = i
    BY <2>2, RanksAreDistinct
  <2> QED
    BY <2>1, <2>3 DEF Picked
<1> QED
  BY <1>1, <1>2, <1>3

LEMMA PickedIsSeq ==
    ASSUME NEW S, NEW s \in Seq(S), NEW I \in SUBSET DOMAIN s
    PROVE  Picked(s, I) \in Seq(S)
<1>1. Len(s) \in Nat /\ I \in SUBSET (1..Len(s)) /\ DOMAIN s = 1..Len(s)
  OBVIOUS
<1>2. /\ Cardinality(I) \in Nat
      /\ \A k \in 1..Cardinality(I) : \E i \in I : Picked(s, I)[k] = s[i]
  BY <1>1, PickedElements DEF Picked
<1>3. \A k \in 1..Cardinality(I) : Picked(s, I)[k] \in S
  BY <1>1, <1>2
<1>4. Picked(s, I) \in [1..Cardinality(I) -> S]
  BY <1>3 DEF Picked
<1> QED
  BY <1>2, <1>4

LEMMA PickedIsInjective ==
    ASSUME NEW s, NEW n \in Nat, NEW I \in SUBSET (1..n),
           \A i, j \in I : s[i] = s[j] => i = j
    PROVE  IsInjective(Picked(s, I))
<1> SUFFICES ASSUME NEW a \in 1..Cardinality(I), NEW b \in 1..Cardinality(I), Picked(s, I)[a] = Picked(s, I)[b]
             PROVE  a = b
  BY DEF IsInjective, Picked
<1>1. /\ PositionAt(I, a) \in I /\ Rank(I, PositionAt(I, a)) = a
      /\ PositionAt(I, b) \in I /\ Rank(I, PositionAt(I, b)) = b
  BY PositionOfRank
<1>2. s[PositionAt(I, a)] = s[PositionAt(I, b)]
  BY DEF Picked
<1>3. PositionAt(I, a) = PositionAt(I, b)
  BY <1>1, <1>2
<1> QED
  BY <1>1, <1>3
=============================================================================
