---- MODULE InductionFacts ----
(***************************************************************************)
(* Induction over numbers and sequences, stated about sets: a theorem with *)
(* an operator as parameter could not be used by the provers at hand.  It  *)
(* rests on the finite intervals 1..n, which are well founded by inclusion.*)
(* And the rank of a number in a finite set of numbers.                    *)
(***************************************************************************)
EXTENDS Naturals, Sequences, FiniteSetTheorems, SequenceTheorems, WellFoundedInduction, TLAPS

\* A set of numbers that is not empty has a least one.
LEMMA NatMin ==
  ASSUME NEW T \in SUBSET Nat, T # {}
  PROVE  \E x \in T : \A y \in T : ~(y < x)
<1> DEFINE R == StrictSubsetOrdering(Nat)
           I == {1..n : n \in T}
<1>1. IsWellFoundedOn(R, FiniteSubsetsOf(Nat))
  BY FS_StrictSubsetOrderingWellFounded
<1>2. \A n \in T : IsFiniteSet(1..n) /\ 1..n \in SUBSET Nat
  BY FS_Interval
<1>3. I \subseteq FiniteSubsetsOf(Nat) /\ I # {}
  BY <1>2 DEF FiniteSubsetsOf
<1>4. PICK i \in I : \A j \in I : ~(<<j, i>> \in R)
  <2> HIDE DEF R, I
  <2> QED
    BY <1>1, <1>3, WFMin
<1>5. PICK x \in T : i = 1..x
  OBVIOUS
<1>6. ASSUME NEW y \in T, y < x PROVE FALSE
  <2>1. 1..y \in I
    OBVIOUS
  <2>2. 1..y \subseteq 1..x /\ x \in 1..x /\ x \notin 1..y
    BY <1>6
  <2>3. <<1..y, i>> \in R
    BY <1>5, <2>2 DEF StrictSubsetOrdering
  <2> QED
    BY <1>4, <2>1, <2>3
<1> QED
  BY <1>6

\* A set with zero and every successor of its members has every number.
THEOREM SetInduction ==
  ASSUME NEW S, 0 \in S, \A n \in Nat : n \in S => n + 1 \in S
  PROVE  \A n \in Nat : n \in S
<1> SUFFICES ASSUME NEW T \in SUBSET Nat, T = Nat \ S, T # {}
             PROVE  FALSE
  OBVIOUS
<1>1. PICK x \in T : \A y \in T : ~(y < x)
  BY NatMin
<1>2. x # 0 /\ x - 1 \in Nat /\ x - 1 < x /\ x = (x - 1) + 1
  BY <1>1
<1>3. x - 1 \in S
  BY <1>1, <1>2
<1> QED
  BY <1>2, <1>3

\* A set with the empty sequence that is closed under Append has every
\* sequence.
THEOREM SequenceInduction ==
  ASSUME NEW S, NEW T, <<>> \in T,
         \A s \in Seq(S), e \in S : s \in T => Append(s, e) \in T
  PROVE  Seq(S) \subseteq T
<1> DEFINE N == {n \in Nat : \A s \in Seq(S) : Len(s) = n => s \in T}
<1>1. 0 \in N
  <2>1. \A s \in Seq(S) : Len(s) = 0 => s = <<>>
    BY EmptySeq
  <2> QED
    BY <2>1
<1>2. ASSUME NEW n \in Nat, n \in N PROVE n + 1 \in N
  <2> SUFFICES ASSUME NEW s \in Seq(S), Len(s) = n + 1 PROVE s \in T
    OBVIOUS
  <2>1. s # <<>>
    OBVIOUS
  <2>2. PICK t \in Seq(S), e \in S : s = Append(t, e)
    BY <2>1, SequenceEmptyOrAppend
  <2>3. Len(t) = n
    BY <2>2
  <2> QED
    BY <1>2, <2>2, <2>3
<1>3. \A n \in Nat : n \in N
  <2> HIDE DEF N
  <2> QED
    BY <1>1, <1>2, SetInduction
<1>4. ASSUME NEW s \in Seq(S) PROVE s \in T
  <2>1. Len(s) \in N
    BY <1>3
  <2> QED
    BY <2>1
<1> QED
  BY <1>4

----
(* Ranks in a set of numbers.                                              *)

\* How many of the places I are not after i.
Rank(I, i) == Cardinality({j \in I : j <= i})

\* Among places of a sequence there is one of each rank.
LEMMA RankMore ==
  ASSUME NEW l \in Nat, NEW I \in SUBSET (1..l)
  PROVE  /\ IsFiniteSet(I) /\ Cardinality(I) \in Nat
         /\ Cardinality(I \cup {l + 1}) = Cardinality(I) + 1
         /\ \A i \in I : Rank(I \cup {l + 1}, i) = Rank(I, i)
         /\ \A i \in I : Rank(I, i) \in Nat /\ Rank(I, i) <= Cardinality(I)
         /\ Rank(I \cup {l + 1}, l + 1) = Cardinality(I) + 1
<1>1. IsFiniteSet(I) /\ Cardinality(I) \in Nat
  <2>1. IsFiniteSet(1..l)
    BY FS_Interval
  <2> QED
    BY <2>1, FS_Subset, FS_CardinalityType
<1>2. Cardinality(I \cup {l + 1}) = Cardinality(I) + 1
  BY <1>1, FS_AddElement
<1>3. ASSUME NEW i \in I
      PROVE  /\ Rank(I \cup {l + 1}, i) = Rank(I, i)
             /\ Rank(I, i) \in Nat /\ Rank(I, i) <= Cardinality(I)
  <2>1. {j \in I \cup {l + 1} : j <= i} = {j \in I : j <= i}
    OBVIOUS
  <2>2. {j \in I : j <= i} \subseteq I
    OBVIOUS
  <2>3. /\ Cardinality({j \in I : j <= i}) \in Nat
        /\ Cardinality({j \in I : j <= i}) <= Cardinality(I)
    BY <1>1, <2>2, FS_Subset, FS_CardinalityType
  <2> QED
    BY <2>1, <2>3 DEF Rank
<1>4. {j \in I \cup {l + 1} : j <= l + 1} = I \cup {l + 1}
  <2>1. \A j \in I \cup {l + 1} : j <= l + 1
    OBVIOUS
  <2> QED
    BY <2>1, Zenon
<1> QED
  BY <1>1, <1>2, <1>3, <1>4 DEF Rank

\* Each rank up to the number of places is one of them.
LEMMA RankTaken ==
  ASSUME NEW l \in Nat, NEW I \in SUBSET (1..l), NEW n \in 1..Cardinality(I)
  PROVE  \E i \in I : Rank(I, i) = n
<1> DEFINE S == {m \in Nat : \A J \in SUBSET (1..m) : \A r \in 1..Cardinality(J) :
                                \E i \in J : Rank(J, i) = r}
<1>1. 0 \in S
  <2>1. \A J \in SUBSET (1..0) : Cardinality(J) = 0
    <3>1. \A J \in SUBSET (1..0) : J = {}
      OBVIOUS
    <3> QED
      BY <3>1, FS_EmptySet
  <2> QED
    BY <2>1
<1>2. ASSUME NEW m \in Nat, m \in S PROVE m + 1 \in S
  <2> SUFFICES ASSUME NEW J \in SUBSET (1..(m + 1)), NEW r \in 1..Cardinality(J)
               PROVE  \E i \in J : Rank(J, i) = r
    OBVIOUS
  <2>1. CASE m + 1 \notin J
    <3>1. J \in SUBSET (1..m)
      BY <2>1
    <3> QED
      BY <1>2, <3>1
  <2>2. CASE m + 1 \in J
    <3> DEFINE K == J \ {m + 1}
    <3>1. K \in SUBSET (1..m) /\ J = K \cup {m + 1}
      BY <2>2
    <3> HIDE DEF K
    <3>2. Cardinality(J) = Cardinality(K) + 1 /\ Cardinality(K) \in Nat /\ Rank(J, m + 1) = Cardinality(K) + 1
      BY <3>1, RankMore
    <3>3. CASE r = Cardinality(K) + 1
      BY <2>2, <3>2, <3>3
    <3>4. CASE r # Cardinality(K) + 1
      <4>1. r \in 1..Cardinality(K)
        BY <3>2, <3>4
      <4>2. PICK i \in K : Rank(K, i) = r
        BY <1>2, <3>1, <4>1
      <4>3. Rank(J, i) = r /\ i \in J
        BY <3>1, <4>2, RankMore
      <4> QED
        BY <4>3
    <3> QED
      BY <3>3, <3>4
  <2> QED
    BY <2>1, <2>2
<1>3. l \in S
  <2> HIDE DEF S
  <2> QED
    BY <1>1, <1>2, SetInduction
<1> QED
  BY <1>3

====
