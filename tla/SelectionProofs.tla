-------------------------- MODULE SelectionProofs ---------------------------
(* What Selected returns, and the induction these and other proofs need.   *)
EXTENDS Selection, Integers, FiniteSetTheorems, SequenceTheorems, TLAPS

-----------------------------------------------------------------------------
(* Numbers.                                                                *)

\* Every set of numbers that is not empty has a least one.
LEMMA NatLeast ==
  ASSUME NEW S \in SUBSET Nat, S # {}
  PROVE  \E n \in S : \A m \in S : n <= m
<1> DEFINE T == {1..n : n \in S}
<1>1. T \subseteq FiniteSubsetsOf(Nat) /\ T # {}
  <2>1. \A n \in S : IsFiniteSet(1..n) /\ 1..n \subseteq Nat
    BY FS_Interval
  <2> QED
    BY <2>1 DEF FiniteSubsetsOf
<1>2. PICK x \in T : \A y \in T : <<y, x>> \notin StrictSubsetOrdering(Nat)
  BY <1>1, FS_StrictSubsetOrderingWellFounded, WFMin
<1>3. PICK n \in S : x = 1..n
  OBVIOUS
<1>4. ASSUME NEW m \in S PROVE n <= m
  <2>1. <<1..m, 1..n>> \notin StrictSubsetOrdering(Nat)
    BY <1>2, <1>3
  <2>2. SUFFICES ASSUME m < n PROVE FALSE
    OBVIOUS
  <2>3. 1..m \subseteq 1..n /\ n \in 1..n /\ n \notin 1..m
    BY <2>2
  <2>4. <<1..m, 1..n>> \in StrictSubsetOrdering(Nat)
    BY <2>3 DEF StrictSubsetOrdering
  <2>5. QED
    BY <2>1, <2>4
<1>5. QED
  BY <1>4

\* Induction, about a set of numbers.
LEMMA NatSet ==
  ASSUME NEW S, 0 \in S, \A n \in Nat : n \in S => n + 1 \in S
  PROVE  Nat \subseteq S
<1> SUFFICES ASSUME ~(Nat \subseteq S) PROVE FALSE
  OBVIOUS
<1>1. PICK n \in Nat \ S : \A m \in Nat \ S : n <= m
  <2>1. Nat \ S \in SUBSET Nat /\ Nat \ S # {}
    OBVIOUS
  <2> QED BY <2>1, NatLeast
<1>2. n # 0 /\ n - 1 \in Nat /\ (n - 1) + 1 = n
  OBVIOUS
<1>3. n - 1 \in S
  BY <1>1, <1>2
<1> QED
  BY <1>1, <1>2, <1>3

-----------------------------------------------------------------------------
(* Selected.                                                               *)

\* Among the positions of a sequence there is a k-th.
LEMMA Kth ==
  ASSUME NEW size \in Nat, NEW P \in SUBSET (1..size),
         NEW k \in 1..Cardinality(P)
  PROVE  \E i \in P : Cardinality(P \cap 1..i) = k
<1>0. IsFiniteSet(1..size)
  BY FS_Interval
<1>1. IsFiniteSet(P)
  BY <1>0, FS_Subset
<1>2. Cardinality(P) \in Nat
  BY <1>1, FS_CardinalityType
<1>3. \A i \in Nat : IsFiniteSet(P \cap 1..i) /\ Cardinality(P \cap 1..i) \in Nat
  <2> SUFFICES ASSUME NEW i \in Nat
               PROVE  IsFiniteSet(P \cap 1..i)
                      /\ Cardinality(P \cap 1..i) \in Nat
    OBVIOUS
  <2>1. P \cap 1..i \subseteq P
    OBVIOUS
  <2> QED
    BY <1>1, <2>1, FS_Subset, FS_CardinalityType
<1> DEFINE S == {n \in Nat : k <= Cardinality(P \cap 1..n)}
<1>4. size \in S
  <2>1. P \cap 1..size = P
    OBVIOUS
  <2> QED BY <1>2, <2>1
<1>5. PICK n \in S : \A m \in S : n <= m
  <2>1. S \in SUBSET Nat /\ S # {}
    BY <1>4
  <2>. HIDE DEF S
  <2> QED BY <2>1, NatLeast
<1>6. n # 0
  <2>1. P \cap 1..0 = {}
    OBVIOUS
  <2> QED BY <1>2, <2>1, FS_EmptySet
<1>7. n - 1 \in Nat /\ n - 1 \notin S
  BY <1>5, <1>6
<1> DEFINE A == P \cap 1..n - 1
           B == P \cap 1..n
<1>8. Cardinality(A) \in Nat /\ Cardinality(A) < k /\ IsFiniteSet(A)
      /\ k <= Cardinality(B)
  BY <1>2, <1>3, <1>7
<1>9. n \in P
  <2> SUFFICES ASSUME n \notin P PROVE A = B
    BY <1>2, <1>8
  <2>1. 1..n = (1..n - 1) \cup {n}
    BY <1>7
  <2>. HIDE DEF S
  <2> QED BY <2>1
<1>10. B = A \cup {n} /\ n \notin A
  BY <1>7, <1>9
<1>11. Cardinality(B) = Cardinality(A) + 1
  <2>. HIDE DEF A, B
  <2> QED BY <1>8, <1>10, FS_AddElement
<1>12. Cardinality(B) = k
  BY <1>2, <1>8, <1>11
<1> QED
  BY <1>9, <1>12

\* There are finitely many.
LEMMA PositionsFinite ==
  ASSUME NEW size \in Nat, NEW P \in SUBSET (1..size)
  PROVE  IsFiniteSet(P) /\ Cardinality(P) \in Nat
<1>1. IsFiniteSet(1..size)
  BY FS_Interval
<1> QED
  BY <1>1, FS_Subset, FS_CardinalityType

\* The k-th position is one.
LEMMA PlaceType ==
  ASSUME NEW size \in Nat, NEW P \in SUBSET (1..size),
         NEW k \in 1..Cardinality(P)
  PROVE  Place(P, k) \in P /\ Cardinality(P \cap 1..Place(P, k)) = k
BY Kth DEF Place

\* It is a sequence.
LEMMA SelectedType ==
  ASSUME NEW S, NEW seq \in Seq(S), NEW P \in SUBSET DOMAIN seq
  PROVE  /\ Selected(seq, P) \in Seq(S)
         /\ DOMAIN Selected(seq, P) = 1..Cardinality(P)
         /\ Len(Selected(seq, P)) = Cardinality(P) /\ Cardinality(P) \in Nat
<1>1. Len(seq) \in Nat /\ DOMAIN seq = 1..Len(seq) /\ \A i \in DOMAIN seq : seq[i] \in S
  BY LenProperties, ElementOfSeq
<1>2. Cardinality(P) \in Nat
  BY <1>1, PositionsFinite
<1>3. ASSUME NEW k \in 1..Cardinality(P) PROVE Selected(seq, P)[k] \in S
  <2>1. P \in SUBSET (1..Len(seq))
    BY <1>1
  <2>2. Place(P, k) \in P
    BY <1>1, <2>1, PlaceType
  <2> QED BY <1>1, <2>2 DEF Selected
<1>4. Selected(seq, P) \in [1..Cardinality(P) -> S]
  <2>1. Selected(seq, P) = [k \in 1..Cardinality(P) |-> Selected(seq, P)[k]]
    BY DEF Selected
  <2> QED BY <1>3, <2>1
<1> QED
  BY <1>2, <1>4, SeqDef, LenProperties

\* Different positions have different numbers of positions up to them.
LEMMA SamePlace ==
  ASSUME NEW size \in Nat, NEW P \in SUBSET (1..size), NEW i \in P, NEW j \in P,
         Cardinality(P \cap 1..i) = Cardinality(P \cap 1..j)
  PROVE  i = j
<1>2. IsFiniteSet(P)
  BY PositionsFinite
<1>3. ASSUME NEW a \in P, NEW b \in P, a < b
      PROVE  Cardinality(P \cap 1..a) # Cardinality(P \cap 1..b)
  <2>1. P \cap 1..b \subseteq P /\ P \cap 1..a \subseteq P \cap 1..b
        /\ b \in P \cap 1..b /\ b \notin P \cap 1..a
    BY <1>3
  <2>2. IsFiniteSet(P \cap 1..b)
    BY <1>2, <2>1, FS_Subset
  <2> QED
    BY <2>1, <2>2, FS_Subset
<1> QED
  BY <1>3

\* Each position is that of one element.
LEMMA SelectedHas ==
  ASSUME NEW seq, NEW size \in Nat, NEW P \in SUBSET (1..size), NEW i \in P
  PROVE  \E k \in 1..Cardinality(P) : Selected(seq, P)[k] = seq[i]
<1> DEFINE k == Cardinality(P \cap 1..i)
<1>1. i \in 1..size
  OBVIOUS
<1>2. IsFiniteSet(P)
  BY PositionsFinite
<1>. P \cap 1..i \subseteq P /\ i \in P \cap 1..i
  BY <1>1
<1>3. Cardinality(P) \in Nat /\ k \in Nat /\ k <= Cardinality(P)
      /\ IsFiniteSet(P \cap 1..i)
  BY <1>2, FS_Subset, FS_CardinalityType
<1>4. k # 0
  BY <1>2, <1>3, FS_EmptySet
<1>5. k \in 1..Cardinality(P)
  BY <1>3, <1>4
<1>6. Place(P, k) \in P /\ Cardinality(P \cap 1..Place(P, k)) = k
  <2>. HIDE DEF k
  <2> QED BY <1>5, PlaceType
<1>7. Place(P, k) = i
  BY <1>6, SamePlace
<1> QED
  BY <1>5, <1>7 DEF Selected

\* Different ones give different elements, if those of the sequence differ.
LEMMA SelectedOnce ==
  ASSUME NEW seq, NEW size \in Nat, NEW P \in SUBSET (1..size),
         \A i, j \in P : seq[i] = seq[j] => i = j,
         NEW k \in 1..Cardinality(P), NEW m \in 1..Cardinality(P),
         Selected(seq, P)[k] = Selected(seq, P)[m]
  PROVE  k = m
<1>1. Place(P, k) \in P /\ Cardinality(P \cap 1..Place(P, k)) = k
  BY PlaceType
<1>2. Place(P, m) \in P /\ Cardinality(P \cap 1..Place(P, m)) = m
  BY PlaceType
<1>3. Place(P, k) = Place(P, m)
  BY <1>1, <1>2 DEF Selected
<1> QED
  BY <1>1, <1>2, <1>3

\* So none is there twice.
LEMMA SelectedDifferent ==
  ASSUME NEW seq, NEW size \in Nat, NEW P \in SUBSET (1..size),
         \A i, j \in P : seq[i] = seq[j] => i = j
  PROVE  \A k, m \in DOMAIN Selected(seq, P) :
           Selected(seq, P)[k] = Selected(seq, P)[m] => k = m
<1>1. DOMAIN Selected(seq, P) = 1..Cardinality(P)
  BY DEF Selected
<1> QED
  BY <1>1, SelectedOnce

\* A function that is a sequence, whatever its elements.
IsListing(seq) == \E n \in Nat : seq = [k \in 1..n |-> seq[k]]

\* What is selected is a sequence.
LEMMA SelectedSequence ==
  ASSUME NEW seq, NEW size \in Nat, NEW P \in SUBSET (1..size)
  PROVE  IsListing(Selected(seq, P))
<1>1. Cardinality(P) \in Nat
  BY PositionsFinite
<1>2. Selected(seq, P) = [k \in 1..Cardinality(P) |-> Selected(seq, P)[k]]
  BY DEF Selected
<1> QED
  BY <1>1, <1>2 DEF IsListing

\* The members are those at the positions.
LEMMA SelectedMembers ==
  ASSUME NEW seq, NEW size \in Nat, NEW P \in SUBSET (1..size)
  PROVE  Members(Selected(seq, P)) = {seq[i] : i \in P}
<1>1. DOMAIN Selected(seq, P) = 1..Cardinality(P)
  BY DEF Selected
<1>2. ASSUME NEW x \in Members(Selected(seq, P)) PROVE x \in {seq[i] : i \in P}
  <2>1. PICK k \in 1..Cardinality(P) : x = Selected(seq, P)[k]
    BY <1>1 DEF Members
  <2>2. Place(P, k) \in P
    BY PlaceType
  <2> QED BY <2>1, <2>2 DEF Selected
<1>3. ASSUME NEW i \in P PROVE seq[i] \in Members(Selected(seq, P))
  <2>1. PICK k \in 1..Cardinality(P) : Selected(seq, P)[k] = seq[i]
    BY SelectedHas
  <2> QED BY <1>1, <2>1 DEF Members
<1> QED
  BY <1>2, <1>3
=============================================================================
