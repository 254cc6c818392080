-------------------------- MODULE PositionsProofs --------------------------
(***************************************************************************)
(* Facts about Positions, for positions of a sequence of any length.  That *)
(* there is an element of every rank needs that every set of naturals has  *)
(* a least element, which the well-foundedness of < gives.                 *)
(***************************************************************************)
EXTENDS Positions, FiniteSetTheorems, WellFoundedInduction, TLAPS

LEMMA LeastNatural ==
    ASSUME NEW S \in SUBSET Nat, S # {}
    PROVE  \E n \in S : \A m \in S : n <= m
<1>1. PICK n \in S : \A m \in S : ~(<<m, n>> \in OpToRel(<, Nat))
  BY NatLessThanWellFounded, WFMin
<1>2. \A m \in S : ~(m < n)
  BY <1>1 DEF OpToRel
<1> QED BY <1>2

LEMMA RankFacts ==
    ASSUME NEW n \in Nat, NEW P \in SUBSET (1..n)
    PROVE  /\ IsFiniteSet(P) /\ Cardinality(P) \in Nat
           /\ \A i \in Nat : Rank(P, i) \in Nat /\ Rank(P, i) <= Cardinality(P)
           /\ \A i \in Nat, j \in P : i < j => Rank(P, i) < Rank(P, j)
           /\ \A i \in Nat, j \in Nat : i <= j => Rank(P, i) <= Rank(P, j)
           /\ Rank(P, 0) = 0 /\ Rank(P, n) = Cardinality(P)
           /\ \A i \in Nat : Rank(P, i + 1) = IF i + 1 \in P THEN Rank(P, i) + 1 ELSE Rank(P, i)
<1> DEFINE Upto(i) == {j \in P : j <= i}
<1>0. \A j \in P : j \in Nat /\ 1 <= j /\ j <= n
  OBVIOUS
<1>1. IsFiniteSet(P) /\ Cardinality(P) \in Nat
  <2>1. IsFiniteSet(1..n)
    BY FS_Interval
  <2>2. IsFiniteSet(P)
    BY <2>1, FS_Subset
  <2> QED BY <2>2, FS_CardinalityType
<1>2. ASSUME NEW i \in Nat
      PROVE  /\ IsFiniteSet(Upto(i)) /\ Cardinality(Upto(i)) \in Nat
             /\ Cardinality(Upto(i)) <= Cardinality(P)
  <2>1. Upto(i) \in SUBSET P
    OBVIOUS
  <2> HIDE DEF Upto
  <2>2. IsFiniteSet(Upto(i)) /\ Cardinality(Upto(i)) <= Cardinality(P)
    BY <1>1, <2>1, FS_Subset
  <2> QED BY <2>2, FS_CardinalityType
<1>3. ASSUME NEW i \in Nat, NEW j \in Nat, i <= j
      PROVE  /\ Cardinality(Upto(i)) <= Cardinality(Upto(j))
             /\ Cardinality(Upto(i)) = Cardinality(Upto(j)) => Upto(i) = Upto(j)
  <2>1. Upto(i) \in SUBSET Upto(j)
    <3>1. \A x \in P : x <= i => x <= j
      BY <1>0, <1>3
    <3> QED BY <3>1
  <2>2. IsFiniteSet(Upto(j))
    BY <1>2
  <2> HIDE DEF Upto
  <2> QED BY <2>1, <2>2, FS_Subset
<1>4. \A i \in Nat : Rank(P, i) \in Nat /\ Rank(P, i) <= Cardinality(P)
  BY <1>2 DEF Rank
<1>5. \A i \in Nat, j \in Nat : i <= j => Rank(P, i) <= Rank(P, j)
  BY <1>3 DEF Rank
<1>6. ASSUME NEW i \in Nat, NEW j \in P, i < j PROVE Rank(P, i) < Rank(P, j)
  <2>1. j \in Nat /\ i <= j
    BY <1>6
  <2>2. j \in Upto(j) /\ j \notin Upto(i)
    BY <1>6, <2>1
  <2> HIDE DEF Upto
  <2>3. /\ Cardinality(Upto(i)) <= Cardinality(Upto(j))
        /\ Cardinality(Upto(i)) # Cardinality(Upto(j))
    BY <1>3, <2>1, <2>2
  <2>4. Cardinality(Upto(i)) \in Nat /\ Cardinality(Upto(j)) \in Nat
    BY <1>2, <2>1
  <2>5. Cardinality(Upto(i)) < Cardinality(Upto(j))
    BY <2>3, <2>4
  <2> QED BY <2>5 DEF Rank, Upto
<1>7. Rank(P, 0) = 0
  <2>1. {j \in P : j <= 0} = {}
    <3>1. \A j \in P : ~(j <= 0)
      BY <1>0
    <3> QED BY <3>1
  <2> QED BY <2>1, FS_EmptySet DEF Rank
<1>8. Rank(P, n) = Cardinality(P)
  <2>1. {j \in P : j <= n} = P
    BY <1>0
  <2> QED BY <2>1 DEF Rank
<1>9. ASSUME NEW i \in Nat
      PROVE  Rank(P, i + 1) = IF i + 1 \in P THEN Rank(P, i) + 1 ELSE Rank(P, i)
  <2>1. CASE i + 1 \in P
    <3>1. Upto(i + 1) = Upto(i) \cup {i + 1} /\ i + 1 \notin Upto(i)
      <4>1. \A j \in P : j <= i + 1 <=> j <= i \/ j = i + 1
        BY <1>0
      <4>2. ~(i + 1 <= i)
        OBVIOUS
      <4> QED BY <2>1, <4>1, <4>2
    <3>2. IsFiniteSet(Upto(i))
      BY <1>2
    <3> HIDE DEF Upto
    <3>3. Cardinality(Upto(i) \cup {i + 1}) = Cardinality(Upto(i)) + 1
      BY <3>1, <3>2, FS_AddElement
    <3> QED BY <2>1, <3>1, <3>3 DEF Rank, Upto
  <2>2. CASE i + 1 \notin P
    <3>1. Upto(i + 1) = Upto(i)
      <4>1. \A j \in P : j <= i + 1 <=> j <= i
        BY <1>0, <2>2
      <4> QED BY <4>1
    <3> QED BY <2>2, <3>1 DEF Rank
  <2> QED BY <2>1, <2>2
<1> QED BY <1>1, <1>4, <1>5, <1>6, <1>7, <1>8, <1>9

\* There is an element of every rank, and one only.
LEMMA NthFacts ==
    ASSUME NEW n \in Nat, NEW P \in SUBSET (1..n)
    PROVE  /\ Cardinality(P) \in Nat
           /\ \A k \in 1..Cardinality(P) : Nth(P, k) \in P /\ Rank(P, Nth(P, k)) = k
           /\ \A k, l \in 1..Cardinality(P) : k < l => Nth(P, k) < Nth(P, l)
           /\ \A i \in P : Rank(P, i) \in 1..Cardinality(P) /\ Nth(P, Rank(P, i)) = i
           /\ \A i, j \in P : i < j => Rank(P, i) < Rank(P, j)
<1>1. P \subseteq Nat
  OBVIOUS
<1>2. ASSUME NEW k \in 1..Cardinality(P) PROVE \E i \in P : Rank(P, i) = k
  <2> DEFINE K == {i \in 0..n : k <= Rank(P, i)}
  <2>1. n \in K
    BY <1>2, RankFacts
  <2>2. K \in SUBSET Nat /\ K # {}
    BY <2>1
  <2>3. PICK i \in K : \A m \in K : i <= m
    <3> HIDE DEF K
    <3> QED BY <2>2, LeastNatural
  <2>4. i \in 0..n /\ k <= Rank(P, i) /\ Rank(P, i) \in Nat
    BY <2>3, RankFacts
  <2>5. i # 0
    BY <1>2, <2>4, RankFacts
  <2> DEFINE h == i - 1
  <2>6. h \in Nat /\ h \in 0..n /\ i = h + 1 /\ ~(i <= h)
    BY <2>4, <2>5
  <2>7. h \notin K
    BY <2>3, <2>6
  <2>8. Rank(P, h) \in Nat /\ Rank(P, h) < k
    BY <1>2, <2>6, <2>7, RankFacts
  <2> HIDE DEF h, K
  <2>9. Rank(P, h + 1) = IF h + 1 \in P THEN Rank(P, h) + 1 ELSE Rank(P, h)
    BY <2>6, RankFacts
  <2>10. i \in P /\ Rank(P, i) = k
    BY <1>2, <2>4, <2>6, <2>8, <2>9
  <2> QED BY <2>10
<1>3. \A k \in 1..Cardinality(P) : Nth(P, k) \in P /\ Rank(P, Nth(P, k)) = k
  <2>1. \A k \in 1..Cardinality(P) : Nth(P, k) = CHOOSE i \in P : Rank(P, i) = k
    BY DEF Nth
  <2> QED BY <1>2, <2>1
<1>4. \A i, j \in P : i < j => Rank(P, i) < Rank(P, j)
  BY <1>1, RankFacts
<1>5. \A i \in P : Rank(P, i) \in Nat /\ Rank(P, i) <= Cardinality(P)
  BY <1>1, RankFacts
<1>6. Cardinality(P) \in Nat
  BY RankFacts
<1>7. ASSUME NEW i \in P PROVE Rank(P, i) \in 1..Cardinality(P) /\ Nth(P, Rank(P, i)) = i
  <2>1. Rank(P, 0) < Rank(P, i) /\ Rank(P, 0) = 0
    BY <1>1, RankFacts
  <2>2. Rank(P, i) \in 1..Cardinality(P)
    BY <1>5, <1>6, <2>1
  <2>3. Nth(P, Rank(P, i)) \in P /\ Rank(P, Nth(P, Rank(P, i))) = Rank(P, i)
    BY <1>3, <2>2
  <2>4. \A a, b \in P : Rank(P, a) = Rank(P, b) => a = b
    <3>1. \A a, b \in P : a < b \/ b < a \/ a = b
      BY <1>1
    <3> QED BY <1>4, <1>5, <3>1
  <2> QED BY <2>2, <2>3, <2>4
<1>8. ASSUME NEW k \in 1..Cardinality(P), NEW l \in 1..Cardinality(P), k < l
      PROVE  Nth(P, k) < Nth(P, l)
  <2>1. /\ Nth(P, k) \in P /\ Nth(P, l) \in P
        /\ Rank(P, Nth(P, k)) = k /\ Rank(P, Nth(P, l)) = l
    BY <1>3
  <2>2. Nth(P, k) \in Nat /\ Nth(P, l) \in Nat
    BY <1>1, <2>1
  <2>3. Nth(P, k) < Nth(P, l) \/ Nth(P, l) < Nth(P, k) \/ Nth(P, k) = Nth(P, l)
    BY <2>2
  <2>4. ~(Nth(P, l) < Nth(P, k))
    <3>1. Nth(P, l) < Nth(P, k) => l < k
      BY <1>4, <2>1
    <3> QED BY <1>6, <1>8, <3>1
  <2>5. Nth(P, k) # Nth(P, l)
    BY <1>6, <1>8, <2>1
  <2> QED BY <2>3, <2>4, <2>5
<1> QED BY <1>3, <1>4, <1>6, <1>7, <1>8

LEMMA PickedType ==
    ASSUME NEW S, NEW q \in Seq(S), NEW P \in SUBSET (DOMAIN q)
    PROVE  /\ Picked(q, P) \in Seq(S)
           /\ Len(Picked(q, P)) = Cardinality(P) /\ Cardinality(P) \in Nat
           /\ DOMAIN Picked(q, P) = 1..Cardinality(P)
           /\ \A k \in 1..Cardinality(P) : Picked(q, P)[k] = q[Nth(P, k)] /\ Nth(P, k) \in P
<1>1. DOMAIN q = 1..Len(q) /\ Len(q) \in Nat
  OBVIOUS
<1>2. /\ Cardinality(P) \in Nat
      /\ \A k \in 1..Cardinality(P) : Nth(P, k) \in P
  BY <1>1, NthFacts
<1>3. \A k \in 1..Cardinality(P) : q[Nth(P, k)] \in S
  BY <1>1, <1>2
<1>4. Picked(q, P) = [k \in 1..Cardinality(P) |-> q[Nth(P, k)]]
  BY DEF Picked
<1>5. Picked(q, P) \in Seq(S) /\ Len(Picked(q, P)) = Cardinality(P)
  BY <1>2, <1>3, <1>4
<1> QED BY <1>2, <1>4, <1>5
=============================================================================
