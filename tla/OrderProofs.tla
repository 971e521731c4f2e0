---------------------------- MODULE OrderProofs -----------------------------
(***************************************************************************)
(* What other proofs need of the numbers: a set of them has a least one,   *)
(* which is how they argue by induction, and InOrder lists it in order and *)
(* leaves none of it out.                                                  *)
(***************************************************************************)
EXTENDS Order, FiniteSetTheorems, WellFoundedInduction, TLAPS

LEMMA LeastExists ==
  ASSUME NEW S \in SUBSET Nat, S # {}
  PROVE  \E x \in S : \A y \in S : x <= y
  <1>1. PICK x \in S : \A y \in S : ~(<<y, x>> \in OpToRel(<, Nat))
    BY WFMin, NatLessThanWellFounded, Zenon
  <1>2. x \in S /\ \A y \in S : x \in Nat /\ y \in Nat
    OBVIOUS
  <1>3. \A y \in S : ~(y < x)
    BY <1>1, <1>2, Zenon DEF OpToRel
  <1> QED BY <1>2, <1>3

LEMMA PlacesGrow ==
  ASSUME NEW n \in Nat, NEW S \in SUBSET (1 .. n), NEW i \in S
  PROVE  /\ PlaceIn(S, i) \in 0 .. Cardinality(S) - 1
         /\ \A k \in S : i < k => PlaceIn(S, i) < PlaceIn(S, k)
<1>1. IsFiniteSet(S)
  <2>1. IsFiniteSet(1 .. n)
    BY FS_Interval
  <2> QED BY <2>1, FS_Subset
<1> DEFINE Below(k) == {j \in S : j < k}
<1>2. \A k \in S : IsFiniteSet(Below(k)) /\ Cardinality(Below(k)) \in Nat
  <2> TAKE k \in S
  <2>1. Below(k) \in SUBSET S
    OBVIOUS
  <2> HIDE DEF Below
  <2> QED BY <1>1, <2>1, FS_Subset, FS_CardinalityType
<1>3. i \notin Below(i) /\ i \in Int
  OBVIOUS
<1>4. Cardinality(Below(i) \cup {i}) = Cardinality(Below(i)) + 1
      /\ IsFiniteSet(Below(i) \cup {i})
  <2> HIDE DEF Below
  <2> QED BY <1>2, <1>3, FS_AddElement
<1>5. Cardinality(S) \in Nat
  BY <1>1, FS_CardinalityType
<1>6. Cardinality(Below(i)) + 1 <= Cardinality(S)
  <2>1. Below(i) \cup {i} \in SUBSET S
    OBVIOUS
  <2> HIDE DEF Below
  <2> QED BY <1>1, <1>4, <2>1, FS_Subset
<1>7. ASSUME NEW k \in S, i < k
      PROVE  Cardinality(Below(i)) < Cardinality(Below(k))
  <2>1. Below(i) \cup {i} \in SUBSET Below(k)
    <3>1. \A j \in S : j < i => j < k
      BY <1>7
    <3> QED BY <1>7, <3>1
  <2>2. Cardinality(Below(i) \cup {i}) <= Cardinality(Below(k))
    <3> HIDE DEF Below
    <3> QED BY <1>2, <2>1, FS_Subset
  <2> HIDE DEF Below
  <2> QED BY <1>2, <1>4, <2>2
<1>8. \A k \in S : PlaceIn(S, k) = Cardinality(Below(k))
  BY DEF PlaceIn
<1> HIDE DEF Below
<1> QED BY <1>2, <1>5, <1>6, <1>7, <1>8

LEMMA PlacesAreUnique ==
  ASSUME NEW n \in Nat, NEW S \in SUBSET (1 .. n), NEW i \in S, NEW k \in S,
         PlaceIn(S, i) = PlaceIn(S, k)
  PROVE  i = k
<1>1. i \in Int /\ k \in Int
  OBVIOUS
<1>2. PlaceIn(S, i) \in 0 .. Cardinality(S) - 1
      /\ (i < k => PlaceIn(S, i) < PlaceIn(S, k))
  BY PlacesGrow
<1>3. k < i => PlaceIn(S, k) < PlaceIn(S, i)
  BY PlacesGrow
<1>4. PlaceIn(S, i) \in Int /\ PlaceIn(S, k) \in Int
  BY <1>2
<1> QED BY <1>1, <1>2, <1>3, <1>4

LEMMA PlacesAreAll ==
  ASSUME NEW n \in Nat, NEW S \in SUBSET (1 .. n), NEW k \in 1 .. Cardinality(S)
  PROVE  \E i \in S : PlaceIn(S, i) = k - 1
<1>1. IsFiniteSet(S)
  <2>1. IsFiniteSet(1 .. n)
    BY FS_Interval
  <2> QED BY <2>1, FS_Subset
<1>2. Cardinality(S) \in Nat
  BY <1>1, FS_CardinalityType
<1> DEFINE T == 0 .. Cardinality(S) - 1
           place == [i \in S |-> PlaceIn(S, i)]
<1>3. IsFiniteSet(T) /\ Cardinality(T) = Cardinality(S)
  <2>1. 0 \in Int /\ Cardinality(S) - 1 \in Int
    BY <1>2
  <2>2. /\ IsFiniteSet(T)
        /\ Cardinality(T) = IF 0 > Cardinality(S) - 1 THEN 0
                            ELSE (Cardinality(S) - 1) - 0 + 1
    BY <2>1, FS_Interval, Zenon
  <2> QED BY <1>2, <2>2
<1>4. place \in Injection(S, T)
  <2>1. \A i \in S : place[i] \in T
    BY PlacesGrow
  <2>2. \A i, j \in S : place[i] = place[j] => i = j
    BY PlacesAreUnique
  <2> HIDE DEF T
  <2> QED BY <2>1, <2>2 DEF Injection, IsInjective
<1>5. place \in Surjection(S, T)
  <2> HIDE DEF place, T
  <2> QED BY <1>3, <1>4, FS_Injection
<1>6. k - 1 \in T
  BY <1>2
<1>7. \E i \in S : place[i] = k - 1
  <2> HIDE DEF T
  <2> QED BY <1>5, <1>6 DEF Surjection
<1> QED BY <1>7

\* InOrder lists each of the set once, the lesser before the greater.
LEMMA InOrderLists ==
  ASSUME NEW n \in Nat, NEW S \in SUBSET (1 .. n)
  PROVE  /\ IsFiniteSet(S) /\ Cardinality(S) \in Nat
         /\ DOMAIN InOrder(S) = 1 .. Cardinality(S)
         /\ \A k \in 1 .. Cardinality(S) : InOrder(S)[k] \in S
         /\ \A k, l \in 1 .. Cardinality(S) : k < l => InOrder(S)[k] < InOrder(S)[l]
         /\ \A i \in S : \E k \in 1 .. Cardinality(S) : InOrder(S)[k] = i
<1>1. IsFiniteSet(S) /\ Cardinality(S) \in Nat
  <2>1. IsFiniteSet(1 .. n)
    BY FS_Interval
  <2> QED BY <2>1, FS_Subset, FS_CardinalityType
<1> DEFINE pick(k) == CHOOSE i \in S : PlaceIn(S, i) = k - 1
<1>2. DOMAIN InOrder(S) = 1 .. Cardinality(S)
      /\ \A k \in 1 .. Cardinality(S) : InOrder(S)[k] = pick(k)
  BY DEF InOrder
<1>3. \A k \in 1 .. Cardinality(S) : pick(k) \in S /\ PlaceIn(S, pick(k)) = k - 1
  <2> TAKE k \in 1 .. Cardinality(S)
  <2>1. \E i \in S : PlaceIn(S, i) = k - 1
    BY PlacesAreAll
  <2> QED BY <2>1
<1> HIDE DEF pick
<1>4. ASSUME NEW k \in 1 .. Cardinality(S), NEW l \in 1 .. Cardinality(S), k < l
      PROVE  pick(k) < pick(l)
  <2>1. PlaceIn(S, pick(k)) < PlaceIn(S, pick(l))
    BY <1>1, <1>3, <1>4
  <2>2. pick(k) # pick(l)
    BY <1>1, <1>3, <1>4
  <2>3. ~(pick(l) < pick(k))
    <3>1. PlaceIn(S, pick(k)) \in Int /\ PlaceIn(S, pick(l)) \in Int
      BY <1>1, <1>3
    <3>2. pick(l) < pick(k) => PlaceIn(S, pick(l)) < PlaceIn(S, pick(k))
      BY <1>3, PlacesGrow
    <3> QED BY <2>1, <3>1, <3>2
  <2>4. pick(k) \in Int /\ pick(l) \in Int
    <3>1. \A i \in S : i \in Int
      OBVIOUS
    <3> QED BY <1>3, <3>1
  <2> QED BY <2>2, <2>3, <2>4
<1>5. ASSUME NEW i \in S
      PROVE  \E k \in 1 .. Cardinality(S) : pick(k) = i
  <2>1. PlaceIn(S, i) \in 0 .. Cardinality(S) - 1
    BY PlacesGrow
  <2>2. PlaceIn(S, i) + 1 \in 1 .. Cardinality(S)
        /\ (PlaceIn(S, i) + 1) - 1 = PlaceIn(S, i)
    BY <1>1, <2>1
  <2>3. pick(PlaceIn(S, i) + 1) \in S
        /\ PlaceIn(S, pick(PlaceIn(S, i) + 1)) = PlaceIn(S, i)
    BY <1>3, <2>2
  <2>4. pick(PlaceIn(S, i) + 1) = i
    BY <2>3, PlacesAreUnique
  <2> QED BY <2>2, <2>4
<1> QED BY <1>1, <1>2, <1>3, <1>4, <1>5

\* Of an interval it leaves nothing to sort.
LEMMA IntervalInOrder ==
  ASSUME NEW l \in Nat, NEW v \in Nat, l <= v
  PROVE  /\ Cardinality(l + 1 .. v) = v - l
         /\ \A k \in 1 .. v - l : InOrder(l + 1 .. v)[k] = l + k
<1> DEFINE S == l + 1 .. v
<1>1. \A i \in l .. v : Cardinality(l + 1 .. i) = i - l
  <2> TAKE i \in l .. v
  <2>1. l + 1 \in Int /\ i \in Int
    OBVIOUS
  <2>2. Cardinality(l + 1 .. i) = IF l + 1 > i THEN 0 ELSE i - (l + 1) + 1
    BY <2>1, FS_Interval, Zenon
  <2> QED BY <2>2
<1>2. \A i \in S : PlaceIn(S, i) = i - 1 - l
  <2> TAKE i \in S
  <2>1. {j \in S : j < i} = l + 1 .. i - 1
    OBVIOUS
  <2>2. i - 1 \in l .. v
    OBVIOUS
  <2>3. PlaceIn(S, i) = Cardinality(l + 1 .. i - 1)
    BY <2>1 DEF PlaceIn
  <2>4. Cardinality(l + 1 .. i - 1) = i - 1 - l
    BY <1>1, <2>2
  <2> QED BY <2>3, <2>4
<1>3. Cardinality(S) = v - l
  BY <1>1
<1> HIDE DEF S
<1>4. ASSUME NEW k \in 1 .. v - l
      PROVE  InOrder(S)[k] = l + k
  <2>1. InOrder(S)[k] = CHOOSE i \in S : PlaceIn(S, i) = k - 1
    BY <1>3 DEF InOrder
  <2>2. l + k \in S /\ PlaceIn(S, l + k) = k - 1
    <3>1. l + k \in S
      BY DEF S
    <3>2. PlaceIn(S, l + k) = (l + k) - 1 - l
      BY <1>2, <3>1
    <3> QED BY <3>1, <3>2
  <2>3. \A i \in S : PlaceIn(S, i) = k - 1 => i = l + k
    BY <1>2 DEF S
  <2>4. \E i \in S : PlaceIn(S, i) = k - 1
    BY <2>2
  <2> DEFINE i0 == CHOOSE i \in S : PlaceIn(S, i) = k - 1
  <2>5. i0 \in S /\ PlaceIn(S, i0) = k - 1
    BY <2>4
  <2> HIDE DEF i0
  <2>6. i0 = l + k
    BY <2>3, <2>5
  <2> QED BY <2>1, <2>6 DEF i0
<1> QED BY <1>3, <1>4 DEF S

=============================================================================
