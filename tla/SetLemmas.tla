----------------------------- MODULE SetLemmas ------------------------------
(***************************************************************************)
(* What the provers need to know of Min and Max, which the library defines *)
(* by CHOOSE: where a least or a greatest element exists, and what it is   *)
(* for the sets of two numbers by which the models write saturating        *)
(* subtraction and clamping.  Then what the proofs of both submitters need *)
(* of their queue, PendingTxs.                                             *)
(***************************************************************************)
EXTENDS PendingTxs, FiniteSetTheorems, WellFoundedInduction, TLAPS

(* A set of naturals that is not empty has a least element: the first id   *)
(* of RouteCursor's window, the first block of a range.                    *)
LEMMA LeastExists ==
  ASSUME NEW S, S \subseteq Nat, S # {}
  PROVE  \E x \in S : \A y \in S : x <= y
  <1>1. PICK x \in S : \A y \in S : ~(<<y, x>> \in OpToRel(<, Nat))
    <2> DEFINE R == OpToRel(<, Nat)
    <2>1. IsWellFoundedOn(R, Nat)
      BY NatLessThanWellFounded, Zenon
    <2> HIDE DEF R
    <2>2. \E x \in S : \A y \in S : ~(<<y, x>> \in R)
      BY <2>1, WFMin, Zenon
    <2> QED
      BY <2>2, Zenon DEF R
  <1>2. \A y \in S : ~(y < x)
    BY <1>1 DEF OpToRel
  <1> QED
    BY <1>2

(* Min finds it. *)
LEMMA MinProperty ==
  ASSUME NEW S, S \subseteq Nat, S # {}
  PROVE  Min(S) \in S /\ \A y \in S : Min(S) <= y
  BY LeastExists, Zenon DEF Min

(* A set of naturals below a bound has a greatest element: the last record *)
(* of the directory, the head of the chain.                                *)
LEMMA MaxProperty ==
  ASSUME NEW S, S \subseteq Nat, S # {}, NEW n \in Nat, \A x \in S : x <= n
  PROVE  Max(S) \in S /\ \A y \in S : Max(S) >= y
  <1> DEFINE T == {k \in Nat : n - k \in S}
  <1>1. T \subseteq Nat /\ T # {}
    <2>1. PICK x \in S : TRUE
      OBVIOUS
    <2>2. n - x \in Nat /\ n - (n - x) = x
      BY <2>1
    <2> QED
      BY <2>1, <2>2
  <1>2. PICK k \in T : \A j \in T : k <= j
    BY <1>1, LeastExists
  <1>3. n - k \in S
    BY <1>2
  <1>4. ASSUME NEW y \in S PROVE n - k >= y
    <2>1. y \in Nat /\ n - y \in Nat /\ n - (n - y) = y
      BY <1>4
    <2>2. k <= n - y
      BY <1>2, <2>1
    <2> QED
      BY <2>1, <2>2, <1>2
  <1>5. \E x \in S : \A y \in S : x >= y
    BY <1>3, <1>4
  <1> QED
    BY <1>5, Zenon DEF Max

(* Of two numbers: u64::saturating_sub, min and max. *)
LEMMA MinOfTwo ==
  ASSUME NEW a \in Int, NEW b \in Int
  PROVE  Min({a, b}) = IF a <= b THEN a ELSE b
  BY DEF Min

(* The greater of two numbers. *)
LEMMA MaxOfTwo ==
  ASSUME NEW a \in Int, NEW b \in Int
  PROVE  Max({a, b}) = IF a >= b THEN a ELSE b
  BY DEF Max

-----------------------------------------------------------------------------
(* A finite set of naturals that is not empty has a greatest element.  The *)
(* library's induction over finite sets cannot be instantiated here, so:   *)
(* among the sets without one, none can be of the least size.              *)
LEMMA FiniteMaxExists ==
  ASSUME NEW S, S \subseteq Nat, S # {}, IsFiniteSet(S)
  PROVE  \E x \in S : \A y \in S : x >= y
  <1> DEFINE NoMax(T) == T \subseteq Nat /\ T # {} /\ IsFiniteSet(T)
                         /\ ~ \E x \in T : \A y \in T : x >= y
             Sizes == {n \in Nat : \E T \in SUBSET Nat :
                                     NoMax(T) /\ Cardinality(T) = n}
  <1> SUFFICES ASSUME NoMax(S) PROVE FALSE
    OBVIOUS
  <1>1. Sizes \subseteq Nat /\ Sizes # {}
    <2>1. Cardinality(S) \in Nat
      BY FS_CardinalityType
    <2> QED
      BY <2>1
  <1>2. PICK n \in Sizes : \A k \in Sizes : n <= k
    BY <1>1, LeastExists
  <1>3. PICK T \in SUBSET Nat : NoMax(T) /\ Cardinality(T) = n
    BY <1>2
  <1>4. PICK x \in T : TRUE
    BY <1>3
  <1> DEFINE U == T \ {x}
  <1>5. IsFiniteSet(U) /\ Cardinality(U) = n - 1 /\ n \in Nat
    BY <1>2, <1>3, <1>4, FS_RemoveElement
  <1>6. CASE U = {}
    <2>1. T = {x} /\ x \in Nat
      BY <1>3, <1>4, <1>6
    <2> QED
      BY <1>3, <2>1
  <1>7. CASE U # {}
    <2>1. \E y \in U : \A z \in U : y >= z
      <3> SUFFICES ASSUME ~ \E y \in U : \A z \in U : y >= z PROVE FALSE
        OBVIOUS
      <3>1. U \in SUBSET Nat /\ NoMax(U)
        BY <1>3, <1>5, <1>7
      <3>2. Cardinality(U) \in Nat
        BY <1>5, FS_CardinalityType
      <3>3. Cardinality(U) \in Sizes
        BY <3>1, <3>2
      <3> HIDE DEF Sizes, U
      <3>4. n <= Cardinality(U)
        BY <1>2, <3>3
      <3> QED
        BY <1>5, <3>4
    <2>2. PICK y \in U : \A z \in U : y >= z
      BY <2>1
    <2>3. x \in Nat /\ y \in Nat /\ y \in T /\ \A z \in T : z \in Nat /\ (z = x \/ y >= z)
      BY <1>3, <1>4, <2>2
    <2>4. CASE x >= y
      <3>1. \A z \in T : x >= z
        BY <2>3, <2>4
      <3> QED
        BY <1>3, <1>4, <3>1
    <2>5. CASE y >= x
      <3>1. \A z \in T : y >= z
        BY <2>3, <2>5
      <3> QED
        BY <1>3, <2>3, <3>1
    <2> QED
      BY <2>3, <2>4, <2>5
  <1> QED
    BY <1>6, <1>7

-----------------------------------------------------------------------------
(* The latest number of the queue is a natural, so a transaction inserted  *)
(* after it is tracked.                                                    *)
LEMMA LatestIsNat ==
  ASSUME NEW Txs, IsFiniteSet(Txs), Txs # {}, NEW seen \in [Txs -> Nat]
  PROVE  Max({seen[t] : t \in DOMAIN seen}) \in Nat
  <1> DEFINE V == {seen[t] : t \in Txs}
  <1>1. V \subseteq Nat /\ V # {}
    OBVIOUS
  <1>2. seen \in Surjection(Txs, V)
    BY DEF Surjection
  <1>3. IsFiniteSet(V)
    BY <1>2, FS_Surjection
  <1>4. \E x \in V : \A y \in V : x >= y
    BY <1>1, <1>3, FiniteMaxExists
  <1>5. Max(V) \in V
    BY <1>4, Zenon DEF Max
  <1>6. DOMAIN seen = Txs
    OBVIOUS
  <1> QED
    BY <1>1, <1>5, <1>6

(* PendingTxs::insert tracks what it is given and keeps the rest. *)
LEMMA InsertProperty ==
  ASSUME NEW Txs, IsFiniteSet(Txs), NEW seen \in [Txs -> Nat], NEW new \in SUBSET Txs
  PROVE  /\ Insert(seen, new) \in [Txs -> Nat]
         /\ Tracked(Insert(seen, new)) = Tracked(seen) \cup new
  <1>1. CASE Txs = {}
    BY <1>1 DEF Insert, Tracked
  <1>2. CASE Txs # {}
    <2> DEFINE latest == Max({seen[t] : t \in DOMAIN seen})
    <2>1. latest \in Nat
      BY <1>2, LatestIsNat
    <2>2. Insert(seen, new) = [t \in Txs |-> IF t \in new THEN latest + 1 ELSE seen[t]]
      BY DEF Insert
    <2> HIDE DEF latest
    <2> QED
      BY <2>1, <2>2 DEF Tracked
  <1> QED
    BY <1>1, <1>2

(* PendingTxs::remove. *)
LEMMA RemoveProperty ==
  ASSUME NEW Txs, NEW seen \in [Txs -> Nat], NEW gone
  PROVE  /\ Remove(seen, gone) \in [Txs -> Nat]
         /\ Tracked(Remove(seen, gone)) = Tracked(seen) \ gone
  BY DEF Remove, Tracked

(* An eviction brings the queue under its cap and takes from nowhere else. *)
LEMMA EvictionsProperty ==
  ASSUME NEW Txs, IsFiniteSet(Txs), NEW seen \in [Txs -> Nat],
         NEW cap \in Nat, NEW E \in Evictions(seen, cap)
  PROVE  /\ E \subseteq Tracked(seen)
         /\ Cardinality(Tracked(seen) \ E) <= cap
  <1> DEFINE T == Tracked(seen)
             n == Cardinality(T)
  <1>1. IsFiniteSet(T) /\ n \in Nat
    <2>1. T \in SUBSET Txs
      BY DEF Tracked
    <2> QED
      BY <2>1, FS_Subset, FS_CardinalityType
  <1>2. E \in SUBSET T /\ Cardinality(E) = Min({Max({0, n - cap}), n})
    BY DEF Evictions, OldestOf
  <1> HIDE DEF T
  <1>3. Cardinality(T \ E) = n - Cardinality(E)
    <2>1. T \cap E = E
      BY <1>2
    <2> QED
      BY <1>1, <2>1, FS_Difference
  <1>4. Max({0, n - cap}) = IF 0 >= n - cap THEN 0 ELSE n - cap
    BY <1>1, MaxOfTwo
  <1>5. Cardinality(E) = IF 0 >= n - cap THEN 0 ELSE n - cap
    BY <1>1, <1>2, <1>4, MinOfTwo
  <1> QED
    BY <1>1, <1>2, <1>3, <1>5 DEF T

(* The saved cursor is not ahead of the one in memory and lies below every *)
(* block that is still held.                                               *)
LEMMA HoldBackProperty ==
  ASSUME NEW l \in Nat, NEW B, B \subseteq Nat \ {0}
  PROVE  /\ HoldBack(l, B) \in Nat /\ HoldBack(l, B) <= l
         /\ \A b \in B : HoldBack(l, B) < b
  <1> DEFINE S == {l} \cup {b - 1 : b \in B}
  <1>1. S \subseteq Nat /\ S # {}
    OBVIOUS
  <1>2. Min(S) \in S /\ \A y \in S : Min(S) <= y
    BY <1>1, MinProperty
  <1>3. HoldBack(l, B) = Min(S)
    BY DEF HoldBack
  <1>4. l \in S /\ \A b \in B : b - 1 \in S
    OBVIOUS
  <1> HIDE DEF S
  <1>5. Min(S) \in Nat /\ Min(S) <= l
    BY <1>1, <1>2, <1>4
  <1>6. ASSUME NEW b \in B PROVE Min(S) < b
    <2>1. b \in Nat /\ Min(S) <= b - 1
      BY <1>2, <1>4
    <2> QED
      BY <1>5, <2>1
  <1> QED
    BY <1>3, <1>5, <1>6

=============================================================================
