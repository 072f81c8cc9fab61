----------------------- MODULE StockReservationProofs -----------------------
(***************************************************************************)
(* Stock reservation conserves units, for any orders, variants and bounds. *)
(* The heart of it is that the held units of a variant are the disjoint    *)
(* union of each order's, so one order's step adds or removes exactly its  *)
(* own share.                                                              *)
(***************************************************************************)
EXTENDS StockReservation, FiniteSetTheorems, TLAPS

\* The units an order holds of a variant, as elements of HeldUnits.
Share(o, n) == {o} \X (1..n)

\* A share has as many elements as the order has units.
LEMMA ShareSize ==
    ASSUME NEW o, NEW n \in Nat
    PROVE  IsFiniteSet(Share(o, n)) /\ Cardinality(Share(o, n)) = n
<1>1. IsFiniteSet({o}) /\ Cardinality({o}) = 1
  BY FS_Singleton
<1>2. IsFiniteSet(1..n) /\ Cardinality(1..n) = n
  BY FS_Interval
<1>3. Cardinality({o} \X (1..n)) = 1 * n
  BY <1>1, <1>2, FS_Product
<1>4. IsFiniteSet({o} \X (1..n))
  BY <1>1, <1>2, FS_Product
<1> QED
  BY <1>3, <1>4 DEF Share

\* Adding a share to a set of units that has none of it adds n units.
LEMMA AddShare ==
    ASSUME NEW S, IsFiniteSet(S), NEW o, NEW n \in Nat, S \cap Share(o, n) = {}
    PROVE  Cardinality(S \cup Share(o, n)) = Cardinality(S) + n
<1>1. Cardinality(S \cup Share(o, n)) =
        Cardinality(S) + Cardinality(Share(o, n)) - Cardinality(S \cap Share(o, n))
  BY ShareSize, FS_Union
<1>2. Cardinality(S \cap Share(o, n)) = 0
  BY FS_EmptySet
<1>3. Cardinality(S) \in Nat
  BY FS_CardinalityType
<1> QED
  BY <1>1, <1>2, <1>3, ShareSize

\* Only finitely many units are held of a variant.
LEMMA HeldFinite == ASSUME NEW v PROVE IsFiniteSet(HeldUnits(v))
<1>1. IsFiniteSet(1..MaxQuantity)
  BY ReservationAssumption, FS_Interval
<1>2. IsFiniteSet(Orders \X (1..MaxQuantity))
  BY <1>1, ReservationAssumption, FS_Product
<1> QED
  BY <1>2, FS_Subset DEF HeldUnits
-----------------------------------------------------------------------------
\* Every table column of the reservation keeps its type: in particular no
\* interleaving of reservations drives a free stock below zero
\* (decrement_variant_stock).
THEOREM Typing == Spec => []TypeOK
<1>1. Init => TypeOK
  BY ReservationAssumption DEF Init, TypeOK, HoldState
<1>2. TypeOK /\ [Next]_vars => TypeOK'
  <2> SUFFICES ASSUME TypeOK, [Next]_vars PROVE TypeOK'
    OBVIOUS
  <2> USE DEF TypeOK, HoldState
  <2>1. ASSUME NEW o \in Orders, NEW wants \in [Variants -> 0..MaxQuantity],
               Reserve(o, wants)
        PROVE  TypeOK'
    <3>1. \A v \in Variants : free[v] - wants[v] \in Nat
      BY <2>1 DEF Reserve
    <3> QED
      BY <2>1, <3>1 DEF Reserve
  <2>2. ASSUME NEW o \in Orders, Release(o) PROVE TypeOK'
    <3>1. \A v \in Variants : free[v] + units[o][v] \in Nat
      OBVIOUS
    <3> QED
      BY <2>2, <3>1 DEF Release
  <2>3. ASSUME NEW o \in Orders, Consume(o) PROVE TypeOK'
    BY <2>3 DEF Consume
  <2>4. ASSUME NEW v \in Variants, Restock(v) PROVE TypeOK'
    BY <2>4, ReservationAssumption DEF Restock
  <2>5. ASSUME NEW v \in Variants, Delist(v) PROVE TypeOK'
    BY <2>5 DEF Delist
  <2>6. CASE UNCHANGED vars
    BY <2>6 DEF vars
  <2> QED
    BY <2>1, <2>2, <2>3, <2>4, <2>5, <2>6 DEF Next
<1> QED
  BY <1>1, <1>2, PTL DEF Spec
-----------------------------------------------------------------------------
\* Reserving moves the order's units from free to held.
LEMMA ReserveConserves ==
    ASSUME TypeOK, NEW o \in Orders, NEW wants \in [Variants -> 0..MaxQuantity],
           Reserve(o, wants), NEW v \in Variants
    PROVE  Total(v)' = Total(v)
<1> DEFINE n == wants[v]
<1>1. n \in 0..MaxQuantity /\ n \in Nat
  BY ReservationAssumption
<1>2. HeldUnits(v)' = HeldUnits(v) \cup Share(o, n)
  <2>1. ASSUME NEW q \in Orders, NEW k \in 1..MaxQuantity
        PROVE  <<q, k>> \in HeldUnits(v)' <=>
                 <<q, k>> \in HeldUnits(v) \cup Share(o, n)
    <3>1. CASE q = o
      BY <1>1, <3>1, ReservationAssumption DEF Reserve, HeldUnits, Share, TypeOK
    <3>2. CASE q # o
      BY <3>2 DEF Reserve, HeldUnits, Share, TypeOK
    <3> QED
      BY <3>1, <3>2
  <2>2. /\ HeldUnits(v)' \subseteq Orders \X (1..MaxQuantity)
        /\ HeldUnits(v) \subseteq Orders \X (1..MaxQuantity)
    BY DEF HeldUnits
  <2>3. Share(o, n) \subseteq Orders \X (1..MaxQuantity)
    BY <1>1, ReservationAssumption DEF Share
  <2> QED
    BY <2>1, <2>2, <2>3
<1>3. HeldUnits(v) \cap Share(o, n) = {}
  BY DEF Reserve, HeldUnits, Share
<1>4. Cardinality(HeldUnits(v)') = Cardinality(HeldUnits(v)) + n
  BY <1>1, <1>2, <1>3, AddShare, HeldFinite
<1>5. Cardinality(HeldUnits(v)) \in Nat
  BY HeldFinite, FS_CardinalityType
<1>6. free'[v] = free[v] - n /\ free[v] \in Nat
  BY DEF Reserve, TypeOK
<1> HIDE DEF n
<1>7. free'[v] + Cardinality(HeldUnits(v)') = free[v] + Cardinality(HeldUnits(v))
  BY <1>1, <1>4, <1>5, <1>6
<1> QED
  BY <1>7 DEF Total

\* Releasing moves them back, of every variant that is still listed.
LEMMA ReleaseConserves ==
    ASSUME TypeOK, NEW o \in Orders, Release(o), NEW v \in listed
    PROVE  Total(v)' = Total(v)
<1> DEFINE n == units[o][v]
<1>0. v \in Variants
  BY DEF TypeOK
<1>1. n \in 0..MaxQuantity /\ n \in Nat
  BY <1>0, ReservationAssumption DEF TypeOK
<1>2. HeldUnits(v) = HeldUnits(v)' \cup Share(o, n)
  <2>1. ASSUME NEW q \in Orders, NEW k \in 1..MaxQuantity
        PROVE  <<q, k>> \in HeldUnits(v) <=>
                 <<q, k>> \in HeldUnits(v)' \cup Share(o, n)
    <3>1. CASE q = o
      BY <1>1, <3>1, ReservationAssumption DEF Release, HeldUnits, Share, TypeOK
    <3>2. CASE q # o
      BY <3>2 DEF Release, HeldUnits, Share, TypeOK
    <3> QED
      BY <3>1, <3>2
  <2>2. /\ HeldUnits(v)' \subseteq Orders \X (1..MaxQuantity)
        /\ HeldUnits(v) \subseteq Orders \X (1..MaxQuantity)
    BY DEF HeldUnits
  <2>3. Share(o, n) \subseteq Orders \X (1..MaxQuantity)
    BY <1>1, ReservationAssumption DEF Share
  <2> QED
    BY <2>1, <2>2, <2>3
<1>3. HeldUnits(v)' \cap Share(o, n) = {}
  BY DEF Release, HeldUnits, Share, TypeOK
<1>4. IsFiniteSet(HeldUnits(v)')
  BY <1>2, HeldFinite, FS_Subset
<1>5. Cardinality(HeldUnits(v)) = Cardinality(HeldUnits(v)') + n
  BY <1>1, <1>2, <1>3, <1>4, AddShare
<1>6. Cardinality(HeldUnits(v)') \in Nat
  BY <1>4, FS_CardinalityType
<1>7. free'[v] = free[v] + n /\ free[v] \in Nat
  BY <1>0 DEF Release, TypeOK
<1> HIDE DEF n
<1>8. free'[v] + Cardinality(HeldUnits(v)') = free[v] + Cardinality(HeldUnits(v))
  BY <1>1, <1>5, <1>6, <1>7
<1> QED
  BY <1>8 DEF Total

\* A sale keeps the order's units where they are: held.
LEMMA ConsumeConserves ==
    ASSUME TypeOK, NEW o \in Orders, Consume(o), NEW v \in Variants
    PROVE  Total(v)' = Total(v)
<1>1. HeldUnits(v)' = HeldUnits(v)
  BY DEF Consume, HeldUnits, TypeOK
<1> QED
  BY <1>1 DEF Total, Consume

\* The owner's edit of one variant leaves every other variant's total alone.
LEMMA RestockIsLocal ==
    ASSUME TypeOK, NEW w \in Variants, Restock(w), NEW v \in Variants, v # w
    PROVE  Total(v)' = Total(v)
<1>1. HeldUnits(v)' = HeldUnits(v)
  BY DEF Restock, HeldUnits
<1>2. free'[v] = free[v]
  BY DEF Restock, TypeOK
<1> QED
  BY <1>1, <1>2 DEF Total

\* Units are conserved: checkout, release and consumption neither create nor
\* lose a unit of a variant that is not deleted; only the owner's stock edit
\* changes how many there are.
THEOREM Conservation == Spec => UnitsConserved
<1>1. TypeOK /\ [Next]_vars => [KeepsUnits]_vars
  <2> SUFFICES ASSUME TypeOK, Next, NEW v \in Variants,
                      v \in listed', ~Restock(v)
               PROVE  Total(v)' = Total(v)
    BY DEF KeepsUnits
  <2>1. ASSUME NEW o \in Orders, NEW wants \in [Variants -> 0..MaxQuantity],
               Reserve(o, wants)
        PROVE  Total(v)' = Total(v)
    BY <2>1, ReserveConserves
  <2>2. ASSUME NEW o \in Orders, Release(o) PROVE Total(v)' = Total(v)
    <3>1. v \in listed
      BY <2>2 DEF Release
    <3> QED
      BY <2>2, <3>1, ReleaseConserves
  <2>3. ASSUME NEW o \in Orders, Consume(o) PROVE Total(v)' = Total(v)
    BY <2>3, ConsumeConserves
  <2>4. ASSUME NEW w \in Variants, Restock(w) PROVE Total(v)' = Total(v)
    BY <2>4, RestockIsLocal
  <2>5. ASSUME NEW w \in Variants, Delist(w) PROVE Total(v)' = Total(v)
    BY <2>5 DEF Delist, Total, HeldUnits
  <2> QED
    BY <2>1, <2>2, <2>3, <2>4, <2>5 DEF Next
<1> QED
  BY <1>1, Typing, PTL DEF Spec, UnitsConserved
=============================================================================
