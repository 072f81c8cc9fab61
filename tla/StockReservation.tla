-------------------------- MODULE StockReservation --------------------------
(***************************************************************************)
(* What the shop promises about stock, with no payments, sessions or       *)
(* concurrent requests in sight.  An order takes all of its units at once  *)
(* or not at all; they are then either sold or given back, once; and       *)
(* nothing else but the owner changes how many units there are.            *)
(***************************************************************************)
EXTENDS Integers, FiniteSets

CONSTANTS Orders, Variants, MaxStock, MaxQuantity

ASSUME ReservationAssumption ==
    IsFiniteSet(Orders) /\ MaxStock \in Nat /\ MaxQuantity \in Nat

VARIABLES
    free,    \* units of each variant anyone may order
    listed,  \* variants that have not been deleted
    hold,    \* what became of each order's units
    units    \* the units each order took

vars == <<free, listed, hold, units>>

HoldState == {"none", "reserved", "consumed", "released"}

TypeOK == /\ free \in [Variants -> Nat]
          /\ listed \subseteq Variants
          /\ hold \in [Orders -> HoldState]
          /\ units \in [Orders -> [Variants -> 0..MaxQuantity]]

Init == /\ free \in [Variants -> 0..MaxStock]
        /\ listed = Variants
        /\ hold = [o \in Orders |-> "none"]
        /\ units = [o \in Orders |-> [v \in Variants |-> 0]]

\* Mutant: units are taken without looking whether they are there.
ReserveUnchecked(o, wants) ==
    /\ hold[o] = "none"
    /\ hold' = [hold EXCEPT ![o] = "reserved"]
    /\ units' = [units EXCEPT ![o] = wants]
    /\ free' = [v \in Variants |-> free[v] - wants[v]]
    /\ UNCHANGED listed

Reserve(o, wants) ==
    /\ hold[o] = "none"
    /\ \A v \in Variants : wants[v] > 0 => v \in listed /\ wants[v] <= free[v]
    /\ hold' = [hold EXCEPT ![o] = "reserved"]
    /\ units' = [units EXCEPT ![o] = wants]
    /\ free' = [v \in Variants |-> free[v] - wants[v]]
    /\ UNCHANGED listed

\* Mutant: the units of a sale can come back.
ReleaseSold(o) ==
    /\ hold[o] \in {"reserved", "consumed", "released"}
    /\ hold' = [hold EXCEPT ![o] = "released"]
    /\ free' = [v \in Variants |-> IF v \in listed THEN free[v] + units[o][v]
                                   ELSE free[v]]
    /\ UNCHANGED <<listed, units>>

Release(o) ==
    /\ hold[o] = "reserved"
    /\ hold' = [hold EXCEPT ![o] = "released"]
    /\ free' = [v \in Variants |-> IF v \in listed THEN free[v] + units[o][v]
                                   ELSE free[v]]
    /\ UNCHANGED <<listed, units>>

Consume(o) ==
    /\ hold[o] = "reserved"
    /\ hold' = [hold EXCEPT ![o] = "consumed"]
    /\ UNCHANGED <<free, listed, units>>

Restock(v) ==
    /\ v \in listed
    /\ \E n \in 0..MaxStock : free' = [free EXCEPT ![v] = n]
    /\ UNCHANGED <<listed, hold, units>>

Delist(v) ==
    /\ v \in listed
    /\ listed' = listed \ {v}
    /\ UNCHANGED <<free, hold, units>>

Next ==
    \/ \E o \in Orders, wants \in [Variants -> 0..MaxQuantity] : Reserve(o, wants)
    \/ \E o \in Orders : Release(o) \/ Consume(o)
    \/ \E v \in Variants : Restock(v) \/ Delist(v)

Spec == Init /\ [][Next]_vars
-----------------------------------------------------------------------------
\* The units of v that orders hold, reserved or sold, one element per unit.
HeldUnits(v) ==
    {u \in Orders \X (1..MaxQuantity) :
        hold[u[1]] \in {"reserved", "consumed"} /\ u[2] <= units[u[1]][v]}

Total(v) == free[v] + Cardinality(HeldUnits(v))

\* A step that keeps the sum of free and held units of every variant that is
\* not deleted, unless it is the owner setting that variant's stock.
KeepsUnits ==
    \A v \in Variants :
        Total(v)' = Total(v) \/ v \notin listed' \/ Restock(v)

\* Checkout, release and consumption neither create nor lose a unit.
UnitsConserved == [][KeepsUnits]_vars
=============================================================================
