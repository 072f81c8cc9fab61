----------------------------- MODULE StockLocks -----------------------------
(***************************************************************************)
(* The stock of variants as the database sees it: checkouts take units     *)
(* variant by variant and hold the locks of the rows until they commit,    *)
(* also while they wait for Stripe; cancellations and webhooks claim an    *)
(* order's row and then give its units back (create_customer_order and     *)
(* release_order_stock_reservation with decrement_variant_stock,           *)
(* increment_variant_stock, release_stock_reservation_once and             *)
(* consume_stock_reservation_once).  The database ends a deadlock by       *)
(* undoing one of the transactions in it.                                  *)
(*                                                                         *)
(* What a checkout has read before its first update may be out of date     *)
(* there, so its checks before that are left out: the updates decide.      *)
(***************************************************************************)
EXTENDS Integers, Sequences, FiniteSets

CONSTANTS
    Orders, Variants,
    Transactions,    \* database sessions of requests
    Carts,           \* the orders in which variants are put into carts
    MaxStock, MaxQuantity,
    None             \* no holder of a lock, no order

ASSUME LocksAssumption ==
    /\ IsFiniteSet(Orders) /\ MaxStock \in Nat /\ MaxQuantity \in Nat
    /\ Carts \subseteq Seq(Variants)
    /\ None \notin Transactions

VARIABLES
    stock, listed, hold, units,   \* what is committed
    variantLock, orderLock,       \* the transaction that holds a row
    txn                           \* the transactions under way

committed == <<stock, listed, hold, units>>
vars == <<committed, variantLock, orderLock, txn>>
-----------------------------------------------------------------------------
Holder == Transactions \cup {None}

\* todo: the variants still to update, taken: those updated; failed: an update
\* found too few units.
Transaction ==
    [kind : {"none", "checkout", "release", "consume"}, order : Orders \cup {None},
     wants : [Variants -> 0..MaxQuantity], todo : Seq(Variants),
     taken : SUBSET Variants, failed : BOOLEAN]

NoUnits == [v \in Variants |-> 0]

Ended == [kind |-> "none", order |-> None, wants |-> NoUnits, todo |-> <<>>,
          taken |-> {}, failed |-> FALSE]

Items(cart) == {cart[n] : n \in DOMAIN cart}

Active(t) == txn[t].kind # "none"

Ends(t) == txn[t].kind \in {"release", "consume"}

Init == /\ stock \in [Variants -> 0..MaxStock]
        /\ listed = Variants
        /\ hold = [o \in Orders |-> "none"]
        /\ units = [o \in Orders |-> NoUnits]
        /\ variantLock = [v \in Variants |-> None]
        /\ orderLock = [o \in Orders |-> None]
        /\ txn = [t \in Transactions |-> Ended]

Unlocked(t, locks) == [row \in DOMAIN locks |-> IF locks[row] = t THEN None ELSE locks[row]]

\* Commit and rollback give all locks back.
End(t) ==
    /\ variantLock' = Unlocked(t, variantLock)
    /\ orderLock' = Unlocked(t, orderLock)
    /\ txn' = [txn EXCEPT ![t] = Ended]
-----------------------------------------------------------------------------
(***************************************************************************)
(* Checkout.                                                               *)
(***************************************************************************)
\* The order is the transaction's own until it commits.
BeginCheckout(t, o) ==
    /\ ~Active(t) /\ hold[o] = "none" /\ \A s \in Transactions : txn[s].order # o
    /\ \E cart \in Carts, wants \in [Variants -> 0..MaxQuantity] :
         /\ \A v \in Variants : wants[v] > 0 <=> v \in Items(cart)
         /\ txn' = [txn EXCEPT ![t] = [Ended EXCEPT !.kind = "checkout", !.order = o,
                                                    !.wants = wants, !.todo = cart]]
    /\ UNCHANGED <<committed, variantLock, orderLock>>

\* Mutant of Matches: the update is not bound to the stock.
MatchesAny(t, v) == v \in listed

\* The WHERE of decrement_variant_stock on the committed row
Matches(t, v) == v \in listed /\ stock[v] >= txn[t].wants[v]

\* decrement_variant_stock.  A row that does not match is not waited for, one that
\* matches is, and looked at again when its holder has committed.
TakeUnits(t) ==
    LET v == Head(txn[t].todo)
    IN  /\ txn[t].kind = "checkout" /\ txn[t].todo # <<>>
        /\ IF Matches(t, v)
           THEN /\ variantLock[v] = None
                /\ variantLock' = [variantLock EXCEPT ![v] = t]
                /\ txn' = [txn EXCEPT ![t].todo = Tail(@), ![t].taken = @ \cup {v}]
           ELSE /\ txn' = [txn EXCEPT ![t].todo = Tail(@), ![t].failed = TRUE]
                /\ UNCHANGED variantLock
        /\ UNCHANGED <<committed, orderLock>>

\* Stripe has answered with a session.
CommitCheckout(t) ==
    /\ txn[t].kind = "checkout" /\ txn[t].todo = <<>> /\ ~txn[t].failed
    /\ stock' = [v \in Variants |->
                   IF v \in txn[t].taken THEN stock[v] - txn[t].wants[v] ELSE stock[v]]
    /\ hold' = [hold EXCEPT ![txn[t].order] = "reserved"]
    /\ units' = [units EXCEPT ![txn[t].order] = txn[t].wants]
    /\ End(t)
    /\ UNCHANGED listed

\* Mutant of Undo: the session is put back without a rollback.
UndoNothing(t) == txn' = [txn EXCEPT ![t] = Ended] /\ UNCHANGED <<variantLock, orderLock>>

Undo(t) == End(t)

\* Some variant had too few units.
Reject(t) ==
    /\ txn[t].kind = "checkout" /\ txn[t].todo = <<>> /\ txn[t].failed
    /\ Undo(t)
    /\ UNCHANGED committed
-----------------------------------------------------------------------------
(***************************************************************************)
(* The end of a reservation.                                               *)
(***************************************************************************)
\* An order has been read that is reserved; its items come in any order.
BeginEnd(t, o, kind) ==
    /\ ~Active(t) /\ hold[o] = "reserved" /\ kind \in {"release", "consume"}
    /\ \E items \in Carts :
         /\ \A v \in Variants : units[o][v] > 0 <=> v \in Items(items)
         /\ txn' = [txn EXCEPT ![t] = [Ended EXCEPT !.kind = kind, !.order = o,
                       !.todo = IF kind = "release" THEN items ELSE <<>>]]
    /\ UNCHANGED <<committed, variantLock, orderLock>>

Claimed(t) == Ends(t) /\ orderLock[txn[t].order] = t

\* release_stock_reservation_once and consume_stock_reservation_once
ClaimOrder(t) ==
    LET o == txn[t].order
    IN  /\ Ends(t) /\ orderLock[o] = None /\ hold[o] = "reserved"
        /\ orderLock' = [orderLock EXCEPT ![o] = t]
        /\ UNCHANGED <<committed, variantLock, txn>>

\* Somebody else has ended the reservation.
MissOrder(t) ==
    /\ Ends(t) /\ ~Claimed(t) /\ hold[txn[t].order] # "reserved"
    /\ End(t)
    /\ UNCHANGED committed

\* increment_variant_stock: nothing happens where the variant has been deleted.
ReturnUnits(t) ==
    LET v == Head(txn[t].todo)
    IN  /\ Claimed(t) /\ txn[t].todo # <<>>
        /\ IF v \in listed
           THEN /\ variantLock[v] = None
                /\ variantLock' = [variantLock EXCEPT ![v] = t]
                /\ txn' = [txn EXCEPT ![t].todo = Tail(@), ![t].taken = @ \cup {v}]
           ELSE /\ txn' = [txn EXCEPT ![t].todo = Tail(@)]
                /\ UNCHANGED variantLock
        /\ UNCHANGED <<committed, orderLock>>

CommitEnd(t) ==
    LET o == txn[t].order
    IN  /\ Claimed(t) /\ txn[t].todo = <<>>
        /\ stock' = [v \in Variants |->
                       IF v \in txn[t].taken THEN stock[v] + units[o][v] ELSE stock[v]]
        /\ hold' = [hold EXCEPT ![o] = IF txn[t].kind = "release" THEN "released"
                                       ELSE "consumed"]
        /\ End(t)
        /\ UNCHANGED <<listed, units>>
-----------------------------------------------------------------------------
(***************************************************************************)
(* The database and the owner.                                             *)
(***************************************************************************)
\* Who holds the row a transaction waits for, or None.
Blocker(t) ==
    LET v == Head(txn[t].todo)
    IN  IF txn[t].kind = "checkout" /\ txn[t].todo # <<>> /\ Matches(t, v) THEN variantLock[v]
        ELSE IF Claimed(t) /\ txn[t].todo # <<>> /\ v \in listed THEN variantLock[v]
        ELSE IF Ends(t) /\ ~Claimed(t) /\ hold[txn[t].order] = "reserved"
             THEN orderLock[txn[t].order]
        ELSE None

Deadlocked(t) ==
    \E S \in SUBSET Transactions : t \in S /\ {Blocker(s) : s \in S} = S

BreakDeadlock(t) == Deadlocked(t) /\ End(t) /\ UNCHANGED committed

\* Stripe fails, the connection is lost or the server stops.
Abort(t) == Active(t) /\ Undo(t) /\ UNCHANGED committed

\* The owner's updates are single statements and hold no other row.
Restock(v) ==
    /\ v \in listed /\ variantLock[v] = None
    /\ \E n \in 0..MaxStock : stock' = [stock EXCEPT ![v] = n]
    /\ UNCHANGED <<listed, hold, units, variantLock, orderLock, txn>>

Delist(v) ==
    /\ v \in listed /\ variantLock[v] = None
    /\ listed' = listed \ {v}
    /\ UNCHANGED <<stock, hold, units, variantLock, orderLock, txn>>
-----------------------------------------------------------------------------
TransactionStep(t) ==
    \/ TakeUnits(t) \/ CommitCheckout(t) \/ Reject(t)
    \/ ClaimOrder(t) \/ MissOrder(t) \/ ReturnUnits(t) \/ CommitEnd(t)

Next ==
    \/ \E t \in Transactions, o \in Orders :
         \/ BeginCheckout(t, o)
         \/ \E kind \in {"release", "consume"} : BeginEnd(t, o, kind)
    \/ \E t \in Transactions : TransactionStep(t) \/ BreakDeadlock(t) \/ Abort(t)
    \/ \E v \in Variants : Restock(v) \/ Delist(v)

Spec == Init /\ [][Next]_vars

\* A request goes on, Stripe answers it, the database serves those who wait for
\* a row in turn and looks for deadlocks.
FairSpec ==
    Spec /\ \A t \in Transactions : SF_vars(TransactionStep(t)) /\ WF_vars(BreakDeadlock(t))
-----------------------------------------------------------------------------
(***************************************************************************)
(* Properties.                                                             *)
(***************************************************************************)
TypeOK ==
    /\ stock \in [Variants -> Nat]
    /\ listed \subseteq Variants
    /\ hold \in [Orders -> {"none", "reserved", "consumed", "released"}]
    /\ units \in [Orders -> [Variants -> 0..MaxQuantity]]
    /\ variantLock \in [Variants -> Holder]
    /\ orderLock \in [Orders -> Holder]
    /\ txn \in [Transactions -> Transaction]

\* What holds of each transaction: it has locked what it has updated, and nobody
\* else can change what its commit relies on.
TxnOK(t) ==
    LET x == txn[t] IN
    /\ x.kind # "none" => x.order \in Orders
    /\ x.kind = "checkout" => hold[x.order] = "none"
    /\ x.kind = "checkout" =>
         \A s \in Transactions : s # t /\ txn[s].kind # "none" => txn[s].order # x.order
    /\ x.kind \in {"release", "consume"} => hold[x.order] # "none"
    /\ Claimed(t) => hold[x.order] = "reserved"
    /\ x.kind = "consume" => x.taken = {} /\ x.todo = <<>>
    /\ \A v \in x.taken : variantLock[v] = t /\ v \in listed
    /\ x.kind = "checkout" => \A v \in x.taken : stock[v] >= x.wants[v]
    /\ x.kind = "checkout" /\ ~x.failed =>
         \A v \in Variants : x.wants[v] > 0 => v \in x.taken \cup Items(x.todo)
    /\ x.kind = "release" =>
         \A v \in listed : units[x.order][v] > 0 => v \in x.taken \cup Items(x.todo)

\* The inductive invariant.
LocksInv == TypeOK /\ \A t \in Transactions : TxnOK(t)

\* What is committed behaves as StockReservation says: although checkouts take
\* their units one variant after the other, an order has all of its units or none,
\* and they come back once.
Reservation == INSTANCE StockReservation WITH free <- stock

ReservationSpec == Reservation!Spec

\* No request waits for ever, whatever rows its transaction and others hold.
RequestsEnd == \A t \in Transactions : Active(t) ~> ~Active(t)
=============================================================================
