----------------------------- MODULE OrderStore -----------------------------
(***************************************************************************)
(* The PostgreSQL tables the order and payment services share, and the     *)
(* repository operations they are changed with.                            *)
(*                                                                         *)
(* The database runs at READ COMMITTED and no service locks a row it only  *)
(* reads.  A request therefore works from the order row it loaded at its   *)
(* start (its snapshot) while the row moves on underneath it.  Row locks   *)
(* are held from a transaction's first UPDATE to its commit, so everything *)
(* a request writes takes effect at one instant: a request is a READ step, *)
(* which fills in db[p], and a WRITE step, which commits.                  *)
(***************************************************************************)
EXTENDS Naturals, FiniteSets

CONSTANTS
    Orders,        \* identifiers (uuid) an order row may get
    Variants,      \* shrimp variants, the things stock is kept of
    Sessions,      \* Stripe Checkout sessions; each has one PaymentIntent
    Procs,         \* HTTP requests that may be in flight at once
    MaxStock,      \* bound: the largest stock an owner enters
    MaxQuantity,   \* bound: the largest quantity of a variant in one order
    None           \* SQL NULL

ASSUME OrdersAssumption == IsFiniteSet(Orders) /\ None \notin Orders
ASSUME SessionsAssumption == None \notin Sessions
ASSUME BoundsAssumption == MaxStock \in Nat /\ MaxQuantity \in Nat

VARIABLES
    stock,     \* shrimp_variants.stock_quantity
    catalog,   \* whether a variant is sold, hidden or deleted
    orders,    \* the orders table; reservation "none" means no row yet
    items,     \* order_items: units of each variant in an order
    timeline,  \* order_status_events: the payment-related messages of an order
    notified,  \* notifications "new order" written for an order (per audience)
    processed, \* payment_events with processed_at set
    db         \* per request: the order it loaded and what it is about to do

tables == <<stock, catalog, orders, items, timeline, notified, processed>>
-----------------------------------------------------------------------------
OrderStatus == {"processing", "shipped", "delivered", "cancelled"}
PaymentStatus == {"pending", "paid", "failed", "refunded"}
StockReservationStatus == {"none", "reserved", "consumed", "released"}
CatalogStatus == {"on_sale", "off_sale", "deleted"}
Messages == {"paid", "late_payment", "expired", "customer_cancelled", "refunded"}
EventKinds == {"completed", "expired", "failed", "refunded"}

Quantities == [Variants -> 0..MaxQuantity]

OrderRow == [status      : OrderStatus,
             payment     : PaymentStatus,
             reservation : StockReservationStatus,
             session     : Sessions \cup {None},
             intent      : Sessions \cup {None}]

NoOrder == [status |-> "processing", payment |-> "pending",
            reservation |-> "none", session |-> None, intent |-> None]

PaymentEvent == [kind : EventKinds, session : Sessions]

\* What a request is in the middle of; "late" is the part of the completed
\* webhook that follows db.refresh.
Operations == {"checkout", "continue", "cancel", "owner_status",
               "completed", "late", "expired", "refunded"}

Request == [op      : Operations,
            order   : Orders,
            row     : OrderRow,               \* the loaded ORM object
            session : Sessions \cup {None},   \* the session it is about
            status  : OrderStatus,            \* the owner's new status
            wants   : Quantities]             \* the cart of a checkout

Idle == [op |-> "idle"]

Nothing == [v \in Variants |-> 0]

\* A request about order o that has loaded its row.
Loaded(op, o) == [op |-> op, order |-> o, row |-> orders[o], session |-> None,
                  status |-> "processing", wants |-> Nothing]

StoreTypeOK ==
    /\ stock \in [Variants -> Nat]
    /\ catalog \in [Variants -> CatalogStatus]
    /\ orders \in [Orders -> OrderRow]
    /\ items \in [Orders -> Quantities]
    /\ timeline \in [Orders -> SUBSET Messages]
    /\ notified \in [Orders -> Nat]
    /\ processed \subseteq PaymentEvent
    /\ db \in [Procs -> Request \cup {Idle}]

StoreInit ==
    /\ stock \in [Variants -> 0..MaxStock]
    /\ catalog = [v \in Variants |-> "on_sale"]
    /\ orders = [o \in Orders |-> NoOrder]
    /\ items = [o \in Orders |-> Nothing]
    /\ timeline = [o \in Orders |-> {}]
    /\ notified = [o \in Orders |-> 0]
    /\ processed = {}
    /\ db = [p \in Procs |-> Idle]
-----------------------------------------------------------------------------
(***************************************************************************)
(* Repository operations on one order row.                                 *)
(***************************************************************************)
Exists(o) == orders[o].reservation # "none"

\* The unit of work of the ORM: an assignment is written to the row only when
\* it changes the value the session loaded; every other column of the row
\* keeps what other transactions left there.  No code assigns
\* stock_reservation_status through the ORM.
\* Mutant: saving the whole loaded object.
FlushWholeRow(row, loaded, new) == new

Flush(row, loaded, new) ==
    LET Column(current, was, is) == IF is = was THEN current ELSE is
    IN  [status      |-> Column(row.status, loaded.status, new.status),
         payment     |-> Column(row.payment, loaded.payment, new.payment),
         reservation |-> row.reservation,
         session     |-> Column(row.session, loaded.session, new.session),
         intent      |-> Column(row.intent, loaded.intent, new.intent)]

\* UPDATE ... SET stock_reservation_status WHERE stock_reservation_status =
\* 'reserved': evaluated on the row as it is when the statement runs.
\* Mutant of ReleaseOnce: no WHERE on the status.
ReleaseAlways(row) == [row EXCEPT !.reservation = "released"]

ReleaseOnce(row) ==
    [row EXCEPT !.reservation = IF @ = "reserved" THEN "released" ELSE @]

\* Mutant of Consumable: a consumed reservation may be consumed again.
ConsumableAgain(row) == row.reservation \in {"reserved", "consumed"}

Consumable(row) == row.reservation = "reserved"

ConsumeOnce(row) ==
    IF Consumable(row) THEN [row EXCEPT !.reservation = "consumed"] ELSE row

\* increment_variant_stock for every item: an UPDATE of a deleted variant
\* matches no row (and its items have lost their variant_id).
IncrementStock(o) ==
    stock' = [v \in Variants |-> IF catalog[v] = "deleted" THEN stock[v]
                                 ELSE stock[v] + items[o][v]]

\* decrement_variant_stock succeeds for every wanted variant.
\* Mutant: the UPDATE without its stock condition.
StockExists(wants) == \A v \in Variants : wants[v] > 0 => catalog[v] # "deleted"

StockCovers(wants) ==
    \A v \in Variants : wants[v] > 0 => /\ catalog[v] # "deleted"
                                        /\ stock[v] >= wants[v]

DecrementStock(wants) ==
    stock' = [v \in Variants |-> IF wants[v] > 0 THEN stock[v] - wants[v]
                                 ELSE stock[v]]

\* release_order_stock_reservation: the items go back only when the guarded
\* UPDATE matched the row.
\* Mutant: restocking whether or not the UPDATE matched.
RestockAlways(o) == IncrementStock(o)

ReleaseOrderStock(o) ==
    IF orders[o].reservation = "reserved" THEN IncrementStock(o)
                                          ELSE UNCHANGED stock

\* A status event row for the order.
Record(o, message) == timeline' = [timeline EXCEPT ![o] = @ \cup {message}]

Process(e) == processed' = processed \cup {e}

Free(p) == db[p] = Idle
Busy(p, op) == db[p] # Idle /\ db[p].op = op
Done(p) == db' = [db EXCEPT ![p] = Idle]

\* The session is closed without a commit: an exception, a lost connection, a
\* deadlock chosen by the database, or a crash of the process.
\* Mutant: the webhook is acknowledged before its handler commits.
AbortAcknowledged(p) ==
    /\ ~Free(p)
    /\ Done(p)
    /\ processed' = processed \cup
          (IF db[p].op \in EventKinds
           THEN {[kind |-> db[p].op, session |-> db[p].session]} ELSE {})
    /\ UNCHANGED <<stock, catalog, orders, items, timeline, notified>>

Abort(p) == ~Free(p) /\ Done(p) /\ UNCHANGED tables
=============================================================================
