---------------------------- MODULE OrderSystem -----------------------------
(***************************************************************************)
(* The whole order flow: customers' and the owner's requests, Stripe and   *)
(* its webhooks, and the owner's changes to the catalog, interleaved.      *)
(***************************************************************************)
EXTENDS OrderService, PaymentService

CONSTANT Editable  \* bound: the variants the owner edits in this instance

ASSUME EditableAssumption == Editable \subseteq Variants

vars == <<tables, db, stripe>>

Init == StoreInit /\ StripeInit

TypeOK == StoreTypeOK /\ StripeTypeOK
-----------------------------------------------------------------------------
(***************************************************************************)
(* The owner's catalog requests, as far as orders depend on them.  Each    *)
(* writes one row with values that do not depend on what it read.          *)
(***************************************************************************)
EditVariantStock(v, n) ==
    /\ catalog[v] # "deleted"
    /\ stock' = [stock EXCEPT ![v] = n]
    /\ UNCHANGED <<catalog, orders, items, timeline, notified, processed, db, stripe>>

\* Variant is_active, or the catalog status or grade of its shrimp.
SetOnSale(v, status) ==
    /\ catalog[v] # "deleted"
    /\ catalog' = [catalog EXCEPT ![v] = status]
    /\ UNCHANGED <<stock, orders, items, timeline, notified, processed, db, stripe>>

RemoveVariant(v) ==
    /\ catalog[v] # "deleted"
    /\ catalog' = [catalog EXCEPT ![v] = "deleted"]
    /\ UNCHANGED <<stock, orders, items, timeline, notified, processed, db, stripe>>

CatalogStep(v) ==
    \/ \E n \in 0..MaxStock : EditVariantStock(v, n)
    \/ \E status \in {"on_sale", "off_sale"} : SetOnSale(v, status)
    \/ RemoveVariant(v)
-----------------------------------------------------------------------------
AbortRequest(p) == Abort(p) /\ UNCHANGED stripe

Next ==
    \/ \E p \in Procs : OrderStep(p) \/ PaymentStep(p) \/ AbortRequest(p)
    \/ \E s \in Sessions : DeliverWebhook(s) \/ StripeStep(s)
    \/ \E v \in Editable : CatalogStep(v)

Spec == Init /\ [][Next]_vars

(***************************************************************************)
(* Fairness.  A request ends, by a commit or by an abort.  A session's     *)
(* expiry time comes and Stripe then closes it.  Stripe repeats a webhook  *)
(* until it is answered, so an event that can be delivered again and again *)
(* is delivered, and a handler is not aborted every single time.           *)
(* Customers and owners owe nothing: they need not pay, cancel or edit.    *)
(***************************************************************************)
EndRequest(p) == CommitOrderRequest(p) \/ PaymentStep(p) \/ AbortRequest(p)

HandleWebhook(s) == \E p \in Procs : db[p] # Idle /\ db[p].session = s /\ CommitWebhook(p)

Fairness ==
    /\ \A p \in Procs : WF_vars(EndRequest(p)) /\ SF_vars(RefreshCompleted(p))
    /\ \A s \in Sessions : /\ WF_vars(PassExpiry(s))
                           /\ WF_vars(Expire(s))
                           /\ SF_vars(DeliverCompleted(s))
                           /\ SF_vars(DeliverExpired(s))
                           /\ SF_vars(DeliverRefunded(s))
                           /\ SF_vars(HandleWebhook(s))

FairSpec == Spec /\ Fairness
-----------------------------------------------------------------------------
(***************************************************************************)
(* Safety.                                                                 *)
(***************************************************************************)
\* Stock that is only reserved belongs to an unpaid order: no interleaving of
\* cancel, webhooks and owner changes marks an order paid, failed or refunded
\* and leaves its reservation open.
ReservedIsPending ==
    \A o \in Orders :
        orders[o].reservation = "reserved" =>
            orders[o].payment = "pending" /\ orders[o].intent = None

\* A cancelled order never keeps stock reserved, although the owner's handler
\* decides by the row it loaded whether to release.
CancelledHoldsNoReservation ==
    \A o \in Orders :
        orders[o].status = "cancelled" => orders[o].reservation # "reserved"

\* A PAID order has its stock, or asks for a manual review.
PaidIsBackedOrFlagged ==
    \A o \in Orders :
        orders[o].payment = "paid" =>
            \/ orders[o].reservation = "consumed"
            \/ orders[o].reservation = "released" /\ "late_payment" \in timeline[o]

\* A refunded order was paid: its payment is on the timeline, Stripe holds a
\* completed session for its PaymentIntent, and nothing is reserved for it.
RefundedWasPaid ==
    \A o \in Orders :
        orders[o].payment = "refunded" =>
            /\ timeline[o] \cap {"paid", "late_payment"} # {}
            /\ orders[o].intent # None
            /\ sessions[orders[o].intent].state = "complete"
            /\ orders[o].reservation # "reserved"

\* However often and in whatever order webhooks arrive, the owners are told of
\* a sale exactly once, and of every sale.
NotifiedOncePerSale ==
    \A o \in Orders :
        notified[o] = IF orders[o].reservation = "consumed" THEN 1 ELSE 0

\* The sessions of an order whose payment has been processed.
PaidSessions(o) ==
    {s \in Sessions : sessions[s].order = o /\ Event("completed", s) \in processed}

\* An order keeps the record of one of its processed payments: its PaymentIntent
\* is that of a session of its own whose payment was processed, its reservation
\* is settled and a payment is on its timeline.  So the payment of an order that
\* was paid once is recorded, whatever race its webhook lost.  It is not every
\* payment: of a session paid after the sale the code keeps nothing.
OnePaymentIsRecorded ==
    \A o \in Orders :
        PaidSessions(o) # {} =>
            /\ orders[o].intent \in PaidSessions(o)
            /\ orders[o].reservation \in {"consumed", "released"}
            /\ timeline[o] \cap {"paid", "late_payment"} # {}

\* A reserved order always has a session that can still end it: the expiry
\* event of its current session has not been used up, whatever sessions
\* concurrent continue requests opened and in whichever order they committed.
ReservationCanStillEnd ==
    \A o \in Orders :
        orders[o].reservation = "reserved" =>
            /\ orders[o].session # None
            /\ sessions[orders[o].session].order = o
            /\ sessions[orders[o].session].state # "unused"
            /\ Event("expired", orders[o].session) \notin processed
-----------------------------------------------------------------------------
(***************************************************************************)
(* The inductive invariant behind the first two: what the requests in      *)
(* flight may rely on about rows that change underneath them.              *)
(***************************************************************************)
\* Stripe only reports on sessions that were created, each for some order, and
\* a request about a session names one.
SessionsKnown ==
    /\ \A s \in Sessions : sessions[s].state # "unused" => sessions[s].order \in Orders
    /\ \A e \in emitted : sessions[e.session].state # "unused"
    /\ \A p \in Procs :
          db[p] # Idle /\ db[p].op \notin {"checkout", "cancel", "owner_status"} =>
              /\ db[p].session \in Sessions
              /\ sessions[db[p].session].state # "unused"

\* A reservation is settled for good: once a request has loaded a settled row,
\* the row's reservation is what it loaded.  A loaded reserved row is unpaid.
SnapshotOK(r) ==
    /\ r.row.reservation # "none"
    /\ r.row.reservation = "reserved" => r.row.payment = "pending"
    /\ r.row.reservation = "reserved" => orders[r.order].reservation # "none"
    /\ r.row.reservation # "reserved" =>
          orders[r.order].reservation = r.row.reservation

RequestsOK ==
    \A p \in Procs : db[p] # Idle =>
        /\ db[p].op = "checkout" => orders[db[p].order].reservation = "none"
        /\ db[p].op # "checkout" => SnapshotOK(db[p])
        /\ db[p].op = "late" => db[p].row.reservation = "released"
        /\ db[p].op = "refunded" => db[p].row.reservation \in {"consumed", "released"}

\* Two checkouts never insert the same order.
CheckoutsApart ==
    \A p, q \in Procs :
        /\ Busy(p, "checkout") /\ Busy(q, "checkout")
        /\ db[p].order = db[q].order
        => p = q

RowsOK == \A o \in Orders : orders[o].reservation = "none" => orders[o] = NoOrder

\* Every step keeps this, and it implies the invariants above it (the proofs
\* are in OrderSystemProofs).
IndInv ==
    /\ TypeOK
    /\ SessionsKnown
    /\ RequestsOK
    /\ CheckoutsApart
    /\ RowsOK
    /\ ReservedIsPending
    /\ CancelledHoldsNoReservation
-----------------------------------------------------------------------------
(***************************************************************************)
(* The inductive invariant behind the other five: what a payment leaves in *)
(* the tables, and what webhooks and open sessions say of it.              *)
(***************************************************************************)
\* What Stripe reports has happened to the session, for good.
EventsAreTrue ==
    \A e \in emitted :
        /\ e.kind \in {"completed", "refunded"} => sessions[e.session].state = "complete"
        /\ e.kind = "expired" => sessions[e.session].state = "expired"

ProcessedWereEmitted == processed \subseteq emitted

\* The session a request continues a payment with is still to be handed out,
\* and is nobody else's.
ContinuesOK ==
    \A p \in Procs : Busy(p, "continue") =>
        /\ sessions[db[p].session] =
              [order |-> db[p].order, state |-> "created", lapsed |-> FALSE]
        /\ \A q \in Procs :
              Busy(q, "continue") /\ db[q].session = db[p].session => q = p

\* A webhook being handled was sent; it is about the order of its session, or
\* about the order whose recorded payment it refunds.
WebhookOK(r) ==
    /\ r.op \in {"completed", "late"} => Event("completed", r.session) \in emitted
    /\ r.op \in {"expired", "refunded"} => Event(r.op, r.session) \in emitted
    /\ r.op \in {"completed", "late", "expired"} => sessions[r.session].order = r.order
    /\ r.op = "completed" => r.row.payment # "paid"
    /\ r.op \in {"completed", "late"} /\ r.row.intent # None =>
          orders[r.order].intent # None
    /\ r.op = "refunded" => orders[r.order].intent # None

WebhooksOK == \A p \in Procs : db[p] # Idle => WebhookOK(db[p])

\* A sale and a paid order have a PaymentIntent, and a sale is on the timeline;
\* a PaymentIntent is that of a payment of this order which was processed.
PaymentsRecorded ==
    \A o \in Orders :
        /\ orders[o].reservation = "consumed" => "paid" \in timeline[o]
        /\ orders[o].reservation = "consumed" \/ orders[o].payment = "paid" =>
              orders[o].intent # None
        /\ orders[o].intent # None =>
              /\ timeline[o] \cap {"paid", "late_payment"} # {}
              /\ orders[o].intent \in PaidSessions(o)
              /\ sessions[orders[o].intent].state = "complete"

\* Every step keeps this together with IndInv (PaymentProofs).
PaymentInv ==
    /\ EventsAreTrue
    /\ ProcessedWereEmitted
    /\ ContinuesOK
    /\ WebhooksOK
    /\ PaymentsRecorded
    /\ NotifiedOncePerSale
    /\ PaidIsBackedOrFlagged
    /\ RefundedWasPaid
    /\ OnePaymentIsRecorded
    /\ ReservationCanStillEnd
-----------------------------------------------------------------------------
(***************************************************************************)
(* What the code says of itself and its interleavings do not keep.         *)
(***************************************************************************)
\* "Only pending payment orders can be cancelled." (cancel_customer_order):
\* the customer's cancellation is committed to an order that is pending.
OnlyPendingOrdersCancelled ==
    [][ \A o \in Orders :
          "customer_cancelled" \in timeline'[o] \ timeline[o] =>
              orders[o].payment = "pending" ]_vars

\* "Order cannot continue payment." (continue_customer_order_payment): a new
\* payment URL is committed only to an order that can continue payment.
OnlyContinuableOrdersGetUrl ==
    [][ \A s \in Sessions :
          sessions[s].state = "created" /\ sessions'[s].state = "open" =>
              CanContinuePayment(orders[sessions[s].order]) ]_vars

\* "Stripe payment event could not be loaded." (handle_stripe_webhook_event):
\* an event is refused by the database only because its row is there already;
\* so the order an event names exists.
EventsNameExistingOrders == \A e \in emitted : Exists(sessions[e.session].order)
-----------------------------------------------------------------------------
(***************************************************************************)
(* Liveness.                                                               *)
(***************************************************************************)
\* Stock is not reserved for ever: every reservation ends in a sale or goes
\* back, however the customer behaves, as long as Stripe's sessions expire and
\* its webhooks get through.
ReservationsEnd ==
    \A o \in Orders : orders[o].reservation = "reserved"
                        ~> orders[o].reservation # "reserved"

\* Every payment and expiry event of an order that exists is processed in the
\* end, through crashes and redeliveries.
EventsSettle ==
    \A s \in Sessions, kind \in {"completed", "expired"} :
        (Event(kind, s) \in emitted /\ Exists(sessions[s].order))
            ~> Event(kind, s) \in processed
-----------------------------------------------------------------------------
(***************************************************************************)
(* The order flow implements StockReservation.                             *)
(***************************************************************************)
Reservation ==
    INSTANCE StockReservation WITH
        free   <- stock,
        listed <- {v \in Variants : catalog[v] # "deleted"},
        hold   <- [o \in Orders |-> orders[o].reservation],
        units  <- items

\* Every step of the requests, webhooks and owner is a step of the abstract
\* stock reservation or leaves it alone.
ReservationSpec == Reservation!Spec

\* No interleaving creates or loses units of stock (see StockReservation).
StockConserved == Reservation!UnitsConserved
=============================================================================
