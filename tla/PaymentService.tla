--------------------------- MODULE PaymentService ---------------------------
(***************************************************************************)
(* The payment service: handle_stripe_webhook_event and its four handlers. *)
(*                                                                         *)
(* The payment_events row is inserted before the order is read and is      *)
(* committed, with processed_at set, together with everything the handler  *)
(* wrote; its unique provider_event_id makes a second delivery of the same *)
(* event wait for the first.  So no event is ever committed unprocessed,   *)
(* and a delivery that fails leaves nothing behind and is repeated.        *)
(***************************************************************************)
EXTENDS StripeCheckout

\* The insert of another request's uncommitted payment_events row is waited for.
InFlight(e) ==
    \E p \in Procs :
        /\ ~Free(p)
        /\ db[p].session = e.session
        /\ \/ db[p].op = e.kind
           \/ db[p].op = "late" /\ e.kind = "completed"

\* The webhook gets past the insert of its payment_events row: the event is
\* new and the order its metadata names exists (order_id is a foreign key; when
\* it does not, the insert fails and so does the request).
\* Mutant: webhooks about a cancelled order fail.
DeliverableWhileActive(e) ==
    /\ e \in emitted
    /\ e \notin processed
    /\ ~InFlight(e)
    /\ Exists(sessions[e.session].order)
    /\ orders[sessions[e.session].order].status # "cancelled"

Deliverable(e) ==
    /\ e \in emitted
    /\ e \notin processed
    /\ ~InFlight(e)
    /\ Exists(sessions[e.session].order)
-----------------------------------------------------------------------------
\* checkout.session.completed for an order already PAID changes nothing else.
\* Mutant: any payment status but pending counts as settled.
AlreadySettled(row) == row.payment # "pending"

AlreadyPaid(row) == row.payment = "paid"

CompletedAlreadyPaid(s) ==
    /\ Deliverable(Event("completed", s))
    /\ AlreadyPaid(orders[sessions[s].order])
    /\ Process(Event("completed", s))
    /\ UNCHANGED <<stock, catalog, orders, items, timeline, notified, db, stripe>>

BeginCompleted(p, s) ==
    LET o == sessions[s].order
    IN  /\ Free(p)
        /\ Deliverable(Event("completed", s))
        /\ ~AlreadyPaid(orders[o])
        /\ db' = [db EXCEPT ![p] = [Loaded("completed", o) EXCEPT !.session = s]]
        /\ UNCHANGED <<tables, stripe>>

\* What a payment writes: PAID, the session and the PaymentIntent that paid.
\* Mutant: the order's current session is taken for the one that paid.
PaidByCurrent(row, s) == [row EXCEPT !.payment = "paid", !.intent = row.session]

PaidBy(row, s) == [row EXCEPT !.payment = "paid", !.session = s, !.intent = s]

\* consume_stock_reservation_once matched: the sale is made, owners are told.
CommitCompleted(p) ==
    LET o == db[p].order
        s == db[p].session
        row == db[p].row
    IN  /\ Busy(p, "completed")
        /\ Consumable(orders[o])
        /\ orders' = [orders EXCEPT ![o] =
                        Flush(ConsumeOnce(@), row, PaidBy(row, s))]
        /\ Record(o, "paid")
        /\ notified' = [notified EXCEPT ![o] = @ + 1]
        /\ Process(Event("completed", s))
        /\ Done(p)
        /\ UNCHANGED <<stock, catalog, items, stripe>>

\* It matched no row and, read again, the reservation has been released.
RefreshCompleted(p) ==
    LET o == db[p].order
    IN  /\ Busy(p, "completed")
        /\ orders[o].reservation = "released"
        /\ db' = [db EXCEPT ![p].op = "late", ![p].row = orders[o]]
        /\ UNCHANGED <<tables, stripe>>

\* Payment after release: PAID, and an event that asks for a manual review.
CommitLatePayment(p) ==
    LET o == db[p].order
        s == db[p].session
        row == db[p].row
    IN  /\ Busy(p, "late")
        /\ orders' = [orders EXCEPT ![o] = Flush(@, row, PaidBy(row, s))]
        /\ Record(o, "late_payment")
        /\ Process(Event("completed", s))
        /\ Done(p)
        /\ UNCHANGED <<stock, catalog, items, notified, stripe>>

\* It matched no row because another payment consumed the reservation.
IgnoreCompleted(p) ==
    /\ Busy(p, "completed")
    /\ orders[db[p].order].reservation = "consumed"
    /\ Process(Event("completed", db[p].session))
    /\ Done(p)
    /\ UNCHANGED <<stock, catalog, orders, items, timeline, notified, stripe>>
-----------------------------------------------------------------------------
\* checkout.session.expired counts only for an unpaid order whose current
\* session it is.
\* Mutant: only a processing order expires.
ExpiryAppliesProcessing(o, s) ==
    /\ orders[o].payment = "pending"
    /\ orders[o].session = s
    /\ orders[o].status = "processing"

ExpiryApplies(o, s) == orders[o].payment = "pending" /\ orders[o].session = s

IgnoreExpired(s) ==
    /\ Deliverable(Event("expired", s))
    /\ ~ExpiryApplies(sessions[s].order, s)
    /\ Process(Event("expired", s))
    /\ UNCHANGED <<stock, catalog, orders, items, timeline, notified, db, stripe>>

BeginExpired(p, s) ==
    LET o == sessions[s].order
    IN  /\ Free(p)
        /\ Deliverable(Event("expired", s))
        /\ ExpiryApplies(o, s)
        /\ db' = [db EXCEPT ![p] = [Loaded("expired", o) EXCEPT !.session = s]]
        /\ UNCHANGED <<tables, stripe>>

\* Release the reservation and, only if that succeeded, cancel the order.
CommitExpired(p) ==
    LET o == db[p].order
        new == [db[p].row EXCEPT !.status = "cancelled", !.payment = "failed"]
    IN  /\ Busy(p, "expired")
        /\ orders[o].reservation = "reserved"
        /\ ReleaseOrderStock(o)
        /\ orders' = [orders EXCEPT ![o] = Flush(ReleaseOnce(@), db[p].row, new)]
        /\ Record(o, "expired")
        /\ Process(Event("expired", db[p].session))
        /\ Done(p)
        /\ UNCHANGED <<catalog, items, notified, stripe>>

LoseExpired(p) ==
    /\ Busy(p, "expired")
    /\ orders[db[p].order].reservation # "reserved"
    /\ Process(Event("expired", db[p].session))
    /\ Done(p)
    /\ UNCHANGED <<stock, catalog, orders, items, timeline, notified, stripe>>
-----------------------------------------------------------------------------
\* A failed PaymentIntent may be one attempt of several: nothing is cancelled.
IntentFailed(s) ==
    /\ Deliverable(Event("failed", s))
    /\ Process(Event("failed", s))
    /\ UNCHANGED <<stock, catalog, orders, items, timeline, notified, db, stripe>>

\* charge.refunded finds its order by the PaymentIntent; without one (the
\* payment has not been recorded, or never was) the event is used up.
RefundUnmatched(s) ==
    /\ Deliverable(Event("refunded", s))
    /\ \A o \in Orders : orders[o].intent # s
    /\ Process(Event("refunded", s))
    /\ UNCHANGED <<stock, catalog, orders, items, timeline, notified, db, stripe>>

\* Mutant: the order is found by the metadata, as in the other handlers.
BeginRefundedByMetadata(p, s) ==
    /\ Free(p)
    /\ Deliverable(Event("refunded", s))
    /\ db' = [db EXCEPT ![p] =
                [Loaded("refunded", sessions[s].order) EXCEPT !.session = s]]
    /\ UNCHANGED <<tables, stripe>>

BeginRefunded(p, s) ==
    /\ Free(p)
    /\ Deliverable(Event("refunded", s))
    /\ \E o \in Orders :
          /\ orders[o].intent = s
          /\ db' = [db EXCEPT ![p] = [Loaded("refunded", o) EXCEPT !.session = s]]
    /\ UNCHANGED <<tables, stripe>>

CommitRefunded(p) ==
    LET o == db[p].order
        row == db[p].row
    IN  /\ Busy(p, "refunded")
        /\ orders' = [orders EXCEPT ![o] =
                        Flush(@, row, [row EXCEPT !.payment = "refunded"])]
        /\ Record(o, "refunded")
        /\ Process(Event("refunded", db[p].session))
        /\ Done(p)
        /\ UNCHANGED <<stock, catalog, items, notified, stripe>>
-----------------------------------------------------------------------------
\* A delivery of each kind of event, up to the point where the handler has
\* loaded its order or has nothing to write but the processed mark.
DeliverCompleted(s) ==
    CompletedAlreadyPaid(s) \/ \E p \in Procs : BeginCompleted(p, s)

DeliverExpired(s) == IgnoreExpired(s) \/ \E p \in Procs : BeginExpired(p, s)

DeliverRefunded(s) == RefundUnmatched(s) \/ \E p \in Procs : BeginRefunded(p, s)

\* The handler's transaction commits.
CommitWebhook(p) ==
    \/ CommitCompleted(p) \/ CommitLatePayment(p) \/ IgnoreCompleted(p)
    \/ CommitExpired(p) \/ LoseExpired(p) \/ CommitRefunded(p)

PaymentStep(p) == RefreshCompleted(p) \/ CommitWebhook(p)

DeliverWebhook(s) ==
    \/ DeliverCompleted(s) \/ DeliverExpired(s)
    \/ IntentFailed(s) \/ DeliverRefunded(s)
=============================================================================
