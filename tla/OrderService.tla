---------------------------- MODULE OrderService ----------------------------
(***************************************************************************)
(* The order service: checkout, continue payment, customer cancel and the  *)
(* owner's status change, one read step and one commit step each, with     *)
(* everything other requests do free to happen in between.                 *)
(***************************************************************************)
EXTENDS StripeCheckout

CONSTANT OwnerStatuses  \* bound: the statuses the owner sets in this instance

ASSUME OwnerStatusesAssumption == OwnerStatuses \subseteq OrderStatus

\* An id no row, request or Stripe session carries yet.
FreshOrder(o) ==
    /\ ~Exists(o)
    /\ \A p \in Procs : ~Free(p) => db[p].order # o
    /\ \A s \in Sessions : sessions[s].order # o

CanContinuePayment(row) ==
    /\ row.status = "processing"
    /\ row.payment = "pending"
    /\ row.reservation = "reserved"
-----------------------------------------------------------------------------
\* The checks of create_customer_order: every variant is on sale and was in
\* stock when it was looked up.
BeginCheckout(p, o, wants) ==
    /\ Free(p)
    /\ FreshOrder(o)
    /\ wants # Nothing
    /\ \A v \in Variants :
          wants[v] > 0 => catalog[v] = "on_sale" /\ stock[v] >= wants[v]
    /\ db' = [db EXCEPT ![p] = [Loaded("checkout", o) EXCEPT !.wants = wants]]
    /\ UNCHANGED <<tables, stripe>>

\* Reserve the stock, insert the order and its items, open a Stripe session,
\* store it and commit.
CommitCheckout(p, s) ==
    LET o == db[p].order
    IN  /\ Busy(p, "checkout")
        /\ StockCovers(db[p].wants)
        /\ DecrementStock(db[p].wants)
        /\ orders' = [orders EXCEPT ![o] =
                        [NoOrder EXCEPT !.reservation = "reserved", !.session = s]]
        /\ items' = [items EXCEPT ![o] = db[p].wants]
        /\ CreateSession(s, o, "open")
        /\ Done(p)
        /\ UNCHANGED <<catalog, timeline, notified, processed, emitted>>

\* A variant sold out, or was deleted, after the check: roll back.
RejectCheckout(p) ==
    /\ Busy(p, "checkout")
    /\ ~StockCovers(db[p].wants)
    /\ Done(p)
    /\ UNCHANGED <<tables, stripe>>

\* The transaction is lost after the Stripe session was created: the session
\* names an order that will never exist.
LoseCheckout(p, s) ==
    /\ Busy(p, "checkout")
    /\ StockCovers(db[p].wants)
    /\ CreateSession(s, db[p].order, "created")
    /\ Done(p)
    /\ UNCHANGED <<tables, emitted>>
-----------------------------------------------------------------------------
\* continue_customer_order_payment with an expired URL (an active one is just
\* returned): load, check, and create another session at Stripe.
BeginContinue(p, o, s) ==
    /\ Free(p)
    /\ CanContinuePayment(orders[o])
    /\ sessions[orders[o].session].lapsed
    /\ CreateSession(s, o, "created")
    /\ db' = [db EXCEPT ![p] = [Loaded("continue", o) EXCEPT !.session = s]]
    /\ UNCHANGED <<tables, emitted>>

CommitContinue(p) ==
    LET o == db[p].order
        new == [db[p].row EXCEPT !.session = db[p].session]
    IN  /\ Busy(p, "continue")
        /\ orders' = [orders EXCEPT ![o] = Flush(@, db[p].row, new)]
        /\ IssueUrl(db[p].session)
        /\ Done(p)
        /\ UNCHANGED <<stock, catalog, items, timeline, notified, processed, emitted>>
-----------------------------------------------------------------------------
BeginCancel(p, o) ==
    /\ Free(p)
    /\ CanContinuePayment(orders[o])
    /\ db' = [db EXCEPT ![p] = Loaded("cancel", o)]
    /\ UNCHANGED <<tables, stripe>>

\* The result of the release is not looked at: the order is marked cancelled
\* and failed whether or not the reservation was still there.
\* Mutant: cancel without release.
CancelKeepingStock(p) ==
    LET o == db[p].order
        new == [db[p].row EXCEPT !.status = "cancelled", !.payment = "failed"]
    IN  /\ Busy(p, "cancel")
        /\ orders' = [orders EXCEPT ![o] = Flush(@, db[p].row, new)]
        /\ Record(o, "customer_cancelled")
        /\ Done(p)
        /\ UNCHANGED <<stock, catalog, items, notified, processed, stripe>>

CommitCancel(p) ==
    LET o == db[p].order
        new == [db[p].row EXCEPT !.status = "cancelled", !.payment = "failed"]
    IN  /\ Busy(p, "cancel")
        /\ ReleaseOrderStock(o)
        /\ orders' = [orders EXCEPT ![o] = Flush(ReleaseOnce(@), db[p].row, new)]
        /\ Record(o, "customer_cancelled")
        /\ Done(p)
        /\ UNCHANGED <<catalog, items, notified, processed, stripe>>
-----------------------------------------------------------------------------
BeginOwnerStatus(p, o, status) ==
    /\ Free(p)
    /\ Exists(o)
    /\ db' = [db EXCEPT ![p] = [Loaded("owner_status", o) EXCEPT !.status = status]]
    /\ UNCHANGED <<tables, stripe>>

\* Cancelling gives the stock back when the LOADED order was unpaid and
\* reserved.
\* Mutant: only an order that is still processing is released.
OwnerReleasesProcessing(row, status) ==
    /\ status = "cancelled"
    /\ row.status = "processing"
    /\ row.payment = "pending"
    /\ row.reservation = "reserved"

OwnerReleases(row, status) ==
    /\ status = "cancelled"
    /\ row.payment = "pending"
    /\ row.reservation = "reserved"

\* update_owner_order_status: any status may follow any other.
CommitOwnerStatus(p) ==
    LET o == db[p].order
        row == db[p].row
        new == [row EXCEPT !.status = db[p].status]
        releases == OwnerReleases(row, db[p].status)
    IN  /\ Busy(p, "owner_status")
        /\ IF releases THEN ReleaseOrderStock(o) ELSE UNCHANGED stock
        /\ orders' = [orders EXCEPT ![o] =
                        Flush(IF releases THEN ReleaseOnce(@) ELSE @, row, new)]
        /\ Done(p)
        /\ UNCHANGED <<catalog, items, timeline, notified, processed, stripe>>
-----------------------------------------------------------------------------
CommitOrderRequest(p) ==
    \/ \E s \in Sessions : CommitCheckout(p, s)
    \/ RejectCheckout(p)
    \/ CommitContinue(p)
    \/ CommitCancel(p)
    \/ CommitOwnerStatus(p)

OrderStep(p) ==
    \/ \E o \in Orders, wants \in Quantities : BeginCheckout(p, o, wants)
    \/ \E o \in Orders, s \in Sessions : BeginContinue(p, o, s)
    \/ \E o \in Orders : BeginCancel(p, o)
    \/ \E o \in Orders, status \in OwnerStatuses : BeginOwnerStatus(p, o, status)
    \/ \E s \in Sessions : LoseCheckout(p, s)
    \/ CommitOrderRequest(p)
=============================================================================
