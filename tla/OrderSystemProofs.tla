-------------------------- MODULE OrderSystemProofs --------------------------
(***************************************************************************)
(* The order flow keeps its tables well typed, never leaves a cancelled or *)
(* a paid order with open reservations, and implements StockReservation,   *)
(* for any numbers of orders, variants, sessions and requests.             *)
(***************************************************************************)
EXTENDS OrderSystem, TLAPS

Typed == TypeOK /\ SessionsKnown

\* Saving an object writes a row, and never its reservation.
LEMMA FlushRow ==
    ASSUME NEW row \in OrderRow, NEW loaded \in OrderRow, NEW new \in OrderRow
    PROVE  /\ Flush(row, loaded, new) \in OrderRow
           /\ Flush(row, loaded, new).reservation = row.reservation
BY DEF Flush, OrderRow

\* The guarded UPDATEs turn rows into rows.
LEMMA OnceRow ==
    ASSUME NEW row \in OrderRow
    PROVE  ReleaseOnce(row) \in OrderRow /\ ConsumeOnce(row) \in OrderRow
BY DEF ReleaseOnce, ConsumeOnce, Consumable, OrderRow, StockReservationStatus

\* A request that loads an order is a well-typed request.
LEMMA LoadedRequest ==
    ASSUME TypeOK, NEW op \in Operations, NEW o \in Orders
    PROVE  /\ Loaded(op, o) \in Request
           /\ Loaded(op, o) # Idle
           /\ \A s \in Sessions : [Loaded(op, o) EXCEPT !.session = s] \in Request
           /\ \A w \in Quantities : [Loaded(op, o) EXCEPT !.wants = w] \in Request
           /\ \A t \in OrderStatus : [Loaded(op, o) EXCEPT !.status = t] \in Request
<1>1. Nothing \in Quantities
  BY BoundsAssumption DEF Nothing, Quantities
<1>2. orders[o] \in OrderRow
  BY DEF TypeOK, StoreTypeOK
<1> QED
  BY <1>1, <1>2 DEF Loaded, Request, OrderStatus, Operations, Idle

\* A busy request has the fields of a request.
LEMMA BusyRequest ==
    ASSUME TypeOK, NEW p \in Procs, db[p] # Idle
    PROVE  /\ db[p] \in Request
           /\ db[p].order \in Orders
           /\ db[p].row \in OrderRow
           /\ db[p].wants \in Quantities
           /\ db[p].status \in OrderStatus
           /\ db[p].session \in Sessions \cup {None}
BY DEF TypeOK, StoreTypeOK, Request
-----------------------------------------------------------------------------
(***************************************************************************)
(* Type correctness.                                                       *)
(***************************************************************************)
\* Stripe's own steps touch only sessions and emitted events.
LEMMA StripeTyped ==
    ASSUME Typed, NEW s \in Sessions, StripeStep(s)
    PROVE  Typed'
<1> USE DEF Typed, TypeOK, StoreTypeOK, StripeTypeOK, SessionsKnown, tables
<1> USE DEF CheckoutSession, SessionState, PaymentEvent, Emit, Event
<1>1. CASE Pay(s)
  BY <1>1, KindsAssumption DEF Pay
<1>2. CASE FailAttempt(s)
  BY <1>2, KindsAssumption DEF FailAttempt
<1>3. CASE PassExpiry(s)
  BY <1>3 DEF PassExpiry
<1>4. CASE Expire(s)
  BY <1>4, KindsAssumption DEF Expire
<1>5. CASE Refund(s)
  BY <1>5, KindsAssumption DEF Refund
<1> QED
  BY <1>1, <1>2, <1>3, <1>4, <1>5 DEF StripeStep

\* The owner's catalog steps touch only stock and catalog.
LEMMA CatalogTyped ==
    ASSUME Typed, NEW v \in Variants, CatalogStep(v)
    PROVE  Typed'
<1> USE DEF Typed, TypeOK, StoreTypeOK, StripeTypeOK, SessionsKnown, stripe
<1>1. ASSUME NEW n \in 0..MaxStock, EditVariantStock(v, n) PROVE Typed'
  BY <1>1, BoundsAssumption DEF EditVariantStock
<1>2. ASSUME NEW status \in {"on_sale", "off_sale"}, SetOnSale(v, status)
      PROVE  Typed'
  BY <1>2 DEF SetOnSale, CatalogStatus
<1>3. CASE RemoveVariant(v)
  BY <1>3 DEF RemoveVariant, CatalogStatus
<1> QED
  BY <1>1, <1>2, <1>3 DEF CatalogStep

\* A request that begins is well typed, and is about a session if it has to be.
LEMMA BeginTyped ==
    ASSUME Typed, NEW p \in Procs, NEW r \in Request,
           db' = [db EXCEPT ![p] = r],
           r.op \notin {"checkout", "cancel", "owner_status"} =>
               r.session \in Sessions /\ sessions[r.session].state # "unused",
           UNCHANGED <<tables, stripe>>
    PROVE  Typed'
BY DEF Typed, TypeOK, StoreTypeOK, StripeTypeOK, SessionsKnown, tables, stripe

\* So is the rest when a request ends without writing.
LEMMA DoneTyped ==
    ASSUME Typed, NEW p \in Procs, Done(p), UNCHANGED <<tables, stripe>>
    PROVE  Typed'
BY DEF Typed, TypeOK, StoreTypeOK, StripeTypeOK, SessionsKnown, tables, stripe, Done

\* An event that is marked processed, whether or not the request ends with it.
LEMMA ProcessTyped ==
    ASSUME Typed, NEW kind \in EventKinds, NEW s \in Sessions,
           Process(Event(kind, s)),
           db' = db \/ \E p \in Procs : Done(p),
           UNCHANGED <<stock, catalog, orders, items, timeline, notified, stripe>>
    PROVE  Typed'
<1> USE DEF Typed, TypeOK, StoreTypeOK, StripeTypeOK, SessionsKnown, stripe
<1>1. processed' \subseteq PaymentEvent
  BY DEF Process, Event, PaymentEvent
<1>2. db' \in [Procs -> Request \cup {Idle}]
  BY DEF Done
<1> QED
  BY <1>1, <1>2 DEF Done

\* What a step may do to the sessions: they stay typed and are never unmade.
SessionsGrow ==
    /\ sessions' \in [Sessions -> CheckoutSession]
    /\ \A s \in Sessions :
          /\ sessions'[s].state # "unused" => sessions'[s].order \in Orders
          /\ sessions[s].state # "unused" => sessions'[s].state # "unused"

\* A session is created for an order.
LEMMA CreateGrows ==
    ASSUME Typed, NEW s \in Sessions, NEW o \in Orders,
           NEW state \in {"created", "open"}, CreateSession(s, o, state)
    PROVE  SessionsGrow /\ sessions'[s].state # "unused"
<1>1. sessions \in [Sessions -> CheckoutSession]
  BY DEF Typed, TypeOK, StripeTypeOK
<1>2. [order |-> o, state |-> state, lapsed |-> FALSE] \in CheckoutSession
  BY DEF CheckoutSession, SessionState
<1> QED
  BY <1>1, <1>2 DEF CreateSession, SessionsGrow, Typed, SessionsKnown

\* The URL of a session is handed out.
LEMMA IssueGrows ==
    ASSUME Typed, NEW s \in Sessions, sessions[s].state # "unused", IssueUrl(s)
    PROVE  SessionsGrow
<1>1. sessions \in [Sessions -> CheckoutSession]
  BY DEF Typed, TypeOK, StripeTypeOK
<1>2. [sessions[s] EXCEPT !.state = "open"] \in CheckoutSession
  BY <1>1 DEF CheckoutSession, SessionState
<1>3. sessions' = [sessions EXCEPT ![s] = [sessions[s] EXCEPT !.state = "open"]]
  BY DEF IssueUrl
<1>4. [sessions[s] EXCEPT !.state = "open"].order = sessions[s].order
  BY <1>1 DEF CheckoutSession
<1>5. [sessions[s] EXCEPT !.state = "open"].state = "open"
  BY <1>1 DEF CheckoutSession
<1> QED
  BY <1>1, <1>2, <1>3, <1>4, <1>5 DEF SessionsGrow, Typed, SessionsKnown

\* A commit that gives well-typed values to the tables it writes.
LEMMA CommitTyped ==
    ASSUME Typed, NEW p \in Procs, Done(p),
           stock' \in [Variants -> Nat],
           orders' \in [Orders -> OrderRow],
           items' \in [Orders -> Quantities],
           timeline' \in [Orders -> SUBSET Messages],
           notified' \in [Orders -> Nat],
           processed' \subseteq PaymentEvent,
           catalog' = catalog, emitted' = emitted,
           sessions' = sessions \/ SessionsGrow
    PROVE  Typed'
<1> USE DEF Typed, TypeOK, StoreTypeOK, StripeTypeOK, SessionsKnown
<1>1. SessionsGrow
  BY DEF SessionsGrow
<1>2. db' \in [Procs -> Request \cup {Idle}]
  BY DEF Done
<1>3. \A e \in emitted' : sessions'[e.session].state # "unused"
  BY <1>1 DEF PaymentEvent, SessionsGrow
<1>4. ASSUME NEW q \in Procs, db'[q] # Idle,
             db'[q].op \notin {"checkout", "cancel", "owner_status"}
      PROVE  /\ db'[q].session \in Sessions
             /\ sessions'[db'[q].session].state # "unused"
  <2>1. db'[q] = db[q] /\ db[q] # Idle
    BY <1>4 DEF Done
  <2> QED
    BY <1>1, <1>4, <2>1 DEF SessionsGrow
<1> QED
  BY <1>1, <1>2, <1>3, <1>4 DEF SessionsGrow

\* Returned and taken stock stays a natural number: what is decremented was
\* there.
LEMMA StockTyped ==
    ASSUME TypeOK
    PROVE  /\ \A o \in Orders : IncrementStock(o) => stock' \in [Variants -> Nat]
           /\ \A o \in Orders : ReleaseOrderStock(o) => stock' \in [Variants -> Nat]
           /\ \A wants \in Quantities : StockCovers(wants) /\ DecrementStock(wants)
                 => stock' \in [Variants -> Nat]
<1> USE BoundsAssumption DEF TypeOK, StoreTypeOK, Quantities
<1>1. \A o \in Orders : \A v \in Variants : stock[v] + items[o][v] \in Nat
  OBVIOUS
<1>2. ASSUME NEW o \in Orders, IncrementStock(o) PROVE stock' \in [Variants -> Nat]
  BY <1>1, <1>2 DEF IncrementStock
<1>3. ASSUME NEW o \in Orders, ReleaseOrderStock(o)
      PROVE  stock' \in [Variants -> Nat]
  BY <1>2, <1>3 DEF ReleaseOrderStock
<1>4. ASSUME NEW wants \in Quantities, StockCovers(wants), DecrementStock(wants)
      PROVE  stock' \in [Variants -> Nat]
  <2>1. \A v \in Variants : wants[v] > 0 => stock[v] - wants[v] \in Nat
    BY <1>4 DEF StockCovers
  <2> QED
    BY <1>4, <2>1 DEF DecrementStock
<1> QED
  BY <1>2, <1>3, <1>4

\* The requests of customers and owners keep the types.
LEMMA OrderTyped ==
    ASSUME Typed, NEW p \in Procs, OrderStep(p)
    PROVE  Typed'
<1> USE DEF Typed
<1>0. /\ stock \in [Variants -> Nat]
      /\ orders \in [Orders -> OrderRow]
      /\ items \in [Orders -> Quantities]
      /\ timeline \in [Orders -> SUBSET Messages]
      /\ notified \in [Orders -> Nat]
      /\ processed \subseteq PaymentEvent
      /\ sessions \in [Sessions -> CheckoutSession]
  BY DEF TypeOK, StoreTypeOK, StripeTypeOK
<1>1. ASSUME NEW o \in Orders, NEW wants \in Quantities, BeginCheckout(p, o, wants)
      PROVE  Typed'
  <2> DEFINE r == [Loaded("checkout", o) EXCEPT !.wants = wants]
  <2>1. r \in Request /\ r.op = "checkout"
    BY LoadedRequest DEF Loaded, Operations
  <2>2. db' = [db EXCEPT ![p] = r] /\ UNCHANGED <<tables, stripe>>
    BY <1>1 DEF BeginCheckout
  <2> HIDE DEF r
  <2> QED
    BY <2>1, <2>2, BeginTyped
<1>2. ASSUME NEW s \in Sessions, CommitCheckout(p, s) PROVE Typed'
  <2> DEFINE o == db[p].order
             row == [NoOrder EXCEPT !.reservation = "reserved", !.session = s]
  <2>1. o \in Orders /\ db[p].wants \in Quantities
    BY <1>2, BusyRequest DEF CommitCheckout, Busy
  <2>2. row \in OrderRow
    BY DEF NoOrder, OrderRow, OrderStatus, PaymentStatus, StockReservationStatus
  <2>3. stock' \in [Variants -> Nat]
    BY <1>2, <2>1, StockTyped DEF CommitCheckout
  <2>4. orders' \in [Orders -> OrderRow] /\ items' \in [Orders -> Quantities]
    BY <1>0, <1>2, <2>1, <2>2 DEF CommitCheckout
  <2>5. Done(p) /\ UNCHANGED <<catalog, timeline, notified, processed, emitted>>
    BY <1>2 DEF CommitCheckout
  <2>6. SessionsGrow
    BY <1>2, <2>1, CreateGrows DEF CommitCheckout
  <2> HIDE DEF o, row
  <2> QED
    BY <1>0, <2>3, <2>4, <2>5, <2>6, CommitTyped
<1>3. CASE RejectCheckout(p)
  BY <1>3, DoneTyped DEF RejectCheckout
<1>4. ASSUME NEW s \in Sessions, LoseCheckout(p, s) PROVE Typed'
  <2> DEFINE o == db[p].order
  <2>1. o \in Orders
    BY <1>4, BusyRequest DEF LoseCheckout, Busy
  <2>2. Done(p) /\ UNCHANGED tables /\ UNCHANGED emitted
    BY <1>4 DEF LoseCheckout
  <2>3. SessionsGrow
    BY <1>4, <2>1, CreateGrows DEF LoseCheckout
  <2> HIDE DEF o
  <2> QED
    BY <1>0, <2>2, <2>3, CommitTyped DEF tables
<1>5. ASSUME NEW o \in Orders, NEW s \in Sessions, BeginContinue(p, o, s)
      PROVE  Typed'
  <2> DEFINE r == [Loaded("continue", o) EXCEPT !.session = s]
  <2>1. r \in Request /\ r.session \in Sessions
    BY LoadedRequest DEF Loaded, Operations
  <2>2. db' = [db EXCEPT ![p] = r] /\ UNCHANGED tables /\ UNCHANGED emitted
    BY <1>5 DEF BeginContinue
  <2>3. SessionsGrow /\ sessions'[r.session].state # "unused"
    BY <1>5, CreateGrows DEF BeginContinue, Loaded
  <2> HIDE DEF r
  <2>4. StoreTypeOK' /\ StripeTypeOK'
    BY <2>1, <2>2, <2>3 DEF TypeOK, StoreTypeOK, StripeTypeOK, tables, SessionsGrow
  <2>5. SessionsKnown'
    BY <2>1, <2>2, <2>3 DEF TypeOK, StoreTypeOK, StripeTypeOK, SessionsKnown,
                            PaymentEvent, SessionsGrow
  <2> QED
    BY <2>4, <2>5 DEF TypeOK
<1>6. CASE CommitContinue(p)
  <2> DEFINE o == db[p].order
             s == db[p].session
             new == [db[p].row EXCEPT !.session = s]
  <2>1. /\ db[p] # Idle /\ o \in Orders /\ db[p].row \in OrderRow
        /\ s \in Sessions /\ sessions[s].state # "unused"
    BY <1>6, BusyRequest DEF CommitContinue, Busy, SessionsKnown
  <2>2. new \in OrderRow
    BY <2>1 DEF OrderRow
  <2>3. Flush(orders[o], db[p].row, new) \in OrderRow
    BY <1>0, <2>1, <2>2, FlushRow
  <2>4. /\ orders' = [orders EXCEPT ![o] = Flush(orders[o], db[p].row, new)]
        /\ Done(p)
        /\ UNCHANGED <<stock, catalog, items, timeline, notified, processed, emitted>>
    BY <1>6 DEF CommitContinue
  <2>5. SessionsGrow
    BY <1>6, <2>1, IssueGrows DEF CommitContinue
  <2> HIDE DEF o, s, new
  <2>6. orders' \in [Orders -> OrderRow]
    BY <1>0, <2>1, <2>3, <2>4
  <2> QED
    BY <1>0, <2>4, <2>5, <2>6, CommitTyped
<1>7. ASSUME NEW o \in Orders, BeginCancel(p, o) PROVE Typed'
  <2> DEFINE r == Loaded("cancel", o)
  <2>1. r \in Request /\ r.op = "cancel"
    BY LoadedRequest DEF Loaded, Operations
  <2>2. db' = [db EXCEPT ![p] = r] /\ UNCHANGED <<tables, stripe>>
    BY <1>7 DEF BeginCancel
  <2> HIDE DEF r
  <2> QED
    BY <2>1, <2>2, BeginTyped
<1>8. CASE CommitCancel(p)
  <2> DEFINE o == db[p].order
             new == [db[p].row EXCEPT !.status = "cancelled", !.payment = "failed"]
  <2>1. db[p] # Idle /\ o \in Orders /\ db[p].row \in OrderRow
    BY <1>8, BusyRequest DEF CommitCancel, Busy
  <2>2. new \in OrderRow
    BY <2>1 DEF OrderRow, OrderStatus, PaymentStatus
  <2>3. Flush(ReleaseOnce(orders[o]), db[p].row, new) \in OrderRow
    BY <1>0, <2>1, <2>2, FlushRow, OnceRow
  <2>4. /\ orders' = [orders EXCEPT ![o] =
                        Flush(ReleaseOnce(orders[o]), db[p].row, new)]
        /\ Done(p)
        /\ UNCHANGED <<catalog, items, notified, processed, stripe>>
    BY <1>8 DEF CommitCancel
  <2>5. stock' \in [Variants -> Nat]
    BY <1>8, <2>1, StockTyped DEF CommitCancel
  <2>6. timeline' \in [Orders -> SUBSET Messages]
    BY <1>0, <1>8, <2>1 DEF CommitCancel, Record, Messages
  <2> HIDE DEF o, new
  <2>7. orders' \in [Orders -> OrderRow]
    BY <1>0, <2>1, <2>3, <2>4
  <2> QED
    BY <1>0, <2>4, <2>5, <2>6, <2>7, CommitTyped DEF stripe
<1>9. ASSUME NEW o \in Orders, NEW status \in OwnerStatuses,
             BeginOwnerStatus(p, o, status)
      PROVE  Typed'
  <2> DEFINE r == [Loaded("owner_status", o) EXCEPT !.status = status]
  <2>1. r \in Request /\ r.op = "owner_status"
    BY LoadedRequest, OwnerStatusesAssumption DEF Loaded, Operations
  <2>2. db' = [db EXCEPT ![p] = r] /\ UNCHANGED <<tables, stripe>>
    BY <1>9 DEF BeginOwnerStatus
  <2> HIDE DEF r
  <2> QED
    BY <2>1, <2>2, BeginTyped
<1>10. CASE CommitOwnerStatus(p)
  <2> DEFINE o == db[p].order
             new == [db[p].row EXCEPT !.status = db[p].status]
             row == IF OwnerReleases(db[p].row, db[p].status)
                    THEN ReleaseOnce(orders[o]) ELSE orders[o]
  <2>1. /\ db[p] # Idle /\ o \in Orders /\ db[p].row \in OrderRow
        /\ db[p].status \in OrderStatus
    BY <1>10, BusyRequest DEF CommitOwnerStatus, Busy
  <2>2. new \in OrderRow /\ row \in OrderRow
    BY <1>0, <2>1, OnceRow DEF OrderRow
  <2>3. Flush(row, db[p].row, new) \in OrderRow
    BY <2>1, <2>2, FlushRow
  <2>4. /\ orders' = [orders EXCEPT ![o] = Flush(row, db[p].row, new)]
        /\ Done(p)
        /\ UNCHANGED <<catalog, items, timeline, notified, processed, stripe>>
    BY <1>10 DEF CommitOwnerStatus
  <2>5. stock' \in [Variants -> Nat]
    BY <1>0, <1>10, <2>1, StockTyped DEF CommitOwnerStatus
  <2> HIDE DEF o, new, row
  <2>6. orders' \in [Orders -> OrderRow]
    BY <1>0, <2>1, <2>3, <2>4
  <2> QED
    BY <1>0, <2>4, <2>5, <2>6, CommitTyped DEF stripe
<1> QED
  BY <1>1, <1>2, <1>3, <1>4, <1>5, <1>6, <1>7, <1>8, <1>9, <1>10
  DEF OrderStep, CommitOrderRequest

\* The arrival of a webhook keeps the types.
LEMMA DeliveryTyped ==
    ASSUME Typed, NEW s \in Sessions, DeliverWebhook(s)
    PROVE  Typed'
<1> USE DEF EventKinds
<1>1. ASSUME NEW kind \in EventKinds, Deliverable(Event(kind, s))
      PROVE  sessions[s].order \in Orders /\ sessions[s].state # "unused"
  BY <1>1 DEF Typed, SessionsKnown, Deliverable, Event
<1>2. CASE CompletedAlreadyPaid(s)
  BY <1>2, ProcessTyped DEF CompletedAlreadyPaid
<1>3. CASE IgnoreExpired(s)
  BY <1>3, ProcessTyped DEF IgnoreExpired
<1>4. CASE IntentFailed(s)
  BY <1>4, ProcessTyped DEF IntentFailed
<1>5. CASE RefundUnmatched(s)
  BY <1>5, ProcessTyped DEF RefundUnmatched
<1>6. ASSUME NEW p \in Procs, NEW op \in {"completed", "expired", "refunded"},
             NEW o \in Orders, Deliverable(Event(op, s)),
             db' = [db EXCEPT ![p] = [Loaded(op, o) EXCEPT !.session = s]],
             UNCHANGED <<tables, stripe>>
      PROVE  Typed'
  <2> DEFINE r == [Loaded(op, o) EXCEPT !.session = s]
  <2>1. r \in Request /\ r.session = s
    BY LoadedRequest DEF Loaded, Operations, Typed
  <2>2. db' = [db EXCEPT ![p] = r] /\ sessions[s].state # "unused"
    BY <1>1, <1>6
  <2> HIDE DEF r
  <2> QED
    BY <1>6, <2>1, <2>2, BeginTyped
<1>7. ASSUME NEW p \in Procs, BeginCompleted(p, s) PROVE Typed'
  BY <1>1, <1>6, <1>7 DEF BeginCompleted
<1>8. ASSUME NEW p \in Procs, BeginExpired(p, s) PROVE Typed'
  BY <1>1, <1>6, <1>8 DEF BeginExpired
<1>9. ASSUME NEW p \in Procs, BeginRefunded(p, s) PROVE Typed'
  BY <1>6, <1>9 DEF BeginRefunded
<1> QED
  BY <1>2, <1>3, <1>4, <1>5, <1>7, <1>8, <1>9
  DEF DeliverWebhook, DeliverCompleted, DeliverExpired, DeliverRefunded

\* The webhook handlers keep the types.
LEMMA PaymentTyped ==
    ASSUME Typed, NEW p \in Procs, PaymentStep(p)
    PROVE  Typed'
<1> DEFINE o == db[p].order
           s == db[p].session
           row == db[p].row
<1> USE DEF EventKinds
<1>0. /\ stock \in [Variants -> Nat]
      /\ orders \in [Orders -> OrderRow]
      /\ items \in [Orders -> Quantities]
      /\ timeline \in [Orders -> SUBSET Messages]
      /\ notified \in [Orders -> Nat]
      /\ processed \subseteq PaymentEvent
  BY DEF Typed, TypeOK, StoreTypeOK, StripeTypeOK
<1>1. ASSUME NEW op \in {"completed", "late", "expired", "refunded"}, Busy(p, op)
      PROVE  /\ db[p] \in Request /\ db[p] # Idle
             /\ o \in Orders /\ row \in OrderRow
             /\ s \in Sessions /\ sessions[s].state # "unused"
  BY <1>1, BusyRequest DEF Busy, Typed, SessionsKnown
<1>2. ASSUME NEW m \in Messages, o \in Orders, Record(o, m)
      PROVE  timeline' \in [Orders -> SUBSET Messages]
  BY <1>0, <1>2 DEF Record
<1>3. ASSUME NEW k \in EventKinds, s \in Sessions, Process(Event(k, s))
      PROVE  processed' \subseteq PaymentEvent
  BY <1>0, <1>3 DEF Process, Event, PaymentEvent
<1>4. ASSUME row \in OrderRow, s \in Sessions
      PROVE  /\ PaidBy(row, s) \in OrderRow
             /\ [row EXCEPT !.payment = "refunded"] \in OrderRow
             /\ [row EXCEPT !.status = "cancelled", !.payment = "failed"] \in OrderRow
  BY <1>4 DEF PaidBy, OrderRow, OrderStatus, PaymentStatus
<1>5. ASSUME o \in Orders, NEW new \in OrderRow, orders' = [orders EXCEPT ![o] = new]
      PROVE  orders' \in [Orders -> OrderRow]
  BY <1>0, <1>5
<1>6. CASE RefreshCompleted(p)
  <2>1. db[p] \in Request /\ o \in Orders /\ s \in Sessions
        /\ sessions[s].state # "unused"
    BY <1>1, <1>6 DEF RefreshCompleted
  <2> DEFINE r == [db[p] EXCEPT !.op = "late", !.row = orders[o]]
  <2>2. r \in Request /\ r.session = s
    BY <1>0, <2>1 DEF Request, Operations
  <2>3. db' = [db EXCEPT ![p] = r] /\ UNCHANGED <<tables, stripe>>
    BY <1>6 DEF RefreshCompleted, Typed, TypeOK, StoreTypeOK
  <2> HIDE DEF r
  <2> QED
    BY <2>1, <2>2, <2>3, BeginTyped
<1>7. CASE CommitCompleted(p)
  <2>1. o \in Orders /\ row \in OrderRow /\ s \in Sessions
    BY <1>1, <1>7 DEF CommitCompleted
  <2>2. Flush(ConsumeOnce(orders[o]), row, PaidBy(row, s)) \in OrderRow
    BY <1>0, <1>4, <2>1, FlushRow, OnceRow
  <2>3. orders' \in [Orders -> OrderRow]
    BY <1>5, <1>7, <2>1, <2>2 DEF CommitCompleted
  <2>4. timeline' \in [Orders -> SUBSET Messages]
    BY <1>2, <1>7, <2>1 DEF CommitCompleted, Messages
  <2>5. processed' \subseteq PaymentEvent
    BY <1>3, <1>7, <2>1 DEF CommitCompleted
  <2>6. notified' \in [Orders -> Nat]
    BY <1>0, <1>7, <2>1 DEF CommitCompleted
  <2>7. Done(p) /\ UNCHANGED <<stock, catalog, items, sessions, emitted>>
    BY <1>7 DEF CommitCompleted, stripe
  <2> QED
    BY <1>0, <2>3, <2>4, <2>5, <2>6, <2>7, CommitTyped
<1>8. CASE CommitLatePayment(p)
  <2>1. o \in Orders /\ row \in OrderRow /\ s \in Sessions
    BY <1>1, <1>8 DEF CommitLatePayment
  <2>2. Flush(orders[o], row, PaidBy(row, s)) \in OrderRow
    BY <1>0, <1>4, <2>1, FlushRow
  <2>3. orders' \in [Orders -> OrderRow]
    BY <1>5, <1>8, <2>1, <2>2 DEF CommitLatePayment
  <2>4. timeline' \in [Orders -> SUBSET Messages]
    BY <1>2, <1>8, <2>1 DEF CommitLatePayment, Messages
  <2>5. processed' \subseteq PaymentEvent
    BY <1>3, <1>8, <2>1 DEF CommitLatePayment
  <2>6. Done(p) /\ UNCHANGED <<stock, catalog, items, notified, sessions, emitted>>
    BY <1>8 DEF CommitLatePayment, stripe
  <2> QED
    BY <1>0, <2>3, <2>4, <2>5, <2>6, CommitTyped
<1>9. CASE IgnoreCompleted(p)
  <2>1. s \in Sessions
    BY <1>1, <1>9 DEF IgnoreCompleted
  <2> QED
    BY <1>9, <2>1, ProcessTyped DEF IgnoreCompleted
<1>10. CASE CommitExpired(p)
  <2> DEFINE new == [row EXCEPT !.status = "cancelled", !.payment = "failed"]
  <2>1. o \in Orders /\ row \in OrderRow /\ s \in Sessions
    BY <1>1, <1>10 DEF CommitExpired
  <2>2. Flush(ReleaseOnce(orders[o]), row, new) \in OrderRow
    BY <1>0, <1>4, <2>1, FlushRow, OnceRow
  <2>3. orders' \in [Orders -> OrderRow]
    BY <1>5, <1>10, <2>1, <2>2 DEF CommitExpired
  <2>4. timeline' \in [Orders -> SUBSET Messages]
    BY <1>2, <1>10, <2>1 DEF CommitExpired, Messages
  <2>5. processed' \subseteq PaymentEvent
    BY <1>3, <1>10, <2>1 DEF CommitExpired
  <2>6. stock' \in [Variants -> Nat]
    BY <1>10, <2>1, StockTyped DEF CommitExpired, Typed
  <2>7. Done(p) /\ UNCHANGED <<catalog, items, notified, sessions, emitted>>
    BY <1>10 DEF CommitExpired, stripe
  <2> QED
    BY <1>0, <2>3, <2>4, <2>5, <2>6, <2>7, CommitTyped
<1>11. CASE LoseExpired(p)
  <2>1. s \in Sessions
    BY <1>1, <1>11 DEF LoseExpired
  <2> QED
    BY <1>11, <2>1, ProcessTyped DEF LoseExpired
<1>12. CASE CommitRefunded(p)
  <2>1. o \in Orders /\ row \in OrderRow /\ s \in Sessions
    BY <1>1, <1>12 DEF CommitRefunded
  <2>2. Flush(orders[o], row, [row EXCEPT !.payment = "refunded"]) \in OrderRow
    BY <1>0, <1>4, <2>1, FlushRow
  <2>3. orders' \in [Orders -> OrderRow]
    BY <1>5, <1>12, <2>1, <2>2 DEF CommitRefunded
  <2>4. timeline' \in [Orders -> SUBSET Messages]
    BY <1>2, <1>12, <2>1 DEF CommitRefunded, Messages
  <2>5. processed' \subseteq PaymentEvent
    BY <1>3, <1>12, <2>1 DEF CommitRefunded
  <2>6. Done(p) /\ UNCHANGED <<stock, catalog, items, notified, sessions, emitted>>
    BY <1>12 DEF CommitRefunded, stripe
  <2> QED
    BY <1>0, <2>3, <2>4, <2>5, <2>6, CommitTyped
<1> QED
  BY <1>6, <1>7, <1>8, <1>9, <1>10, <1>11, <1>12 DEF PaymentStep, CommitWebhook

\* The initial tables are typed and nothing is known to Stripe yet.
LEMMA InitTyped == Init => Typed
<1>1. NoOrder \in OrderRow /\ Nothing \in Quantities
  BY BoundsAssumption DEF NoOrder, OrderRow, OrderStatus, PaymentStatus,
                          StockReservationStatus, Nothing, Quantities
<1> QED
  BY <1>1, BoundsAssumption
  DEF Init, StoreInit, StripeInit, Typed, TypeOK, StoreTypeOK, StripeTypeOK,
      SessionsKnown, CheckoutSession, SessionState, CatalogStatus

\* Every step keeps the types.
LEMMA TypedStep == Typed /\ [Next]_vars => Typed'
<1> SUFFICES ASSUME Typed, [Next]_vars PROVE Typed'
  OBVIOUS
<1>1. ASSUME NEW p \in Procs, OrderStep(p) \/ PaymentStep(p) \/ AbortRequest(p)
      PROVE  Typed'
  BY <1>1, OrderTyped, PaymentTyped, DoneTyped DEF AbortRequest, Abort
<1>2. ASSUME NEW s \in Sessions, DeliverWebhook(s) \/ StripeStep(s) PROVE Typed'
  BY <1>2, DeliveryTyped, StripeTyped
<1>3. ASSUME NEW v \in Editable, CatalogStep(v) PROVE Typed'
  BY <1>3, CatalogTyped, EditableAssumption
<1>4. CASE UNCHANGED vars
  BY <1>4 DEF vars, tables, stripe, Typed, TypeOK, StoreTypeOK, StripeTypeOK,
              SessionsKnown
<1> QED
  BY <1>1, <1>2, <1>3, <1>4 DEF Next

\* Every table, request and session keeps its type, whatever the interleaving:
\* stock_quantity in particular never goes below zero, which the CHECK
\* constraint of shrimp_variants would answer with an error.
THEOREM TypeCorrect == Spec => []TypeOK
<1>1. Typed => TypeOK
  BY DEF Typed
<1> QED
  BY <1>1, InitTyped, TypedStep, PTL DEF Spec
-----------------------------------------------------------------------------
(***************************************************************************)
(* The inductive invariant.  Requests work from snapshots; what keeps the  *)
(* tables consistent is that a reservation, once settled, stays as it is,  *)
(* so a snapshot that shows a settled reservation is still true of it.     *)
(***************************************************************************)
Consistent ==
    /\ RequestsOK
    /\ CheckoutsApart
    /\ RowsOK
    /\ ReservedIsPending
    /\ CancelledHoldsNoReservation

\* The inductive invariant is its types and what requests may rely on.
LEMMA IndInvSplit == IndInv <=> Typed /\ Consistent
BY DEF IndInv, Typed, Consistent

\* Steps that neither write an order nor begin a request.
LEMMA RequestEnds ==
    ASSUME IndInv, orders' = orders, db' = db \/ \E p \in Procs : Done(p)
    PROVE  Consistent'
<1>1. \A q \in Procs : db'[q] # Idle => db'[q] = db[q] /\ db[q] # Idle
  BY DEF IndInv, TypeOK, StoreTypeOK, Done
<1> QED
  BY <1>1 DEF IndInv, Consistent, RequestsOK, SnapshotOK, CheckoutsApart, RowsOK,
              ReservedIsPending, CancelledHoldsNoReservation, Busy

\* A request begins with a row that is there, or with an order nobody uses.
LEMMA RequestBegins ==
    ASSUME IndInv, NEW p \in Procs, NEW r \in Request,
           db' = [db EXCEPT ![p] = r], orders' = orders,
           r.op = "checkout" =>
               /\ orders[r.order].reservation = "none"
               /\ \A q \in Procs : q # p /\ db[q] # Idle => db[q].order # r.order,
           r.op # "checkout" =>
               r.row = orders[r.order] /\ r.row.reservation # "none",
           r.op = "late" => r.row.reservation = "released",
           r.op = "refunded" => r.row.reservation \in {"consumed", "released"}
    PROVE  Consistent'
<1>1. db \in [Procs -> Request \cup {Idle}]
  BY DEF IndInv, TypeOK, StoreTypeOK
<1>2. r.order \in Orders
  BY DEF Request
<1>3. RequestsOK'
  <2> SUFFICES ASSUME NEW q \in Procs, db'[q] # Idle
               PROVE  /\ db'[q].op = "checkout" =>
                            orders[db'[q].order].reservation = "none"
                      /\ db'[q].op # "checkout" => SnapshotOK(db'[q])
                      /\ db'[q].op = "late" => db'[q].row.reservation = "released"
                      /\ db'[q].op = "refunded" =>
                            db'[q].row.reservation \in {"consumed", "released"}
    BY DEF RequestsOK, SnapshotOK
  <2>1. CASE q = p
    BY <1>1, <1>2, <2>1 DEF SnapshotOK, IndInv, ReservedIsPending
  <2>2. CASE q # p
    BY <1>1, <2>2 DEF IndInv, RequestsOK
  <2> QED
    BY <2>1, <2>2
<1>4. CheckoutsApart'
  BY <1>1 DEF IndInv, CheckoutsApart, Busy
<1>5. RowsOK' /\ ReservedIsPending' /\ CancelledHoldsNoReservation'
  BY DEF IndInv, RowsOK, ReservedIsPending, CancelledHoldsNoReservation
<1> QED
  BY <1>3, <1>4, <1>5 DEF Consistent

\* A request commits a row: it settles a reservation or leaves it alone, and
\* what it leaves reserved is unpaid and not cancelled.
LEMMA RowProgress ==
    ASSUME IndInv, NEW p \in Procs, Done(p), NEW o \in Orders, NEW row \in OrderRow,
           orders' = [orders EXCEPT ![o] = row],
           orders[o].reservation # "none", row.reservation # "none",
           orders[o].reservation # "reserved" =>
               row.reservation = orders[o].reservation,
           row.reservation = "reserved" =>
               row.payment = "pending" /\ row.intent = None /\ row.status # "cancelled"
    PROVE  Consistent'
<1>1. orders \in [Orders -> OrderRow] /\ db \in [Procs -> Request \cup {Idle}]
  BY DEF IndInv, TypeOK, StoreTypeOK
<1>2. \A q \in Procs : db'[q] # Idle => db'[q] = db[q] /\ db[q] # Idle
  BY <1>1 DEF Done
<1>3. \A q \in Procs : db[q] # Idle => db[q].order \in Orders
  BY <1>1 DEF Request
<1>4. RequestsOK'
  <2> SUFFICES ASSUME NEW q \in Procs, db'[q] # Idle
               PROVE  /\ db[q].op = "checkout" =>
                            orders'[db[q].order].reservation = "none"
                      /\ db[q].op # "checkout" => SnapshotOK(db[q])'
                      /\ db[q].op = "late" => db[q].row.reservation = "released"
                      /\ db[q].op = "refunded" =>
                            db[q].row.reservation \in {"consumed", "released"}
    BY <1>2 DEF RequestsOK, SnapshotOK
  <2>1. db[q] # Idle /\ db[q].order \in Orders /\ db'[q] = db[q]
    BY <1>2, <1>3
  <2>2. CASE db[q].order = o
    BY <1>1, <2>1, <2>2 DEF IndInv, RequestsOK, SnapshotOK
  <2>3. CASE db[q].order # o
    BY <1>1, <2>1, <2>3 DEF IndInv, RequestsOK, SnapshotOK
  <2> QED
    BY <2>2, <2>3
<1>5. CheckoutsApart'
  BY <1>2 DEF IndInv, CheckoutsApart, Busy
<1>6. RowsOK' /\ ReservedIsPending' /\ CancelledHoldsNoReservation'
  BY <1>1 DEF IndInv, RowsOK, ReservedIsPending, CancelledHoldsNoReservation
<1> QED
  BY <1>4, <1>5, <1>6 DEF Consistent

\* What a request past its read step knows of its order's row.
LEMMA LoadedRow ==
    ASSUME IndInv, NEW p \in Procs, NEW op \in Operations \ {"checkout"}, Busy(p, op)
    PROVE  /\ db[p] \in Request /\ db[p].order \in Orders /\ db[p].row \in OrderRow
           /\ orders[db[p].order] \in OrderRow
           /\ orders[db[p].order].reservation # "none"
           /\ SnapshotOK(db[p])
           /\ op = "late" => db[p].row.reservation = "released"
           /\ op = "refunded" => db[p].row.reservation \in {"consumed", "released"}
<1>1. db[p] # Idle /\ db[p].op = op
  BY DEF Busy
<1>2. SnapshotOK(db[p])
  BY <1>1 DEF IndInv, RequestsOK
<1>3. db[p] \in Request /\ db[p].order \in Orders /\ db[p].row \in OrderRow
  BY <1>1, BusyRequest DEF IndInv
<1>4. orders[db[p].order].reservation # "none"
  BY <1>2 DEF SnapshotOK
<1> QED
  BY <1>1, <1>2, <1>3, <1>4 DEF IndInv, TypeOK, StoreTypeOK, RequestsOK

\* A checkout that commits turns an order nobody uses into a reserved one.
LEMMA CheckoutConsistent ==
    ASSUME IndInv, NEW p \in Procs, NEW s \in Sessions, CommitCheckout(p, s)
    PROVE  Consistent'
<1> DEFINE o == db[p].order
           row == [NoOrder EXCEPT !.reservation = "reserved", !.session = s]
<1>1. orders \in [Orders -> OrderRow] /\ db \in [Procs -> Request \cup {Idle}]
  BY DEF IndInv, TypeOK, StoreTypeOK
<1>2. db[p] # Idle /\ db[p].op = "checkout" /\ o \in Orders
  BY BusyRequest DEF CommitCheckout, Busy, IndInv
<1>3. /\ row.reservation = "reserved" /\ row.payment = "pending"
      /\ row.intent = None /\ row.status = "processing"
  BY DEF NoOrder
<1>4. orders' = [orders EXCEPT ![o] = row] /\ Done(p)
  BY DEF CommitCheckout
<1> HIDE DEF row
<1>5. \A q \in Procs : db'[q] # Idle => q # p /\ db'[q] = db[q] /\ db[q] # Idle
  BY <1>1, <1>4 DEF Done
<1>6. orders[o].reservation = "none"
  BY <1>2 DEF IndInv, RequestsOK
<1>7. RequestsOK'
  <2> SUFFICES ASSUME NEW q \in Procs, db'[q] # Idle
               PROVE  /\ db[q].op = "checkout" =>
                            orders'[db[q].order].reservation = "none"
                      /\ db[q].op # "checkout" => SnapshotOK(db[q])'
                      /\ db[q].op = "late" => db[q].row.reservation = "released"
                      /\ db[q].op = "refunded" =>
                            db[q].row.reservation \in {"consumed", "released"}
    BY <1>5 DEF RequestsOK, SnapshotOK
  <2>1. db[q] # Idle /\ q # p /\ db'[q] = db[q]
    BY <1>5
  <2>2. db[q].order # o
    BY <1>2, <1>6, <2>1 DEF IndInv, CheckoutsApart, RequestsOK, SnapshotOK, Busy
  <2> QED
    BY <1>4, <2>1, <2>2 DEF IndInv, RequestsOK, SnapshotOK
<1>8. CheckoutsApart'
  BY <1>5 DEF IndInv, CheckoutsApart, Busy
<1>9. RowsOK' /\ ReservedIsPending' /\ CancelledHoldsNoReservation'
  BY <1>1, <1>2, <1>3, <1>4
  DEF IndInv, RowsOK, ReservedIsPending, CancelledHoldsNoReservation
<1> QED
  BY <1>7, <1>8, <1>9 DEF Consistent

\* The requests of customers and owners keep what requests may rely on.
LEMMA OrderConsistent ==
    ASSUME IndInv, NEW p \in Procs, OrderStep(p)
    PROVE  Consistent'
<1> DEFINE o == db[p].order
           row == db[p].row
<1> USE DEF Operations
<1>1. ASSUME NEW a \in Orders, NEW wants \in Quantities, BeginCheckout(p, a, wants)
      PROVE  Consistent'
  <2> DEFINE r == [Loaded("checkout", a) EXCEPT !.wants = wants]
  <2>1. r \in Request /\ r.op = "checkout" /\ r.order = a
    BY LoadedRequest DEF Loaded, IndInv
  <2>2. /\ db' = [db EXCEPT ![p] = r] /\ orders' = orders
        /\ orders[a].reservation = "none"
        /\ \A q \in Procs : db[q] # Idle => db[q].order # a
    BY <1>1 DEF BeginCheckout, FreshOrder, Exists, Free, tables
  <2> HIDE DEF r
  <2> QED
    BY <2>1, <2>2, RequestBegins
<1>2. ASSUME NEW a \in Orders, NEW r \in Request, r.order = a, r.row = orders[a],
             r.op \in {"continue", "cancel", "owner_status"}, Exists(a),
             db' = [db EXCEPT ![p] = r], orders' = orders
      PROVE  Consistent'
  BY <1>2, RequestBegins DEF Exists
<1>3. ASSUME NEW a \in Orders, NEW s \in Sessions, BeginContinue(p, a, s)
      PROVE  Consistent'
  <2> DEFINE r == [Loaded("continue", a) EXCEPT !.session = s]
  <2>1. r \in Request /\ r.op = "continue" /\ r.order = a /\ r.row = orders[a]
    BY LoadedRequest DEF Loaded, IndInv
  <2>2. db' = [db EXCEPT ![p] = r] /\ orders' = orders /\ Exists(a)
    BY <1>3 DEF BeginContinue, CanContinuePayment, Exists, tables
  <2> HIDE DEF r
  <2> QED
    BY <1>2, <2>1, <2>2
<1>4. ASSUME NEW a \in Orders, BeginCancel(p, a) PROVE Consistent'
  <2> DEFINE r == Loaded("cancel", a)
  <2>1. r \in Request /\ r.op = "cancel" /\ r.order = a /\ r.row = orders[a]
    BY LoadedRequest DEF Loaded, IndInv
  <2>2. db' = [db EXCEPT ![p] = r] /\ orders' = orders /\ Exists(a)
    BY <1>4 DEF BeginCancel, CanContinuePayment, Exists, tables
  <2> HIDE DEF r
  <2> QED
    BY <1>2, <2>1, <2>2
<1>5. ASSUME NEW a \in Orders, NEW status \in OwnerStatuses,
             BeginOwnerStatus(p, a, status)
      PROVE  Consistent'
  <2> DEFINE r == [Loaded("owner_status", a) EXCEPT !.status = status]
  <2>1. r \in Request /\ r.op = "owner_status" /\ r.order = a /\ r.row = orders[a]
    BY LoadedRequest, OwnerStatusesAssumption DEF Loaded, IndInv
  <2>2. db' = [db EXCEPT ![p] = r] /\ orders' = orders /\ Exists(a)
    BY <1>5 DEF BeginOwnerStatus, tables
  <2> HIDE DEF r
  <2> QED
    BY <1>2, <2>1, <2>2
<1>6. ASSUME NEW s \in Sessions, CommitCheckout(p, s) PROVE Consistent'
  BY <1>6, CheckoutConsistent
<1>7. ASSUME NEW s \in Sessions, RejectCheckout(p) \/ LoseCheckout(p, s)
      PROVE  Consistent'
  BY <1>7, RequestEnds DEF RejectCheckout, LoseCheckout, tables
<1>8. CASE RejectCheckout(p)
  BY <1>8, RequestEnds DEF RejectCheckout, tables
<1>9. CASE CommitContinue(p)
  <2> DEFINE new == [row EXCEPT !.session = db[p].session]
             after == Flush(orders[o], row, new)
  <2>1. /\ db[p] \in Request /\ o \in Orders /\ row \in OrderRow
        /\ orders[o] \in OrderRow /\ orders[o].reservation # "none"
        /\ SnapshotOK(db[p])
    BY <1>9, LoadedRow DEF CommitContinue
  <2>2. new \in OrderRow /\ db[p].session \in Sessions \cup {None}
    BY <2>1 DEF OrderRow, Request
  <2>3. after \in OrderRow /\ after.reservation = orders[o].reservation
    BY <2>1, <2>2, FlushRow
  <2>4. /\ after.payment = orders[o].payment /\ after.intent = orders[o].intent
        /\ after.status = orders[o].status
    BY <2>1 DEF Flush, OrderRow
  <2>5. orders' = [orders EXCEPT ![o] = after] /\ Done(p)
    BY <1>9 DEF CommitContinue
  <2> HIDE DEF after
  <2> QED
    BY <2>1, <2>3, <2>4, <2>5, RowProgress
    DEF IndInv, ReservedIsPending, CancelledHoldsNoReservation
<1>10. CASE CommitCancel(p)
  <2> DEFINE new == [row EXCEPT !.status = "cancelled", !.payment = "failed"]
             after == Flush(ReleaseOnce(orders[o]), row, new)
  <2>1. /\ o \in Orders /\ row \in OrderRow
        /\ orders[o] \in OrderRow /\ orders[o].reservation # "none"
    BY <1>10, LoadedRow DEF CommitCancel
  <2>2. new \in OrderRow
    BY <2>1 DEF OrderRow, OrderStatus, PaymentStatus
  <2>3. /\ after \in OrderRow
        /\ after.reservation = ReleaseOnce(orders[o]).reservation
    BY <2>1, <2>2, FlushRow, OnceRow
  <2>4. ReleaseOnce(orders[o]).reservation =
            IF orders[o].reservation = "reserved" THEN "released"
                                                  ELSE orders[o].reservation
    BY <2>1 DEF ReleaseOnce, OrderRow
  <2>5. orders' = [orders EXCEPT ![o] = after] /\ Done(p)
    BY <1>10 DEF CommitCancel
  <2> HIDE DEF after
  <2> QED
    BY <2>1, <2>3, <2>4, <2>5, RowProgress
<1>11. CASE CommitOwnerStatus(p)
  <2> DEFINE new == [row EXCEPT !.status = db[p].status]
             releases == OwnerReleases(row, db[p].status)
             base == IF releases THEN ReleaseOnce(orders[o]) ELSE orders[o]
             after == Flush(base, row, new)
  <2>1. /\ db[p] \in Request /\ o \in Orders /\ row \in OrderRow
        /\ orders[o] \in OrderRow /\ orders[o].reservation # "none"
        /\ SnapshotOK(db[p])
    BY <1>11, LoadedRow DEF CommitOwnerStatus
  <2>2. new \in OrderRow /\ base \in OrderRow
    BY <2>1, OnceRow DEF OrderRow, Request
  <2>3. after \in OrderRow /\ after.reservation = base.reservation
    BY <2>1, <2>2, FlushRow
  <2>4. base.reservation = IF releases /\ orders[o].reservation = "reserved"
                           THEN "released" ELSE orders[o].reservation
    BY <2>1 DEF ReleaseOnce, OrderRow
  <2>5. ASSUME after.reservation = "reserved"
        PROVE  /\ after.payment = "pending" /\ after.intent = None
               /\ after.status # "cancelled"
    <3>1. orders[o].reservation = "reserved" /\ ~releases
      BY <2>1, <2>3, <2>4, <2>5
    <3>2. /\ orders[o].payment = "pending" /\ orders[o].intent = None
          /\ orders[o].status # "cancelled"
      BY <2>1, <3>1 DEF IndInv, ReservedIsPending, CancelledHoldsNoReservation
    <3>3. row.reservation = "reserved" /\ row.payment = "pending"
      BY <2>1, <3>1 DEF SnapshotOK
    <3>4. db[p].status # "cancelled"
      BY <3>1, <3>3 DEF OwnerReleases
    <3> QED
      BY <2>1, <3>1, <3>2, <3>4 DEF Flush, OrderRow
  <2>6. orders' = [orders EXCEPT ![o] = after] /\ Done(p)
    BY <1>11 DEF CommitOwnerStatus
  <2> HIDE DEF after, base, releases
  <2> QED
    BY <2>1, <2>3, <2>4, <2>5, <2>6, RowProgress
<1> QED
  BY <1>1, <1>3, <1>4, <1>5, <1>6, <1>7, <1>8, <1>9, <1>10, <1>11
  DEF OrderStep, CommitOrderRequest

\* The arrival of a webhook keeps it.
LEMMA DeliveryConsistent ==
    ASSUME IndInv, NEW s \in Sessions, DeliverWebhook(s)
    PROVE  Consistent'
<1> USE DEF Operations, EventKinds
<1>1. ASSUME NEW kind \in EventKinds, Deliverable(Event(kind, s))
      PROVE  sessions[s].order \in Orders /\ Exists(sessions[s].order)
  BY <1>1 DEF IndInv, SessionsKnown, Deliverable, Event
<1>2. ASSUME NEW p \in Procs, NEW op \in {"completed", "expired", "refunded"},
             NEW o \in Orders, Exists(o),
             op = "refunded" => orders[o].reservation \in {"consumed", "released"},
             db' = [db EXCEPT ![p] = [Loaded(op, o) EXCEPT !.session = s]],
             orders' = orders
      PROVE  Consistent'
  <2> DEFINE r == [Loaded(op, o) EXCEPT !.session = s]
  <2>1. r \in Request /\ r.op = op /\ r.order = o /\ r.row = orders[o]
    BY LoadedRequest DEF Loaded, IndInv
  <2>2. db' = [db EXCEPT ![p] = r] /\ orders' = orders
    BY <1>2
  <2> HIDE DEF r
  <2>3. /\ r.op \notin {"checkout", "late"} /\ r.row = orders[r.order]
        /\ r.row.reservation # "none"
        /\ r.op = "refunded" => r.row.reservation \in {"consumed", "released"}
    BY <1>2, <2>1 DEF Exists
  <2> QED
    BY ONLY IndInv, p \in Procs, <2>1, <2>2, <2>3, RequestBegins
<1>3. CASE CompletedAlreadyPaid(s) \/ IgnoreExpired(s) \/ IntentFailed(s)
             \/ RefundUnmatched(s)
  BY <1>3, RequestEnds
  DEF CompletedAlreadyPaid, IgnoreExpired, IntentFailed, RefundUnmatched
<1>4. ASSUME NEW p \in Procs, BeginCompleted(p, s) PROVE Consistent'
  BY <1>1, <1>2, <1>4 DEF BeginCompleted, tables
<1>5. ASSUME NEW p \in Procs, BeginExpired(p, s) PROVE Consistent'
  BY <1>1, <1>2, <1>5 DEF BeginExpired, tables
<1>6. ASSUME NEW p \in Procs, BeginRefunded(p, s) PROVE Consistent'
  <2>1. PICK o \in Orders :
            /\ orders[o].intent = s
            /\ db' = [db EXCEPT ![p] = [Loaded("refunded", o) EXCEPT !.session = s]]
    BY <1>6 DEF BeginRefunded
  <2>2. orders[o] \in OrderRow /\ s # None
    BY SessionsAssumption DEF IndInv, TypeOK, StoreTypeOK
  <2>3. orders[o].reservation # "none"
    BY <2>1, <2>2 DEF IndInv, RowsOK, NoOrder
  <2>4. orders[o].reservation # "reserved"
    BY <2>1, <2>2 DEF IndInv, ReservedIsPending
  <2>5. orders[o].reservation \in {"consumed", "released"}
    BY <2>2, <2>3, <2>4 DEF OrderRow, StockReservationStatus
  <2>6. orders' = orders
    BY <1>6 DEF BeginRefunded, tables
  <2> QED
    BY <1>2, <2>1, <2>3, <2>5, <2>6 DEF Exists
<1> QED
  BY <1>3, <1>4, <1>5, <1>6
  DEF DeliverWebhook, DeliverCompleted, DeliverExpired, DeliverRefunded

\* The webhook handlers keep it.
LEMMA PaymentConsistent ==
    ASSUME IndInv, NEW p \in Procs, PaymentStep(p)
    PROVE  Consistent'
<1> DEFINE o == db[p].order
           row == db[p].row
           s == db[p].session
<1> USE DEF Operations
<1>1. ASSUME NEW op \in {"completed", "late", "expired", "refunded"}, Busy(p, op)
      PROVE  /\ db[p] \in Request /\ o \in Orders /\ row \in OrderRow
             /\ s \in Sessions
             /\ orders[o] \in OrderRow /\ orders[o].reservation # "none"
             /\ SnapshotOK(db[p])
             /\ op = "late" => row.reservation = "released"
             /\ op = "refunded" => row.reservation \in {"consumed", "released"}
  BY <1>1, LoadedRow DEF IndInv, SessionsKnown, Busy
<1>2. ASSUME row \in OrderRow, s \in Sessions
      PROVE  /\ PaidBy(row, s) \in OrderRow
             /\ [row EXCEPT !.payment = "refunded"] \in OrderRow
             /\ [row EXCEPT !.status = "cancelled", !.payment = "failed"] \in OrderRow
  BY <1>2 DEF PaidBy, OrderRow, OrderStatus, PaymentStatus
\* A commit that leaves the order settled, one way or the other.
<1>3. ASSUME NEW after \in OrderRow, o \in Orders,
             orders' = [orders EXCEPT ![o] = after], Done(p),
             orders[o].reservation # "none",
             after.reservation \in {"consumed", "released"},
             orders[o].reservation # "reserved" =>
                 after.reservation = orders[o].reservation
      PROVE  Consistent'
  BY <1>3, RowProgress
<1>4. CASE RefreshCompleted(p)
  <2> DEFINE r == [db[p] EXCEPT !.op = "late", !.row = orders[o]]
  <2>1. db[p] \in Request /\ o \in Orders /\ orders[o] \in OrderRow
    BY <1>1, <1>4 DEF RefreshCompleted
  <2>2. r \in Request /\ r.op = "late" /\ r.order = o /\ r.row = orders[o]
    BY <2>1 DEF Request
  <2>3. /\ db' = [db EXCEPT ![p] = r] /\ orders' = orders
        /\ orders[o].reservation = "released"
    BY <1>4 DEF RefreshCompleted, IndInv, TypeOK, StoreTypeOK, tables
  <2> HIDE DEF r
  <2> QED
    BY <2>1, <2>2, <2>3, RequestBegins
<1>5. CASE CommitCompleted(p)
  <2> DEFINE after == Flush(ConsumeOnce(orders[o]), row, PaidBy(row, s))
  <2>1. /\ o \in Orders /\ row \in OrderRow /\ s \in Sessions
        /\ orders[o] \in OrderRow /\ orders[o].reservation = "reserved"
    BY <1>1, <1>5 DEF CommitCompleted, Consumable
  <2>2. after \in OrderRow /\ after.reservation = ConsumeOnce(orders[o]).reservation
    BY <1>2, <2>1, FlushRow, OnceRow
  <2>3. ConsumeOnce(orders[o]).reservation = "consumed"
    BY <2>1 DEF ConsumeOnce, Consumable, OrderRow
  <2>4. orders' = [orders EXCEPT ![o] = after] /\ Done(p)
    BY <1>5 DEF CommitCompleted
  <2> HIDE DEF after
  <2> QED
    BY <1>3, <2>1, <2>2, <2>3, <2>4
<1>6. CASE CommitLatePayment(p)
  <2> DEFINE after == Flush(orders[o], row, PaidBy(row, s))
  <2>1. /\ o \in Orders /\ row \in OrderRow /\ s \in Sessions
        /\ orders[o] \in OrderRow /\ orders[o].reservation = "released"
    BY <1>1, <1>6 DEF CommitLatePayment, SnapshotOK
  <2>2. after \in OrderRow /\ after.reservation = "released"
    BY <1>2, <2>1, FlushRow
  <2>3. orders' = [orders EXCEPT ![o] = after] /\ Done(p)
    BY <1>6 DEF CommitLatePayment
  <2> HIDE DEF after
  <2> QED
    BY <1>3, <2>1, <2>2, <2>3
<1>7. CASE IgnoreCompleted(p) \/ LoseExpired(p)
  BY <1>7, RequestEnds DEF IgnoreCompleted, LoseExpired
<1>8. CASE CommitExpired(p)
  <2> DEFINE new == [row EXCEPT !.status = "cancelled", !.payment = "failed"]
             after == Flush(ReleaseOnce(orders[o]), row, new)
  <2>1. /\ o \in Orders /\ row \in OrderRow /\ s \in Sessions
        /\ orders[o] \in OrderRow /\ orders[o].reservation = "reserved"
    BY <1>1, <1>8 DEF CommitExpired
  <2>2. after \in OrderRow /\ after.reservation = ReleaseOnce(orders[o]).reservation
    BY <1>2, <2>1, FlushRow, OnceRow
  <2>3. ReleaseOnce(orders[o]).reservation = "released"
    BY <2>1 DEF ReleaseOnce, OrderRow
  <2>4. orders' = [orders EXCEPT ![o] = after] /\ Done(p)
    BY <1>8 DEF CommitExpired
  <2> HIDE DEF after
  <2> QED
    BY <1>3, <2>1, <2>2, <2>3, <2>4
<1>9. CASE CommitRefunded(p)
  <2> DEFINE after == Flush(orders[o], row, [row EXCEPT !.payment = "refunded"])
  <2>1. /\ o \in Orders /\ row \in OrderRow /\ s \in Sessions
        /\ orders[o] \in OrderRow
        /\ orders[o].reservation \in {"consumed", "released"}
    BY <1>1, <1>9 DEF CommitRefunded, SnapshotOK
  <2>2. after \in OrderRow /\ after.reservation = orders[o].reservation
    BY <1>2, <2>1, FlushRow
  <2>3. orders' = [orders EXCEPT ![o] = after] /\ Done(p)
    BY <1>9 DEF CommitRefunded
  <2> HIDE DEF after
  <2> QED
    BY <1>3, <2>1, <2>2, <2>3
<1> QED
  BY <1>4, <1>5, <1>6, <1>7, <1>8, <1>9 DEF PaymentStep, CommitWebhook

\* It holds while there is no order.
LEMMA InitConsistent == Init => Consistent
BY DEF Init, StoreInit, Consistent, RequestsOK, CheckoutsApart, RowsOK, Busy,
       ReservedIsPending, CancelledHoldsNoReservation, NoOrder

\* Every step keeps the inductive invariant.
LEMMA IndInvStep == IndInv /\ [Next]_vars => IndInv'
<1> SUFFICES ASSUME IndInv, [Next]_vars PROVE IndInv'
  OBVIOUS
<1>1. ASSUME NEW p \in Procs, OrderStep(p) \/ PaymentStep(p) PROVE Consistent'
  BY <1>1, OrderConsistent, PaymentConsistent
<1>2. ASSUME NEW p \in Procs, AbortRequest(p) PROVE Consistent'
  BY <1>2, RequestEnds DEF AbortRequest, Abort, tables
<1>3. ASSUME NEW s \in Sessions, DeliverWebhook(s) PROVE Consistent'
  BY <1>3, DeliveryConsistent
<1>4. ASSUME NEW s \in Sessions, StripeStep(s) PROVE Consistent'
  BY <1>4, RequestEnds
  DEF StripeStep, Pay, FailAttempt, PassExpiry, Expire, Refund, tables
<1>5. ASSUME NEW v \in Variants, CatalogStep(v) PROVE Consistent'
  BY <1>5, RequestEnds DEF CatalogStep, EditVariantStock, SetOnSale, RemoveVariant
<1>6. ASSUME UNCHANGED vars PROVE Consistent'
  <2>1. orders' = orders /\ db' = db
    BY <1>6 DEF vars, tables
  <2> QED
    BY <2>1, RequestEnds
<1>7. Consistent'
  <2>1. CASE Next
    BY <2>1, <1>1, <1>2, <1>3, <1>4, <1>5, EditableAssumption DEF Next
  <2> QED
    BY <2>1, <1>6
<1>8. Typed'
  BY IndInvSplit, TypedStep
<1> QED
  BY <1>7, <1>8 DEF IndInv, Typed, Consistent

\* The rows, the requests in flight and the sessions stay consistent with each
\* other, whatever the interleaving of requests, webhooks and aborts.
THEOREM Inductive == Spec => []IndInv
<1>1. Init => IndInv
  BY InitTyped, InitConsistent, IndInvSplit
<1> QED
  BY <1>1, IndInvStep, PTL DEF Spec

\* No order is marked paid, failed or refunded with its reservation open: stock
\* that is only reserved belongs to an order that still awaits its payment.
THEOREM ReservationsAwaitPayment == Spec => []ReservedIsPending
<1>1. IndInv => ReservedIsPending
  BY DEF IndInv
<1> QED
  BY <1>1, Inductive, PTL

\* However a cancellation by the customer, the owner or a webhook races the
\* others, a cancelled order keeps no stock reserved.
THEOREM CancellationsRelease == Spec => []CancelledHoldsNoReservation
<1>1. IndInv => CancelledHoldsNoReservation
  BY DEF IndInv
<1> QED
  BY <1>1, Inductive, PTL
-----------------------------------------------------------------------------
(***************************************************************************)
(* The order flow implements StockReservation: every step takes, sells or  *)
(* returns one order's units, is the owner's, or leaves the stock alone.   *)
(***************************************************************************)
ReservationStep == [Reservation!Next]_(Reservation!vars)

\* Writing one row changes what became of one order's units.
LEMMA HoldWrite ==
    ASSUME TypeOK, NEW o \in Orders, NEW row, orders' = [orders EXCEPT ![o] = row]
    PROVE  [a \in Orders |-> orders'[a].reservation] =
             [[a \in Orders |-> orders[a].reservation] EXCEPT ![o] = row.reservation]
BY DEF TypeOK, StoreTypeOK

\* A step that writes a row without its reservation is a stutter.
LEMMA HoldKept ==
    ASSUME TypeOK, UNCHANGED <<stock, catalog, items>>,
           orders' = orders \/ \E o \in Orders, row \in OrderRow :
               /\ orders' = [orders EXCEPT ![o] = row]
               /\ row.reservation = orders[o].reservation
    PROVE  ReservationStep
<1>1. \A a \in Orders : orders'[a].reservation = orders[a].reservation
  BY DEF TypeOK, StoreTypeOK
<1> QED
  BY <1>1 DEF ReservationStep, Reservation!vars

\* release_order_stock_reservation is a release, or a stutter when it comes late.
LEMMA ReleaseImplements ==
    ASSUME TypeOK, NEW o \in Orders, NEW row \in OrderRow, ReleaseOrderStock(o),
           orders' = [orders EXCEPT ![o] = row],
           row.reservation = ReleaseOnce(orders[o]).reservation,
           UNCHANGED <<catalog, items>>
    PROVE  ReservationStep
<1>1. orders[o] \in OrderRow
  BY DEF TypeOK, StoreTypeOK
<1>2. CASE orders[o].reservation = "reserved"
  <2>1. row.reservation = "released"
    BY <1>1, <1>2 DEF ReleaseOnce, OrderRow
  <2>2. stock' = [v \in Variants |-> IF v \in {w \in Variants : catalog[w] # "deleted"}
                                     THEN stock[v] + items[o][v] ELSE stock[v]]
    BY <1>2 DEF ReleaseOrderStock, IncrementStock
  <2>3. Reservation!Release(o)
    BY <1>2, <2>1, <2>2, HoldWrite DEF Reservation!Release
  <2> QED
    BY <2>3 DEF ReservationStep, Reservation!Next
<1>3. CASE orders[o].reservation # "reserved"
  <2>1. row.reservation = orders[o].reservation /\ stock' = stock
    BY <1>1, <1>3 DEF ReleaseOnce, ReleaseOrderStock, OrderRow
  <2> QED
    BY <2>1, HoldKept
<1> QED
  BY <1>2, <1>3

\* A payment that finds the reservation open makes the sale.
LEMMA ConsumeImplements ==
    ASSUME TypeOK, NEW o \in Orders, NEW row,
           orders' = [orders EXCEPT ![o] = row],
           orders[o].reservation = "reserved", row.reservation = "consumed",
           UNCHANGED <<stock, catalog, items>>
    PROVE  ReservationStep
<1>1. [a \in Orders |-> orders'[a].reservation] =
         [[a \in Orders |-> orders[a].reservation] EXCEPT ![o] = "consumed"]
  <2>1. [a \in Orders |-> orders'[a].reservation] =
           [[a \in Orders |-> orders[a].reservation] EXCEPT ![o] = row.reservation]
    BY HoldWrite
  <2> QED
    BY <2>1
<1>2. Reservation!Consume(o)
  BY <1>1 DEF Reservation!Consume
<1> QED
  BY <1>2 DEF ReservationStep, Reservation!Next

\* Units taken all at once by an order that holds none are a reservation.
LEMMA ReserveImplements ==
    ASSUME TypeOK, NEW o \in Orders, NEW wants \in Quantities, NEW row,
           orders' = [orders EXCEPT ![o] = row], items' = [items EXCEPT ![o] = wants],
           orders[o].reservation = "none", row.reservation = "reserved",
           StockCovers(wants), DecrementStock(wants), catalog' = catalog
    PROVE  ReservationStep
<1>1. stock \in [Variants -> Nat] /\ wants \in [Variants -> 0..MaxQuantity]
  BY DEF TypeOK, StoreTypeOK, Quantities
<1>2. \A v \in Variants : stock[v] \in Nat /\ wants[v] \in Nat
  BY <1>1, BoundsAssumption
<1>3. \A v \in Variants : wants[v] > 0 =>
          v \in {w \in Variants : catalog[w] # "deleted"} /\ wants[v] <= stock[v]
  BY <1>2 DEF StockCovers
<1>4. \A v \in Variants : (IF wants[v] > 0 THEN stock[v] - wants[v] ELSE stock[v])
                            = stock[v] - wants[v]
  BY <1>2
<1>5. stock' = [v \in Variants |-> stock[v] - wants[v]]
  BY <1>4 DEF DecrementStock
<1>6. [a \in Orders |-> orders'[a].reservation] =
         [[a \in Orders |-> orders[a].reservation] EXCEPT ![o] = "reserved"]
  <2>1. [a \in Orders |-> orders'[a].reservation] =
           [[a \in Orders |-> orders[a].reservation] EXCEPT ![o] = row.reservation]
    BY HoldWrite
  <2> QED
    BY <2>1
<1>7. Reservation!Reserve(o, wants)
  BY <1>3, <1>5, <1>6 DEF Reservation!Reserve
<1> QED
  BY <1>1, <1>7 DEF ReservationStep, Reservation!Next

\* A committed checkout reserves for an order that no row has yet.
LEMMA CheckoutImplements ==
    ASSUME IndInv, NEW p \in Procs, NEW s \in Sessions, CommitCheckout(p, s)
    PROVE  ReservationStep
<1> DEFINE o == db[p].order
           row == [NoOrder EXCEPT !.reservation = "reserved", !.session = s]
<1>1. /\ db[p] # Idle /\ db[p].op = "checkout"
      /\ o \in Orders /\ db[p].wants \in Quantities
  BY BusyRequest DEF CommitCheckout, Busy, IndInv
<1>2. orders[o].reservation = "none" /\ row.reservation = "reserved"
  BY <1>1 DEF IndInv, RequestsOK, NoOrder
<1>3. /\ orders' = [orders EXCEPT ![o] = row]
      /\ items' = [items EXCEPT ![o] = db[p].wants]
      /\ StockCovers(db[p].wants) /\ DecrementStock(db[p].wants)
      /\ catalog' = catalog /\ TypeOK
  BY DEF CommitCheckout, IndInv
<1> HIDE DEF o, row
<1> QED
  BY <1>1, <1>2, <1>3, ReserveImplements

\* The requests of customers and owners are steps of the abstract reservation, or stutter.
LEMMA OrderImplements ==
    ASSUME IndInv, NEW p \in Procs, OrderStep(p)
    PROVE  ReservationStep
<1> DEFINE o == db[p].order
           row == db[p].row
<1> USE DEF Operations
<1>0. TypeOK
  BY DEF IndInv
<1>1. ASSUME UNCHANGED tables PROVE ReservationStep
  BY <1>0, <1>1, HoldKept DEF tables
<1>2. ASSUME NEW s \in Sessions, CommitCheckout(p, s) PROVE ReservationStep
  BY <1>2, CheckoutImplements
<1>3. CASE CommitContinue(p)
  <2> DEFINE new == [row EXCEPT !.session = db[p].session]
             after == Flush(orders[o], row, new)
  <2>1. db[p] \in Request /\ o \in Orders /\ row \in OrderRow /\ orders[o] \in OrderRow
    BY <1>3, LoadedRow DEF CommitContinue
  <2>2. new \in OrderRow
    BY <2>1 DEF OrderRow, Request
  <2>3. after \in OrderRow /\ after.reservation = orders[o].reservation
    BY <2>1, <2>2, FlushRow
  <2>4. orders' = [orders EXCEPT ![o] = after] /\ UNCHANGED <<stock, catalog, items>>
    BY <1>3 DEF CommitContinue
  <2> HIDE DEF after
  <2> QED
    BY <1>0, <2>1, <2>3, <2>4, HoldKept
<1>4. CASE CommitCancel(p)
  <2> DEFINE new == [row EXCEPT !.status = "cancelled", !.payment = "failed"]
             after == Flush(ReleaseOnce(orders[o]), row, new)
  <2>1. o \in Orders /\ row \in OrderRow /\ orders[o] \in OrderRow
    BY <1>4, LoadedRow DEF CommitCancel
  <2>2. new \in OrderRow
    BY <2>1 DEF OrderRow, OrderStatus, PaymentStatus
  <2>3. after \in OrderRow /\ after.reservation = ReleaseOnce(orders[o]).reservation
    BY <2>1, <2>2, FlushRow, OnceRow
  <2>4. /\ orders' = [orders EXCEPT ![o] = after] /\ ReleaseOrderStock(o)
        /\ UNCHANGED <<catalog, items>>
    BY <1>4 DEF CommitCancel
  <2> HIDE DEF after
  <2> QED
    BY <1>0, <2>1, <2>3, <2>4, ReleaseImplements
<1>5. CASE CommitOwnerStatus(p)
  <2> DEFINE new == [row EXCEPT !.status = db[p].status]
             releases == OwnerReleases(row, db[p].status)
             base == IF releases THEN ReleaseOnce(orders[o]) ELSE orders[o]
             after == Flush(base, row, new)
  <2>1. db[p] \in Request /\ o \in Orders /\ row \in OrderRow /\ orders[o] \in OrderRow
    BY <1>5, LoadedRow DEF CommitOwnerStatus
  <2>2. new \in OrderRow /\ base \in OrderRow
    BY <2>1, OnceRow DEF OrderRow, Request
  <2>3. after \in OrderRow /\ after.reservation = base.reservation
    BY <2>1, <2>2, FlushRow
  <2>4. /\ orders' = [orders EXCEPT ![o] = after]
        /\ IF releases THEN ReleaseOrderStock(o) ELSE UNCHANGED stock
        /\ UNCHANGED <<catalog, items>>
    BY <1>5 DEF CommitOwnerStatus
  <2>5. base = IF releases THEN ReleaseOnce(orders[o]) ELSE orders[o]
    OBVIOUS
  <2> HIDE DEF after, base, releases
  <2>6. CASE releases
    BY <1>0, <2>1, <2>3, <2>4, <2>5, <2>6, ReleaseImplements
  <2>7. CASE ~releases
    BY <1>0, <2>1, <2>3, <2>4, <2>5, <2>7, HoldKept
  <2> QED
    BY <2>6, <2>7
<1> QED
  BY <1>1, <1>2, <1>3, <1>4, <1>5
  DEF OrderStep, CommitOrderRequest, BeginCheckout, BeginContinue, BeginCancel,
      BeginOwnerStatus, LoseCheckout, RejectCheckout

\* So are the steps of the webhook handlers.
LEMMA PaymentImplements ==
    ASSUME IndInv, NEW p \in Procs, PaymentStep(p)
    PROVE  ReservationStep
<1> DEFINE o == db[p].order
           row == db[p].row
           s == db[p].session
<1> USE DEF Operations
<1>0. TypeOK
  BY DEF IndInv
<1>1. ASSUME NEW op \in {"completed", "late", "expired", "refunded"}, Busy(p, op)
      PROVE  o \in Orders /\ row \in OrderRow /\ s \in Sessions /\ orders[o] \in OrderRow
  BY <1>1, LoadedRow DEF IndInv, SessionsKnown, Busy
<1>2. ASSUME row \in OrderRow, s \in Sessions
      PROVE  /\ PaidBy(row, s) \in OrderRow
             /\ [row EXCEPT !.payment = "refunded"] \in OrderRow
             /\ [row EXCEPT !.status = "cancelled", !.payment = "failed"] \in OrderRow
  BY <1>2 DEF PaidBy, OrderRow, OrderStatus, PaymentStatus
<1>3. ASSUME UNCHANGED <<stock, catalog, orders, items>> PROVE ReservationStep
  BY <1>0, <1>3, HoldKept
<1>4. CASE CommitCompleted(p)
  <2> DEFINE after == Flush(ConsumeOnce(orders[o]), row, PaidBy(row, s))
  <2>1. /\ o \in Orders /\ row \in OrderRow /\ s \in Sessions
        /\ orders[o] \in OrderRow /\ orders[o].reservation = "reserved"
    BY <1>1, <1>4 DEF CommitCompleted, Consumable
  <2>2. after.reservation = ConsumeOnce(orders[o]).reservation
    BY <1>2, <2>1, FlushRow, OnceRow
  <2>3. ConsumeOnce(orders[o]).reservation = "consumed"
    BY <2>1 DEF ConsumeOnce, Consumable, OrderRow
  <2>4. orders' = [orders EXCEPT ![o] = after] /\ UNCHANGED <<stock, catalog, items>>
    BY <1>4 DEF CommitCompleted
  <2> HIDE DEF after
  <2> QED
    BY <1>0, <2>1, <2>2, <2>3, <2>4, ConsumeImplements
<1>5. CASE CommitLatePayment(p)
  <2> DEFINE after == Flush(orders[o], row, PaidBy(row, s))
  <2>1. o \in Orders /\ row \in OrderRow /\ s \in Sessions /\ orders[o] \in OrderRow
    BY <1>1, <1>5 DEF CommitLatePayment
  <2>2. after \in OrderRow /\ after.reservation = orders[o].reservation
    BY <1>2, <2>1, FlushRow
  <2>3. orders' = [orders EXCEPT ![o] = after] /\ UNCHANGED <<stock, catalog, items>>
    BY <1>5 DEF CommitLatePayment
  <2> HIDE DEF after
  <2> QED
    BY <1>0, <2>1, <2>2, <2>3, HoldKept
<1>6. CASE CommitExpired(p)
  <2> DEFINE new == [row EXCEPT !.status = "cancelled", !.payment = "failed"]
             after == Flush(ReleaseOnce(orders[o]), row, new)
  <2>1. o \in Orders /\ row \in OrderRow /\ s \in Sessions /\ orders[o] \in OrderRow
    BY <1>1, <1>6 DEF CommitExpired
  <2>2. after \in OrderRow /\ after.reservation = ReleaseOnce(orders[o]).reservation
    BY <1>2, <2>1, FlushRow, OnceRow
  <2>3. /\ orders' = [orders EXCEPT ![o] = after] /\ ReleaseOrderStock(o)
        /\ UNCHANGED <<catalog, items>>
    BY <1>6 DEF CommitExpired
  <2> HIDE DEF after
  <2> QED
    BY <1>0, <2>1, <2>2, <2>3, ReleaseImplements
<1>7. CASE CommitRefunded(p)
  <2> DEFINE after == Flush(orders[o], row, [row EXCEPT !.payment = "refunded"])
  <2>1. o \in Orders /\ row \in OrderRow /\ s \in Sessions /\ orders[o] \in OrderRow
    BY <1>1, <1>7 DEF CommitRefunded
  <2>2. after \in OrderRow /\ after.reservation = orders[o].reservation
    BY <1>2, <2>1, FlushRow
  <2>3. orders' = [orders EXCEPT ![o] = after] /\ UNCHANGED <<stock, catalog, items>>
    BY <1>7 DEF CommitRefunded
  <2> HIDE DEF after
  <2> QED
    BY <1>0, <2>1, <2>2, <2>3, HoldKept
<1>8. CASE RefreshCompleted(p) \/ IgnoreCompleted(p) \/ LoseExpired(p)
  BY <1>3, <1>8 DEF RefreshCompleted, IgnoreCompleted, LoseExpired, tables
<1> QED
  BY <1>4, <1>5, <1>6, <1>7, <1>8 DEF PaymentStep, CommitWebhook

\* The owner's changes of the catalog restock and delist.
LEMMA CatalogImplements ==
    ASSUME TypeOK, NEW v \in Variants, CatalogStep(v)
    PROVE  ReservationStep
<1>0. catalog \in [Variants -> CatalogStatus] /\ stock \in [Variants -> Nat]
  BY DEF TypeOK, StoreTypeOK
<1>1. ASSUME NEW n \in 0..MaxStock, EditVariantStock(v, n) PROVE ReservationStep
  <2>1. Reservation!Restock(v)
    BY <1>1 DEF EditVariantStock, Reservation!Restock
  <2> QED
    BY <2>1 DEF ReservationStep, Reservation!Next
<1>2. ASSUME NEW status \in {"on_sale", "off_sale"}, SetOnSale(v, status)
      PROVE  ReservationStep
  <2>1. {w \in Variants : catalog'[w] # "deleted"} = {w \in Variants : catalog[w] # "deleted"}
    BY <1>0, <1>2 DEF SetOnSale
  <2> QED
    BY <1>2, <2>1 DEF SetOnSale, ReservationStep, Reservation!vars
<1>3. CASE RemoveVariant(v)
  <2>1. {w \in Variants : catalog'[w] # "deleted"} =
            {w \in Variants : catalog[w] # "deleted"} \ {v}
    BY <1>0, <1>3 DEF RemoveVariant
  <2>2. Reservation!Delist(v)
    BY <1>3, <2>1 DEF RemoveVariant, Reservation!Delist
  <2> QED
    BY <2>2 DEF ReservationStep, Reservation!Next
<1> QED
  BY <1>1, <1>2, <1>3 DEF CatalogStep

\* Every step of the order flow is a step of the abstract reservation, or stutters.
LEMMA StepImplements == IndInv /\ [Next]_vars => ReservationStep
<1> SUFFICES ASSUME IndInv, [Next]_vars PROVE ReservationStep
  OBVIOUS
<1>0. TypeOK
  BY DEF IndInv
<1>1. ASSUME UNCHANGED <<stock, catalog, orders, items>> PROVE ReservationStep
  BY <1>0, <1>1, HoldKept
<1>2. ASSUME NEW p \in Procs, OrderStep(p) \/ PaymentStep(p) PROVE ReservationStep
  BY <1>2, OrderImplements, PaymentImplements
<1>3. ASSUME NEW p \in Procs, AbortRequest(p) PROVE ReservationStep
  BY <1>1, <1>3 DEF AbortRequest, Abort, tables
<1>4. ASSUME NEW s \in Sessions, DeliverWebhook(s) PROVE ReservationStep
  BY <1>1, <1>4
  DEF DeliverWebhook, DeliverCompleted, DeliverExpired, DeliverRefunded, tables,
      CompletedAlreadyPaid, IgnoreExpired, IntentFailed, RefundUnmatched,
      BeginCompleted, BeginExpired, BeginRefunded
<1>5. ASSUME NEW s \in Sessions, StripeStep(s) PROVE ReservationStep
  BY <1>1, <1>5 DEF StripeStep, Pay, FailAttempt, PassExpiry, Expire, Refund, tables
<1>6. ASSUME NEW v \in Editable, CatalogStep(v) PROVE ReservationStep
  BY <1>0, <1>6, CatalogImplements, EditableAssumption
<1>7. ASSUME UNCHANGED vars PROVE ReservationStep
  BY <1>1, <1>7 DEF vars, tables
<1>8. CASE Next
  BY <1>2, <1>3, <1>4, <1>5, <1>6, <1>8 DEF Next
<1> QED
  BY <1>7, <1>8

\* The order flow, with its requests, webhooks, sessions and aborts, implements
\* the abstract stock reservation: an order takes its units all at once, and
\* they are sold or given back, once.
THEOREM Implements == Spec => ReservationSpec
<1>1. Init => Reservation!Init
  BY DEF Init, StoreInit, Reservation!Init, NoOrder, Nothing
<1>2. IndInv /\ [Next]_vars => [Reservation!Next]_(Reservation!vars)
  BY StepImplements DEF ReservationStep
<1> QED
  BY <1>1, <1>2, Inductive, PTL DEF Spec, ReservationSpec, Reservation!Spec
-----------------------------------------------------------------------------
(***************************************************************************)
(* What is proved of StockReservation holds of the order flow.             *)
(***************************************************************************)
Units ==
    INSTANCE StockReservationProofs WITH
        free   <- stock,
        listed <- {v \in Variants : catalog[v] # "deleted"},
        hold   <- [o \in Orders |-> orders[o].reservation],
        units  <- items

\* No interleaving of checkouts, cancellations, webhooks and owner changes
\* creates or loses a unit of a variant that is not deleted: what leaves
\* stock_quantity is held by an order, and comes back once.
THEOREM StockIsConserved == Spec => StockConserved
<1>1. Units!Spec => Units!UnitsConserved
  <2>1. Units!IsFiniteSet(Orders)
    BY OrdersAssumption DEF Units!IsFiniteSet, IsFiniteSet
  <2> QED
    BY <2>1, BoundsAssumption, Units!Conservation
<1>2. Reservation!Init <=> Units!Init
  BY DEF Units!Init, Reservation!Init
<1>3. ReservationStep <=> [Units!Next]_(Units!vars)
  BY DEF ReservationStep, Reservation!Next, Units!Next, Reservation!vars, Units!vars,
         Reservation!Reserve, Units!Reserve, Reservation!Release, Units!Release,
         Reservation!Consume, Units!Consume, Reservation!Restock, Units!Restock,
         Reservation!Delist, Units!Delist
<1>4. [Units!KeepsUnits]_(Units!vars) <=> [Reservation!KeepsUnits]_(Reservation!vars)
  <2>1. \A v \in Variants : /\ Units!Total(v) = Reservation!Total(v)
                            /\ Units!Total(v)' = Reservation!Total(v)'
    BY DEF Units!Total, Reservation!Total, Units!HeldUnits, Reservation!HeldUnits,
           Units!Cardinality, Reservation!Cardinality
  <2> QED
    BY <2>1 DEF Reservation!KeepsUnits, Units!KeepsUnits, Reservation!vars, Units!vars,
                Reservation!Restock, Units!Restock
<1> QED
  BY <1>1, <1>2, <1>3, <1>4, Implements, PTL
  DEF ReservationSpec, Reservation!Spec, Units!Spec, StockConserved,
      Reservation!UnitsConserved, Units!UnitsConserved, ReservationStep
=============================================================================
