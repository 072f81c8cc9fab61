---------------------------- MODULE PaymentProofs ----------------------------
(***************************************************************************)
(* What a payment leaves behind, for any numbers of orders, sessions,      *)
(* requests and repeated webhooks: one announcement of each sale, a record *)
(* of one of an order's processed payments, stock behind every paid order  *)
(* or a flag on it, and for every open reservation an event that can end   *)
(* it.                                                                     *)
(***************************************************************************)
EXTENDS OrderSystemProofs

Inv == IndInv /\ PaymentInv
-----------------------------------------------------------------------------
(***************************************************************************)
(* Stripe's sessions and events.                                           *)
(***************************************************************************)
\* Events stay, a session keeps its order, and what has ended stays so.
StripeGrows ==
    /\ emitted \subseteq emitted'
    /\ \A s \in Sessions :
          /\ sessions[s].state # "unused" =>
                sessions'[s].order = sessions[s].order /\ sessions'[s].state # "unused"
          /\ sessions[s].state \in {"complete", "expired"} =>
                sessions'[s].state = sessions[s].state

StripeMoves == StripeGrows /\ EventsAreTrue' /\ ContinuesOK'

\* The types of Stripe's sessions and events, and of the requests.
LEMMA StripeTypes ==
    ASSUME Inv
    PROVE  /\ sessions \in [Sessions -> CheckoutSession]
           /\ emitted \subseteq PaymentEvent
           /\ db \in [Procs -> Request \cup {Idle}]
           /\ orders \in [Orders -> OrderRow]
BY DEF Inv, IndInv, TypeOK, StoreTypeOK, StripeTypeOK

\* A request that continues a payment names a session.
LEMMA ContinueSession ==
    ASSUME Inv, NEW p \in Procs, Busy(p, "continue")
    PROVE  /\ db[p].session \in Sessions /\ db[p].order \in Orders
           /\ sessions[db[p].session].order = db[p].order
           /\ sessions[db[p].session].state = "created"
           /\ sessions[db[p].session].lapsed = FALSE
<1>1. db[p].session \in Sessions /\ db[p].order \in Orders
  BY BusyRequest DEF Inv, IndInv, SessionsKnown, Busy
<1>2. sessions[db[p].session] =
          [order |-> db[p].order, state |-> "created", lapsed |-> FALSE]
  BY DEF Inv, PaymentInv, ContinuesOK
<1> QED
  BY <1>1, <1>2

\* Steps that leave Stripe alone and begin no continuation.
LEMMA StripeKept ==
    ASSUME Inv, UNCHANGED stripe,
           \A q \in Procs : db'[q] # Idle /\ db'[q].op = "continue" => db'[q] = db[q]
    PROVE  StripeMoves
<1>1. EventsAreTrue' /\ StripeGrows
  BY DEF Inv, PaymentInv, EventsAreTrue, StripeGrows, stripe
<1>2. ContinuesOK'
  BY DEF Inv, PaymentInv, ContinuesOK, Busy, stripe
<1> QED
  BY <1>1, <1>2 DEF StripeMoves

\* A session is created that no event and no request knows.
LEMMA CreateMoves ==
    ASSUME Inv, NEW s \in Sessions, NEW o \in Orders, NEW state \in {"created", "open"},
           CreateSession(s, o, state), emitted' = emitted
    PROVE  /\ StripeGrows /\ EventsAreTrue'
           /\ \A q \in Procs : Busy(q, "continue") =>
                 db[q].session # s /\ sessions'[db[q].session] = sessions[db[q].session]
           /\ sessions'[s] = [order |-> o, state |-> state, lapsed |-> FALSE]
           /\ Event("expired", s) \notin emitted
<1>1. \A e \in emitted : e.session \in Sessions /\ e.session # s
  BY StripeTypes DEF CreateSession, Inv, IndInv, SessionsKnown, PaymentEvent
<1>2. /\ sessions[s].state = "unused"
      /\ sessions' = [sessions EXCEPT ![s] =
                        [order |-> o, state |-> state, lapsed |-> FALSE]]
  BY DEF CreateSession
<1>3. EventsAreTrue'
  BY <1>1, <1>2, StripeTypes DEF EventsAreTrue, Inv, PaymentInv
<1>4. StripeGrows
  BY <1>2, StripeTypes DEF StripeGrows
<1>5. ASSUME NEW q \in Procs, Busy(q, "continue")
      PROVE  db[q].session # s /\ sessions'[db[q].session] = sessions[db[q].session]
  BY <1>2, <1>5, ContinueSession, StripeTypes
<1>6. Event("expired", s) \notin emitted
  BY <1>1 DEF Event
<1> QED
  BY <1>2, <1>3, <1>4, <1>5, <1>6, StripeTypes

\* Requests in flight are those of before, and theirs sessions too.
LEMMA ContinuesKept ==
    ASSUME Inv, \A q \in Procs : db'[q] # Idle => db'[q] = db[q],
           \A q \in Procs : Busy(q, "continue") /\ db'[q] = db[q] =>
               sessions'[db[q].session] = sessions[db[q].session]
    PROVE  ContinuesOK'
BY DEF Inv, PaymentInv, ContinuesOK, Busy

\* Stripe's own steps end a session once.
LEMMA StripeStepMoves ==
    ASSUME Inv, NEW s \in Sessions, StripeStep(s)
    PROVE  StripeMoves
<1>0. db' = db
  BY DEF StripeStep, Pay, FailAttempt, PassExpiry, Expire, Refund
<1>1. \A e \in emitted : e.session \in Sessions
  BY StripeTypes DEF PaymentEvent
<1>2. \A q \in Procs : Busy(q, "continue") =>
          /\ db[q].session \in Sessions
          /\ sessions[db[q].session].state = "created"
          /\ sessions[db[q].session].lapsed = FALSE
  BY ContinueSession
<1>3. CASE Pay(s)
  <2>1. /\ sessions[s].state = "open"
        /\ sessions' = [sessions EXCEPT ![s].state = "complete"]
        /\ emitted' = emitted \cup {Event("completed", s)}
    BY <1>3 DEF Pay, Emit
  <2>2. StripeGrows
    BY <2>1, StripeTypes DEF StripeGrows, CheckoutSession
  <2>3. EventsAreTrue'
    BY <1>1, <2>1, StripeTypes DEF Inv, PaymentInv, EventsAreTrue, Event, CheckoutSession
  <2>4. ContinuesOK'
    BY <1>0, <1>2, <2>1, StripeTypes, ContinuesKept
  <2> QED
    BY <2>2, <2>3, <2>4 DEF StripeMoves
<1>4. CASE FailAttempt(s) \/ Refund(s)
  <2>1. /\ sessions' = sessions
        /\ \/ emitted' = emitted \cup {Event("failed", s)}
           \/ /\ emitted' = emitted \cup {Event("refunded", s)}
              /\ sessions[s].state = "complete"
    BY <1>4 DEF FailAttempt, Refund, Emit
  <2>2. StripeGrows
    BY <2>1 DEF StripeGrows
  <2>3. EventsAreTrue'
    BY <2>1 DEF Inv, PaymentInv, EventsAreTrue, Event
  <2>4. ContinuesOK'
    BY <1>0, <2>1, ContinuesKept
  <2> QED
    BY <2>2, <2>3, <2>4 DEF StripeMoves
<1>5. CASE PassExpiry(s)
  <2>1. /\ sessions' = [sessions EXCEPT ![s].lapsed = TRUE] /\ emitted' = emitted
        /\ \A q \in Procs : Busy(q, "continue") => db[q].session # s
    BY <1>5 DEF PassExpiry
  <2>2. StripeGrows
    BY <2>1, StripeTypes DEF StripeGrows, CheckoutSession
  <2>3. EventsAreTrue'
    BY <1>1, <2>1, StripeTypes DEF Inv, PaymentInv, EventsAreTrue, CheckoutSession
  <2>4. ContinuesOK'
    BY <1>0, <1>2, <2>1, StripeTypes, ContinuesKept
  <2> QED
    BY <2>2, <2>3, <2>4 DEF StripeMoves
<1>6. CASE Expire(s)
  <2>1. /\ sessions[s].state \in {"created", "open"} /\ sessions[s].lapsed
        /\ sessions' = [sessions EXCEPT ![s].state = "expired"]
        /\ emitted' = emitted \cup {Event("expired", s)}
    BY <1>6 DEF Expire, Emit
  <2>2. StripeGrows
    BY <2>1, StripeTypes DEF StripeGrows, CheckoutSession
  <2>3. EventsAreTrue'
    BY <1>1, <2>1, StripeTypes DEF Inv, PaymentInv, EventsAreTrue, Event, CheckoutSession
  <2>4. ContinuesOK'
    BY <1>0, <1>2, <2>1, StripeTypes, ContinuesKept
  <2> QED
    BY <2>2, <2>3, <2>4 DEF StripeMoves
<1> QED
  BY <1>3, <1>4, <1>5, <1>6 DEF StripeStep

\* A request's row in db after it begins.
LEMMA BeginMoves ==
    ASSUME Inv, NEW p \in Procs, NEW r \in Request, db' = [db EXCEPT ![p] = r],
           r.op # "continue", UNCHANGED stripe
    PROVE  StripeMoves
<1>1. \A q \in Procs : db'[q] # Idle /\ db'[q].op = "continue" => db'[q] = db[q]
  BY StripeTypes
<1> QED
  BY <1>1, StripeKept

\* A request that ends leaves the others as they are.
LEMMA DoneKeeps ==
    ASSUME Inv, NEW p \in Procs, Done(p)
    PROVE  \A q \in Procs : db'[q] # Idle => q # p /\ db'[q] = db[q]
BY StripeTypes DEF Done

\* A request that ends leaves Stripe's side as it is.
LEMMA DoneMoves ==
    ASSUME Inv, NEW p \in Procs, Done(p), UNCHANGED stripe
    PROVE  StripeMoves
BY DoneKeeps, StripeKept

\* The URL of a session is handed out: the session was created for it.
LEMMA IssueMoves ==
    ASSUME Inv, NEW p \in Procs, CommitContinue(p)
    PROVE  StripeMoves
<1> DEFINE s == db[p].session
<1>1. /\ Busy(p, "continue") /\ s \in Sessions /\ sessions[s].state = "created"
      /\ Done(p) /\ IssueUrl(s) /\ emitted' = emitted
  BY ContinueSession DEF CommitContinue
<1>2. \A e \in emitted : e.session \in Sessions
  BY StripeTypes DEF PaymentEvent
<1> HIDE DEF s
<1>3. /\ sessions' = [sessions EXCEPT ![s].state = "open"]
      /\ sessions[s].state = "created"
  BY <1>1 DEF IssueUrl
<1>4. StripeGrows
  BY <1>1, <1>3, StripeTypes DEF StripeGrows, CheckoutSession
<1>5. EventsAreTrue'
  BY <1>1, <1>2, <1>3, StripeTypes DEF Inv, PaymentInv, EventsAreTrue, CheckoutSession
<1>6. \A q \in Procs : db'[q] # Idle => q # p /\ db'[q] = db[q]
  BY <1>1, DoneKeeps
<1>7. \A q \in Procs : q # p /\ Busy(q, "continue") =>
          db[q].session \in Sessions /\ db[q].session # s
  BY <1>1, ContinueSession DEF s, Inv, PaymentInv, ContinuesOK
<1>8. ContinuesOK'
  <2>1. \A q \in Procs : db'[q] # Idle /\ Busy(q, "continue") =>
            sessions'[db[q].session] = sessions[db[q].session]
    BY <1>3, <1>6, <1>7, StripeTypes
  <2> QED
    BY <1>6, <2>1 DEF Inv, PaymentInv, ContinuesOK, Busy
<1> QED
  BY <1>4, <1>5, <1>8 DEF StripeMoves

\* A continuation creates a session for its order.
LEMMA ContinueMoves ==
    ASSUME Inv, NEW p \in Procs, NEW o \in Orders, NEW s \in Sessions,
           BeginContinue(p, o, s)
    PROVE  StripeMoves
<1> DEFINE r == [Loaded("continue", o) EXCEPT !.session = s]
<1>1. r.op = "continue" /\ r.session = s /\ r.order = o
  BY DEF Loaded
<1>2. db' = [db EXCEPT ![p] = r] /\ CreateSession(s, o, "created") /\ emitted' = emitted
  BY DEF BeginContinue
<1> HIDE DEF r
<1>3. /\ StripeGrows /\ EventsAreTrue'
      /\ sessions'[s] = [order |-> o, state |-> "created", lapsed |-> FALSE]
      /\ \A q \in Procs : Busy(q, "continue") =>
            db[q].session # s /\ sessions'[db[q].session] = sessions[db[q].session]
  BY <1>2, CreateMoves
<1>4. /\ db'[p] = r
      /\ \A q \in Procs : q # p => db'[q] = db[q]
  BY <1>2, StripeTypes
<1>5. ASSUME NEW a \in Procs, Busy(a, "continue")'
      PROVE  /\ sessions'[db'[a].session] =
                   [order |-> db'[a].order, state |-> "created", lapsed |-> FALSE]
             /\ \A q \in Procs :
                   Busy(q, "continue")' /\ db'[q].session = db'[a].session => q = a
  <2>1. CASE a = p
    BY <1>1, <1>3, <1>4, <1>5, <2>1 DEF Busy
  <2>2. CASE a # p
    <3>1. Busy(a, "continue") /\ db'[a] = db[a]
      BY <1>4, <1>5, <2>2 DEF Busy
    <3>2. /\ sessions[db[a].session] =
                [order |-> db[a].order, state |-> "created", lapsed |-> FALSE]
          /\ \A q \in Procs :
                Busy(q, "continue") /\ db[q].session = db[a].session => q = a
      BY <3>1 DEF Inv, PaymentInv, ContinuesOK
    <3>3. \A q \in Procs :
              Busy(q, "continue")' /\ db'[q].session = db'[a].session => q = a
      BY <1>1, <1>3, <1>4, <3>1, <3>2 DEF Busy
    <3> QED
      BY <1>3, <3>1, <3>2, <3>3
  <2> QED
    BY <2>1, <2>2
<1> QED
  BY <1>3, <1>5 DEF StripeMoves, ContinuesOK

\* Whatever step is taken, Stripe's sessions and events agree.
LEMMA NextMoves ==
    ASSUME Inv, Next
    PROVE  StripeMoves
<1>0. TypeOK /\ Typed
  BY DEF Inv, IndInv, Typed
<1>1. ASSUME NEW p \in Procs, OrderStep(p) PROVE StripeMoves
  <2>1. ASSUME NEW o \in Orders, NEW wants \in Quantities, BeginCheckout(p, o, wants)
        PROVE  StripeMoves
    <3> DEFINE r == [Loaded("checkout", o) EXCEPT !.wants = wants]
    <3>1. r \in Request /\ r.op = "checkout"
      BY <1>0, LoadedRequest DEF Loaded, Operations
    <3>2. db' = [db EXCEPT ![p] = r] /\ UNCHANGED stripe
      BY <2>1 DEF BeginCheckout
    <3> HIDE DEF r
    <3> QED
      BY <3>1, <3>2, BeginMoves
  <2>2. ASSUME NEW s \in Sessions, CommitCheckout(p, s) \/ LoseCheckout(p, s)
        PROVE  StripeMoves
    <3>1. /\ db[p].order \in Orders /\ Done(p) /\ emitted' = emitted
          /\ \E state \in {"created", "open"} : CreateSession(s, db[p].order, state)
      BY <1>0, <2>2, BusyRequest DEF CommitCheckout, LoseCheckout, Busy
    <3>2. /\ StripeGrows /\ EventsAreTrue'
          /\ \A q \in Procs : Busy(q, "continue") =>
                sessions'[db[q].session] = sessions[db[q].session]
      BY <3>1, CreateMoves
    <3> QED
      BY <3>1, <3>2, DoneKeeps, ContinuesKept DEF StripeMoves
  <2>3. CASE RejectCheckout(p) \/ CommitCancel(p) \/ CommitOwnerStatus(p)
    BY <2>3, DoneMoves DEF RejectCheckout, CommitCancel, CommitOwnerStatus
  <2>4. ASSUME NEW o \in Orders, BeginCancel(p, o) PROVE StripeMoves
    BY <1>0, <2>4, LoadedRequest, BeginMoves DEF BeginCancel, Operations, Loaded
  <2>5. ASSUME NEW o \in Orders, NEW status \in OwnerStatuses,
               BeginOwnerStatus(p, o, status)
        PROVE  StripeMoves
    <3> DEFINE r == [Loaded("owner_status", o) EXCEPT !.status = status]
    <3>1. r \in Request /\ r.op = "owner_status"
      BY <1>0, LoadedRequest, OwnerStatusesAssumption DEF Loaded, Operations
    <3>2. db' = [db EXCEPT ![p] = r] /\ UNCHANGED stripe
      BY <2>5 DEF BeginOwnerStatus
    <3> HIDE DEF r
    <3> QED
      BY <3>1, <3>2, BeginMoves
  <2> QED
    BY <1>1, <2>1, <2>2, <2>3, <2>4, <2>5, ContinueMoves, IssueMoves
    DEF OrderStep, CommitOrderRequest
<1>2. ASSUME NEW p \in Procs, PaymentStep(p) PROVE StripeMoves
  <2>1. CASE RefreshCompleted(p)
    <3>1. /\ UNCHANGED stripe /\ db[p] \in Request /\ db' = [db EXCEPT ![p] = db'[p]]
          /\ db'[p].op = "late"
      BY <1>0, <2>1, BusyRequest, StripeTypes DEF RefreshCompleted, Busy, Request
    <3> QED
      BY <3>1, StripeKept, StripeTypes
  <2>2. CASE CommitWebhook(p)
    BY <2>2, DoneMoves
    DEF CommitWebhook, CommitCompleted, CommitLatePayment, IgnoreCompleted,
        CommitExpired, LoseExpired, CommitRefunded
  <2> QED
    BY <1>2, <2>1, <2>2 DEF PaymentStep
<1>3. ASSUME NEW s \in Sessions, DeliverWebhook(s) PROVE StripeMoves
  <2>1. CASE db' = db /\ UNCHANGED stripe
    BY <2>1, StripeKept
  <2>2. ASSUME NEW p \in Procs, NEW o \in Orders,
               NEW op \in {"completed", "expired", "refunded"},
               db' = [db EXCEPT ![p] = [Loaded(op, o) EXCEPT !.session = s]],
               UNCHANGED stripe
        PROVE  StripeMoves
    <3> DEFINE r == [Loaded(op, o) EXCEPT !.session = s]
    <3>1. r \in Request /\ r.op = op
      BY <1>0, LoadedRequest DEF Loaded, Operations
    <3>2. db' = [db EXCEPT ![p] = r]
      BY <2>2
    <3> HIDE DEF r
    <3> QED
      BY <2>2, <3>1, <3>2, BeginMoves
  <2>3. ASSUME NEW p \in Procs, BeginCompleted(p, s) \/ BeginExpired(p, s)
        PROVE  StripeMoves
    <3>1. sessions[s].order \in Orders
      BY <2>3 DEF BeginCompleted, BeginExpired, Deliverable, Inv, IndInv,
                  SessionsKnown, Event
    <3> QED
      BY <2>2, <2>3, <3>1 DEF BeginCompleted, BeginExpired
  <2>4. ASSUME NEW p \in Procs, BeginRefunded(p, s) PROVE StripeMoves
    BY <2>2, <2>4 DEF BeginRefunded
  <2> QED
    BY <1>3, <2>1, <2>3, <2>4
    DEF DeliverWebhook, DeliverCompleted, DeliverExpired, DeliverRefunded,
        CompletedAlreadyPaid, IgnoreExpired, IntentFailed, RefundUnmatched
<1>4. ASSUME NEW p \in Procs, AbortRequest(p) PROVE StripeMoves
  BY <1>4, DoneMoves DEF AbortRequest, Abort
<1>5. ASSUME NEW v \in Editable, CatalogStep(v) PROVE StripeMoves
  BY <1>5, StripeKept DEF CatalogStep, EditVariantStock, SetOnSale, RemoveVariant
<1> QED
  BY <1>1, <1>2, <1>3, <1>4, <1>5, StripeStepMoves DEF Next
-----------------------------------------------------------------------------
(***************************************************************************)
(* Rows and requests.                                                      *)
(***************************************************************************)
\* What a row, its timeline and its announcements say of each other.
RowPaid(row, messages, told) ==
    /\ told = IF row.reservation = "consumed" THEN 1 ELSE 0
    /\ row.reservation = "consumed" => "paid" \in messages
    /\ row.reservation = "consumed" \/ row.payment = "paid" => row.intent # None
    /\ row.intent # None => messages \cap {"paid", "late_payment"} # {}
    /\ row.payment = "paid" =>
          \/ row.reservation = "consumed"
          \/ row.reservation = "released" /\ "late_payment" \in messages
    /\ row.payment = "refunded" => row.intent # None

RowsPaid ==
    PaymentsRecorded /\ NotifiedOncePerSale /\ PaidIsBackedOrFlagged /\ RefundedWasPaid

\* The session of a reservation that is new to it: no expiry was sent of it.
CurrentSession(o) ==
    /\ orders'[o].session \in Sessions
    /\ sessions'[orders'[o].session].order = o
    /\ sessions'[orders'[o].session].state # "unused"
    /\ Event("expired", orders'[o].session) \notin emitted

RowsGrow ==
    \A o \in Orders :
        /\ timeline[o] \subseteq timeline'[o]
        /\ orders[o].reservation \in {"consumed", "released"} =>
              orders'[o].reservation = orders[o].reservation
        /\ orders[o].intent # None => orders'[o].intent # None
        /\ orders'[o].reservation = "reserved" =>
              \/ /\ orders[o].reservation = "reserved"
                 /\ orders'[o].session = orders[o].session
              \/ CurrentSession(o)

\* The types of what is written beside an order.
LEMMA RowTypes ==
    ASSUME Inv
    PROVE  /\ timeline \in [Orders -> SUBSET Messages]
           /\ notified \in [Orders -> Nat]
           /\ processed \subseteq emitted
BY DEF Inv, IndInv, TypeOK, StoreTypeOK, PaymentInv, ProcessedWereEmitted

\* What the invariant says of the row of one order.
LEMMA RowIsPaid ==
    ASSUME Inv, NEW o \in Orders
    PROVE  RowPaid(orders[o], timeline[o], notified[o])
BY DEF Inv, PaymentInv, RowPaid, PaymentsRecorded, NotifiedOncePerSale,
       PaidIsBackedOrFlagged, RefundedWasPaid

\* After the step, s is a session of order o that was paid and processed.
PaidAtStripe(s, o) == sessions'[s].state = "complete" /\ s \in PaidSessions(o)'

\* What was paid and processed stays so.
LEMMA PaidStays ==
    ASSUME Inv, StripeMoves, processed \subseteq processed', NEW o \in Orders,
           NEW s \in PaidSessions(o), sessions[s].state = "complete"
    PROVE  PaidAtStripe(s, o)
<1>1. s \in Sessions /\ sessions[s].order = o /\ Event("completed", s) \in processed'
  BY DEF PaidSessions
<1>2. sessions'[s].state = "complete" /\ sessions'[s].order = o
  BY <1>1 DEF StripeMoves, StripeGrows
<1> QED
  BY <1>1, <1>2 DEF PaidAtStripe, PaidSessions, Event

\* No row is written.
LEMMA RowsKept ==
    ASSUME Inv, StripeMoves, UNCHANGED <<orders, timeline, notified>>,
           processed \subseteq processed'
    PROVE  RowsPaid' /\ RowsGrow
<1>1. RowsGrow
  BY DEF RowsGrow
<1>2. \A o \in Orders : orders[o].intent # None => PaidAtStripe(orders[o].intent, o)
  <2> SUFFICES ASSUME NEW o \in Orders, orders[o].intent # None
               PROVE  PaidAtStripe(orders[o].intent, o)
    OBVIOUS
  <2>1. /\ orders[o].intent \in PaidSessions(o)
        /\ sessions[orders[o].intent].state = "complete"
    BY DEF Inv, PaymentInv, PaymentsRecorded
  <2> QED
    BY <2>1, PaidStays
<1>3. PaymentsRecorded' /\ NotifiedOncePerSale' /\ PaidIsBackedOrFlagged'
  BY <1>2 DEF Inv, PaymentInv, PaymentsRecorded, NotifiedOncePerSale,
              PaidIsBackedOrFlagged, PaidAtStripe
<1>4. RefundedWasPaid'
  BY <1>2 DEF Inv, PaymentInv, RefundedWasPaid, PaidAtStripe
<1> QED
  BY <1>1, <1>3, <1>4 DEF RowsPaid

\* One row is written.
LEMMA RowWritten ==
    ASSUME Inv, ReservedIsPending', StripeMoves,
           NEW o \in Orders, NEW row \in OrderRow,
           orders' = [orders EXCEPT ![o] = row], processed \subseteq processed',
           timeline' \in [Orders -> SUBSET Messages], timeline[o] \subseteq timeline'[o],
           \A a \in Orders \ {o} : timeline'[a] = timeline[a] /\ notified'[a] = notified[a],
           RowPaid(row, timeline'[o], notified'[o]),
           \/ row.intent = orders[o].intent
           \/ PaidAtStripe(row.intent, o) /\ row.intent \in Sessions,
           orders[o].reservation \in {"consumed", "released"} =>
               row.reservation = orders[o].reservation,
           row.reservation = "reserved" =>
               \/ orders[o].reservation = "reserved" /\ row.session = orders[o].session
               \/ CurrentSession(o)
    PROVE  RowsPaid' /\ RowsGrow
<1>1. orders'[o] = row /\ \A a \in Orders \ {o} : orders'[a] = orders[a]
  BY StripeTypes
<1>2. \A a \in Orders : RowPaid(orders'[a], timeline'[a], notified'[a])
  BY <1>1, RowIsPaid
<1>3. \A a \in Orders : orders'[a].intent # None => PaidAtStripe(orders'[a].intent, a)
  <2> SUFFICES ASSUME NEW a \in Orders, orders'[a].intent # None,
                      orders'[a].intent = orders[a].intent
               PROVE  PaidAtStripe(orders'[a].intent, a)
    BY <1>1
  <2>1. /\ orders[a].intent \in PaidSessions(a)
        /\ sessions[orders[a].intent].state = "complete"
    BY DEF Inv, PaymentInv, PaymentsRecorded
  <2> QED
    BY <2>1, PaidStays
<1>4. RowsPaid'
  <2>1. PaymentsRecorded' /\ NotifiedOncePerSale' /\ PaidIsBackedOrFlagged'
    BY <1>2, <1>3 DEF PaymentsRecorded, NotifiedOncePerSale, PaidIsBackedOrFlagged,
                      RowPaid, PaidAtStripe
  <2>2. RefundedWasPaid'
    BY <1>2, <1>3 DEF RefundedWasPaid, RowPaid, ReservedIsPending, PaidAtStripe
  <2> QED
    BY <2>1, <2>2 DEF RowsPaid
<1>5. RowsGrow
  <2> SUFFICES ASSUME NEW a \in Orders
               PROVE  /\ timeline[a] \subseteq timeline'[a]
                      /\ orders[a].reservation \in {"consumed", "released"} =>
                            orders'[a].reservation = orders[a].reservation
                      /\ orders[a].intent # None => orders'[a].intent # None
                      /\ orders'[a].reservation = "reserved" =>
                            \/ /\ orders[a].reservation = "reserved"
                               /\ orders'[a].session = orders[a].session
                            \/ CurrentSession(a)
    BY DEF RowsGrow
  <2>1. CASE a = o
    BY <1>1, <2>1, SessionsAssumption
  <2>2. CASE a # o
    BY <1>1, <2>2
  <2> QED
    BY <2>1, <2>2
<1> QED
  BY <1>4, <1>5

\* A save that records no payment keeps a row in order, also one that has been
\* paid meanwhile.
LEMMA SaveUnpaid ==
    ASSUME Inv, NEW o \in Orders, NEW row \in OrderRow, NEW messages,
           timeline[o] \subseteq messages,
           row.intent = orders[o].intent,
           row.payment \in {orders[o].payment, "failed"},
           \/ row.reservation = orders[o].reservation
           \/ orders[o].reservation = "reserved" /\ row.reservation = "released"
    PROVE  RowPaid(row, messages, notified[o])
<1>1. RowPaid(orders[o], timeline[o], notified[o])
  BY RowIsPaid
<1>2. orders[o].reservation = "reserved" => orders[o].payment = "pending"
  BY DEF Inv, IndInv, ReservedIsPending
<1> QED
  BY <1>1, <1>2 DEF RowPaid

\* Requests in flight are those of before.
LEMMA WebhooksKept ==
    ASSUME Inv, StripeMoves, RowsGrow,
           \A q \in Procs : db'[q] # Idle => db'[q] = db[q]
    PROVE  WebhooksOK'
<1> SUFFICES ASSUME NEW q \in Procs, db'[q] # Idle PROVE WebhookOK(db[q])'
  BY DEF WebhooksOK, WebhookOK
<1>1. db[q] # Idle /\ db'[q] = db[q] /\ WebhookOK(db[q]) /\ db[q].order \in Orders
  BY BusyRequest DEF Inv, IndInv, PaymentInv, WebhooksOK
<1>2. db[q].op \in {"completed", "late", "expired"} =>
          db[q].session \in Sessions /\ sessions[db[q].session].state # "unused"
  BY <1>1 DEF Inv, IndInv, SessionsKnown
<1> QED
  BY <1>1, <1>2 DEF WebhookOK, StripeMoves, StripeGrows, RowsGrow

\* A request begins.
LEMMA WebhookBegins ==
    ASSUME Inv, StripeMoves, NEW p \in Procs, NEW r \in Request,
           db' = [db EXCEPT ![p] = r], RowsGrow, WebhookOK(r)'
    PROVE  WebhooksOK'
<1> SUFFICES ASSUME NEW q \in Procs, q # p, db'[q] # Idle PROVE WebhookOK(db[q])'
  BY StripeTypes DEF WebhooksOK, WebhookOK
<1>1. db[q] # Idle /\ db'[q] = db[q] /\ WebhookOK(db[q]) /\ db[q].order \in Orders
  BY StripeTypes, BusyRequest DEF Inv, IndInv, PaymentInv, WebhooksOK
<1>2. db[q].op \in {"completed", "late", "expired"} =>
          db[q].session \in Sessions /\ sessions[db[q].session].state # "unused"
  BY <1>1 DEF Inv, IndInv, SessionsKnown
<1> QED
  BY <1>1, <1>2 DEF WebhookOK, StripeMoves, StripeGrows, RowsGrow
-----------------------------------------------------------------------------
(***************************************************************************)
(* Processed events.                                                       *)
(***************************************************************************)
EventsOK == ProcessedWereEmitted /\ OnePaymentIsRecorded /\ ReservationCanStillEnd

\* An order whose payment event is used up is settled and has a payment recorded.
Recorded(o) ==
    /\ orders'[o].intent # None
    /\ orders'[o].reservation \in {"consumed", "released"}
    /\ timeline'[o] \cap {"paid", "late_payment"} # {}

\* No reservation stays open that session s was to end.
EndsNone(s) ==
    \A o \in Orders : orders[o].reservation = "reserved" /\ orders[o].session = s =>
        orders'[o].reservation # "reserved"

\* Events that become processed have done what they ask for.
LEMMA EventsUsed ==
    ASSUME Inv, StripeMoves, RowsPaid', RowsGrow,
           \A e \in processed' \ processed :
               /\ e \in emitted
               /\ e.kind = "completed" => Recorded(sessions[e.session].order)
               /\ e.kind = "expired" => EndsNone(e.session)
    PROVE  EventsOK'
<1>1. processed' \subseteq emitted
  BY RowTypes
<1>2. ProcessedWereEmitted'
  BY <1>1 DEF ProcessedWereEmitted, StripeMoves, StripeGrows
<1>3. ASSUME NEW s \in Sessions, Event("completed", s) \in processed'
      PROVE  Recorded(sessions'[s].order)
  <2>1. sessions[s].state # "unused" /\ sessions[s].order \in Orders
    BY <1>1, <1>3 DEF Inv, IndInv, SessionsKnown, Event
  <2>2. sessions'[s].order = sessions[s].order
    BY <2>1 DEF StripeMoves, StripeGrows
  <2>3. CASE Event("completed", s) \in processed
    <3>0. s \in PaidSessions(sessions[s].order)
      BY <2>3 DEF PaidSessions
    <3>1. /\ orders[sessions[s].order].intent # None
          /\ orders[sessions[s].order].reservation \in {"consumed", "released"}
          /\ timeline[sessions[s].order] \cap {"paid", "late_payment"} # {}
      BY <2>1, <3>0, SessionsAssumption
      DEF Inv, PaymentInv, OnePaymentIsRecorded, PaidSessions
    <3> QED
      BY <2>1, <2>2, <3>1 DEF RowsGrow, Recorded
  <2>4. CASE Event("completed", s) \notin processed
    BY <1>3, <2>2, <2>4 DEF Event
  <2> QED
    BY <2>3, <2>4
<1>4. OnePaymentIsRecorded'
  <2> SUFFICES ASSUME NEW o \in Orders, NEW s \in PaidSessions(o)'
               PROVE  Recorded(o) /\ orders'[o].intent \in PaidSessions(o)'
    BY DEF OnePaymentIsRecorded, Recorded, PaidSessions
  <2>1. Recorded(o)
    BY <1>3 DEF PaidSessions, Event
  <2> QED
    BY <2>1 DEF Recorded, RowsPaid, PaymentsRecorded
<1>5. ASSUME NEW o \in Orders, orders'[o].reservation = "reserved"
      PROVE  /\ orders'[o].session # None
             /\ sessions'[orders'[o].session].order = o
             /\ sessions'[orders'[o].session].state # "unused"
             /\ Event("expired", orders'[o].session) \notin processed'
  <2>1. CASE orders[o].reservation = "reserved" /\ orders'[o].session = orders[o].session
    <3> DEFINE s == orders[o].session
    <3>1. /\ s # None /\ sessions[s].order = o /\ sessions[s].state # "unused"
          /\ Event("expired", s) \notin processed
      BY <2>1 DEF Inv, PaymentInv, ReservationCanStillEnd
    <3>2. s \in Sessions
      BY <3>1, StripeTypes DEF OrderRow
    <3>3. Event("expired", s) \notin processed'
      BY <1>5, <2>1, <3>1 DEF EndsNone, Event
    <3> QED
      BY <2>1, <3>1, <3>2, <3>3 DEF StripeMoves, StripeGrows
  <2>2. CASE CurrentSession(o)
    BY <1>1, <2>2, SessionsAssumption DEF CurrentSession
  <2> QED
    BY <1>5, <2>1, <2>2 DEF RowsGrow
<1>6. ReservationCanStillEnd'
  BY <1>5 DEF ReservationCanStillEnd, Event
<1> QED
  BY <1>2, <1>4, <1>6 DEF EventsOK

\* No event is processed.
LEMMA EventsKept ==
    ASSUME Inv, StripeMoves, RowsPaid', RowsGrow, processed' = processed
    PROVE  EventsOK'
BY EventsUsed
-----------------------------------------------------------------------------
(***************************************************************************)
(* The steps that write.                                                   *)
(***************************************************************************)
Kept == RowsPaid' /\ RowsGrow /\ WebhooksOK' /\ EventsOK'

\* A request ends; rows and events are as they should be.
LEMMA CommitKeeps ==
    ASSUME Inv, StripeMoves, NEW p \in Procs, Done(p), RowsPaid', RowsGrow, EventsOK'
    PROVE  Kept
BY DoneKeeps, WebhooksKept DEF Kept

\* A checkout inserts the order with the session it created.
LEMMA CheckoutKeeps ==
    ASSUME Inv, StripeMoves, ReservedIsPending', NEW p \in Procs, NEW s \in Sessions,
           CommitCheckout(p, s)
    PROVE  Kept
<1> DEFINE o == db[p].order
           row == [NoOrder EXCEPT !.reservation = "reserved", !.session = s]
<1>1. /\ Busy(p, "checkout") /\ orders' = [orders EXCEPT ![o] = row]
      /\ CreateSession(s, o, "open") /\ Done(p)
      /\ UNCHANGED <<timeline, notified, processed, emitted>>
  BY DEF CommitCheckout
<1>2. o \in Orders /\ orders[o].reservation = "none"
  BY <1>1, BusyRequest DEF Inv, IndInv, RequestsOK, Busy
<1>3. orders[o] = NoOrder
  BY <1>2 DEF Inv, IndInv, RowsOK
<1>4. /\ row \in OrderRow /\ row.intent = None /\ row.payment = "pending"
      /\ row.reservation = "reserved" /\ row.session = s
  BY DEF NoOrder, OrderRow, OrderStatus, PaymentStatus, StockReservationStatus
<1> HIDE DEF row
<1>5. RowPaid(row, timeline'[o], notified'[o])
  BY <1>1, <1>2, <1>4, RowIsPaid DEF RowPaid
<1>6. CurrentSession(o)
  <2>1. /\ sessions'[s] = [order |-> o, state |-> "open", lapsed |-> FALSE]
        /\ Event("expired", s) \notin emitted
    BY <1>1, <1>2, CreateMoves
  <2>2. orders'[o].session = s
    BY <1>1, <1>2, <1>4, StripeTypes
  <2> QED
    BY <2>1, <2>2 DEF CurrentSession
<1>7. RowsPaid' /\ RowsGrow
  <2>1. orders[o].intent = row.intent
    BY <1>3, <1>4 DEF NoOrder
  <2> QED
    BY <1>1, <1>2, <1>4, <1>5, <1>6, <2>1, RowWritten, RowTypes
<1> QED
  BY <1>1, <1>7, EventsKept, CommitKeeps

\* A continued payment replaces the session of a row.
LEMMA ContinueKeeps ==
    ASSUME Inv, StripeMoves, ReservedIsPending', NEW p \in Procs, CommitContinue(p)
    PROVE  Kept
<1> DEFINE o == db[p].order
           s == db[p].session
           new == [db[p].row EXCEPT !.session = s]
           row == Flush(orders[o], db[p].row, new)
<1>1. /\ Busy(p, "continue") /\ orders' = [orders EXCEPT ![o] = row]
      /\ IssueUrl(s) /\ Done(p)
      /\ UNCHANGED <<timeline, notified, processed, emitted>>
  BY DEF CommitContinue
<1>2. /\ s \in Sessions /\ o \in Orders
      /\ sessions[s] = [order |-> o, state |-> "created", lapsed |-> FALSE]
  BY <1>1, ContinueSession DEF Inv, PaymentInv, ContinuesOK
<1>3. db[p].row \in OrderRow /\ orders[o] \in OrderRow /\ new \in OrderRow
  BY <1>1, <1>2, LoadedRow DEF Operations, Inv, OrderRow
<1>4. row \in OrderRow /\ row.reservation = orders[o].reservation
  BY <1>3, FlushRow
<1>5. /\ row.intent = orders[o].intent /\ row.payment = orders[o].payment
      /\ row.session \in {orders[o].session, s}
  BY <1>3 DEF Flush, OrderRow
<1> HIDE DEF row
<1>6. RowPaid(row, timeline'[o], notified'[o])
  BY <1>1, <1>2, <1>4, <1>5, SaveUnpaid
<1>7. row.session = s => CurrentSession(o)
  <2>1. Event("expired", s) \notin emitted
    BY <1>2 DEF Inv, PaymentInv, EventsAreTrue, Event
  <2>2. sessions'[s].order = o /\ sessions'[s].state = "open"
    BY <1>1, <1>2, StripeTypes DEF IssueUrl
  <2> QED
    BY <1>1, <1>2, <2>1, <2>2, StripeTypes DEF CurrentSession
<1>8. RowsPaid' /\ RowsGrow
  BY <1>1, <1>2, <1>4, <1>5, <1>6, <1>7, RowWritten, RowTypes
<1> QED
  BY <1>1, <1>8, EventsKept, CommitKeeps

\* What a save that releases or leaves a row keeps.
LEMMA UnpaidKeeps ==
    ASSUME Inv, StripeMoves, ReservedIsPending', NEW o \in Orders, NEW row \in OrderRow,
           orders' = [orders EXCEPT ![o] = row], notified' = notified,
           processed \subseteq processed',
           timeline' = timeline \/ \E m \in Messages : Record(o, m),
           row.intent = orders[o].intent, row.session = orders[o].session,
           row.payment \in {orders[o].payment, "failed"},
           \/ row.reservation = orders[o].reservation
           \/ orders[o].reservation = "reserved" /\ row.reservation = "released"
    PROVE  RowsPaid' /\ RowsGrow
<1>1. /\ timeline' \in [Orders -> SUBSET Messages] /\ timeline[o] \subseteq timeline'[o]
      /\ \A a \in Orders \ {o} : timeline'[a] = timeline[a]
  BY RowTypes DEF Record
<1>2. RowPaid(row, timeline'[o], notified'[o])
  BY <1>1, SaveUnpaid
<1> QED
  BY <1>1, <1>2, RowWritten

\* The customer cancels.
LEMMA CancelKeeps ==
    ASSUME Inv, StripeMoves, ReservedIsPending', NEW p \in Procs, CommitCancel(p)
    PROVE  Kept
<1> DEFINE o == db[p].order
           new == [db[p].row EXCEPT !.status = "cancelled", !.payment = "failed"]
           row == Flush(ReleaseOnce(orders[o]), db[p].row, new)
<1>1. /\ Busy(p, "cancel") /\ orders' = [orders EXCEPT ![o] = row]
      /\ Record(o, "customer_cancelled") /\ Done(p)
      /\ UNCHANGED <<notified, processed, stripe>>
  BY DEF CommitCancel
<1>2. /\ o \in Orders /\ db[p].row \in OrderRow /\ orders[o] \in OrderRow
  BY <1>1, LoadedRow DEF Operations, Inv
<1>3. new \in OrderRow
  BY <1>2 DEF OrderRow, OrderStatus, PaymentStatus
<1>4. row \in OrderRow /\ row.reservation = ReleaseOnce(orders[o]).reservation
  BY <1>2, <1>3, FlushRow, OnceRow
<1>5. /\ row.intent = orders[o].intent /\ row.session = orders[o].session
      /\ row.payment \in {orders[o].payment, "failed"}
      /\ ReleaseOnce(orders[o]).reservation =
            IF orders[o].reservation = "reserved" THEN "released"
                                                  ELSE orders[o].reservation
  BY <1>2 DEF Flush, OrderRow, ReleaseOnce
<1> HIDE DEF row
<1>6. RowsPaid' /\ RowsGrow
  BY <1>1, <1>2, <1>4, <1>5, UnpaidKeeps DEF Messages
<1> QED
  BY <1>1, <1>6, EventsKept, CommitKeeps

\* The owner sets a status.
LEMMA OwnerStatusKeeps ==
    ASSUME Inv, StripeMoves, ReservedIsPending', NEW p \in Procs, CommitOwnerStatus(p)
    PROVE  Kept
<1> DEFINE o == db[p].order
           new == [db[p].row EXCEPT !.status = db[p].status]
           base == IF OwnerReleases(db[p].row, db[p].status)
                   THEN ReleaseOnce(orders[o]) ELSE orders[o]
           row == Flush(base, db[p].row, new)
<1>1. /\ Busy(p, "owner_status") /\ orders' = [orders EXCEPT ![o] = row]
      /\ Done(p) /\ UNCHANGED <<timeline, notified, processed, stripe>>
  BY DEF CommitOwnerStatus
<1>2. /\ o \in Orders /\ db[p] \in Request
      /\ db[p].row \in OrderRow /\ orders[o] \in OrderRow
  BY <1>1, LoadedRow DEF Operations, Inv
<1>3. new \in OrderRow /\ base \in OrderRow
  BY <1>2, OnceRow DEF OrderRow, Request
<1>4. row \in OrderRow /\ row.reservation = base.reservation
  BY <1>2, <1>3, FlushRow
<1>5. /\ base.intent = orders[o].intent /\ base.session = orders[o].session
      /\ base.payment = orders[o].payment
      /\ \/ base.reservation = orders[o].reservation
         \/ orders[o].reservation = "reserved" /\ base.reservation = "released"
  BY <1>2 DEF OrderRow, ReleaseOnce
<1> HIDE DEF base
<1>6. /\ row.intent = orders[o].intent /\ row.session = orders[o].session
      /\ row.payment = orders[o].payment
  BY <1>2, <1>5 DEF Flush, OrderRow
<1> HIDE DEF row
<1>7. RowsPaid' /\ RowsGrow
  BY <1>1, <1>2, <1>4, <1>5, <1>6, UnpaidKeeps
<1> QED
  BY <1>1, <1>7, EventsKept, CommitKeeps
-----------------------------------------------------------------------------
(***************************************************************************)
(* The webhooks.                                                           *)
(***************************************************************************)
\* What a webhook being handled knows of its event, session and order.
LEMMA WebhookKnown ==
    ASSUME Inv, NEW p \in Procs,
           NEW op \in {"completed", "late", "expired", "refunded"}, Busy(p, op)
    PROVE  /\ db[p] \in Request /\ db[p].order \in Orders /\ db[p].session \in Sessions
           /\ db[p].row \in OrderRow /\ orders[db[p].order] \in OrderRow
           /\ db[p].op = op /\ WebhookOK(db[p]) /\ SnapshotOK(db[p])
           /\ op = "late" => orders[db[p].order].reservation = "released"
           /\ op = "refunded" =>
                 orders[db[p].order].reservation \in {"consumed", "released"}
<1>1. /\ db[p] \in Request /\ db[p].order \in Orders /\ db[p].row \in OrderRow
      /\ orders[db[p].order] \in OrderRow /\ SnapshotOK(db[p])
      /\ op = "late" => db[p].row.reservation = "released"
      /\ op = "refunded" => db[p].row.reservation \in {"consumed", "released"}
  BY LoadedRow DEF Operations, Inv
<1>2. db[p].session \in Sessions /\ WebhookOK(db[p]) /\ db[p].op = op
  BY DEF Busy, Inv, IndInv, SessionsKnown, PaymentInv, WebhooksOK
<1> QED
  BY <1>1, <1>2 DEF SnapshotOK

\* A reservation that a session is to end is the one of that session's order.
LEMMA EndsOne ==
    ASSUME Inv, NEW s \in Sessions,
           LET o == sessions[s].order
           IN  orders[o].reservation = "reserved" /\ orders[o].session = s =>
                   orders'[o].reservation # "reserved"
    PROVE  EndsNone(s)
BY DEF EndsNone, Inv, PaymentInv, ReservationCanStillEnd

\* One event is processed.
LEMMA EventUsed ==
    ASSUME Inv, StripeMoves, RowsPaid', RowsGrow, NEW kind, NEW s \in Sessions,
           Event(kind, s) \in emitted, Process(Event(kind, s)),
           kind = "completed" => Recorded(sessions[s].order),
           kind = "expired" => EndsNone(s)
    PROVE  EventsOK'
<1>1. \A e \in processed' \ processed : e = Event(kind, s)
  BY DEF Process
<1> QED
  BY <1>1, EventsUsed DEF Event

\* The session expires and its reservation is released.
LEMMA ExpiredKeeps ==
    ASSUME Inv, StripeMoves, ReservedIsPending', NEW p \in Procs, CommitExpired(p)
    PROVE  Kept
<1> DEFINE o == db[p].order
           s == db[p].session
           new == [db[p].row EXCEPT !.status = "cancelled", !.payment = "failed"]
           row == Flush(ReleaseOnce(orders[o]), db[p].row, new)
<1>1. /\ Busy(p, "expired") /\ orders' = [orders EXCEPT ![o] = row]
      /\ Record(o, "expired") /\ Process(Event("expired", s)) /\ Done(p)
      /\ orders[o].reservation = "reserved" /\ UNCHANGED <<notified, stripe>>
  BY DEF CommitExpired
<1>2. /\ o \in Orders /\ db[p].row \in OrderRow /\ orders[o] \in OrderRow
      /\ s \in Sessions /\ sessions[s].order = o /\ Event("expired", s) \in emitted
  BY <1>1, WebhookKnown DEF WebhookOK
<1>3. new \in OrderRow
  BY <1>2 DEF OrderRow, OrderStatus, PaymentStatus
<1>4. row \in OrderRow /\ row.reservation = ReleaseOnce(orders[o]).reservation
  BY <1>2, <1>3, FlushRow, OnceRow
<1>5. /\ row.intent = orders[o].intent /\ row.session = orders[o].session
      /\ row.payment \in {orders[o].payment, "failed"}
      /\ ReleaseOnce(orders[o]).reservation = "released"
  BY <1>1, <1>2 DEF Flush, OrderRow, ReleaseOnce
<1> HIDE DEF row
<1>6. RowsPaid' /\ RowsGrow
  BY <1>1, <1>2, <1>4, <1>5, UnpaidKeeps DEF Messages, Process
<1>7. orders'[o].reservation = "released"
  BY <1>1, <1>2, <1>4, <1>5, StripeTypes
<1>8. EventsOK'
  BY <1>1, <1>2, <1>6, <1>7, EndsOne, EventUsed
<1> QED
  BY <1>1, <1>6, <1>8, CommitKeeps

\* A payment that is processed was made at Stripe.
LEMMA PaymentProcessed ==
    ASSUME Inv, StripeMoves, NEW o \in Orders, NEW s \in Sessions,
           sessions[s].order = o,
           Event("completed", s) \in emitted, Process(Event("completed", s))
    PROVE  PaidAtStripe(s, o) /\ processed \subseteq processed'
<1>1. sessions[s].state = "complete"
  BY DEF Inv, PaymentInv, EventsAreTrue, Event
<1>2. sessions'[s].state = "complete" /\ sessions'[s].order = o
  BY <1>1 DEF StripeMoves, StripeGrows
<1> QED
  BY <1>2 DEF PaidAtStripe, PaidSessions, Process, Event

\* The payment makes the sale: it is recorded and announced once.
LEMMA CompletedKeeps ==
    ASSUME Inv, StripeMoves, ReservedIsPending', NEW p \in Procs, CommitCompleted(p)
    PROVE  Kept
<1> DEFINE o == db[p].order
           s == db[p].session
           row == Flush(ConsumeOnce(orders[o]), db[p].row, PaidBy(db[p].row, s))
<1>1. /\ Busy(p, "completed") /\ orders' = [orders EXCEPT ![o] = row]
      /\ Record(o, "paid") /\ Process(Event("completed", s)) /\ Done(p)
      /\ notified' = [notified EXCEPT ![o] = @ + 1]
      /\ Consumable(orders[o])
  BY DEF CommitCompleted
<1>2. /\ o \in Orders /\ db[p].row \in OrderRow /\ orders[o] \in OrderRow
      /\ s \in Sessions /\ sessions[s].order = o /\ Event("completed", s) \in emitted
      /\ db[p].row.payment # "paid"
      /\ db[p].row.intent # None => orders[o].intent # None
  BY <1>1, WebhookKnown DEF WebhookOK
<1>3. PaidBy(db[p].row, s) \in OrderRow
  BY <1>2 DEF PaidBy, OrderRow, PaymentStatus
<1>4. row \in OrderRow /\ row.reservation = ConsumeOnce(orders[o]).reservation
  BY <1>2, <1>3, FlushRow, OnceRow
<1>5. /\ row.intent \in {orders[o].intent, s} /\ row.intent # None
      /\ row.payment = "paid" /\ ConsumeOnce(orders[o]).reservation = "consumed"
  BY <1>1, <1>2, SessionsAssumption
  DEF Flush, OrderRow, ConsumeOnce, Consumable, PaidBy
<1> HIDE DEF row
<1>6. PaidAtStripe(s, o) /\ processed \subseteq processed'
  BY <1>1, <1>2, PaymentProcessed
<1>7. /\ timeline' = [timeline EXCEPT ![o] = timeline[o] \cup {"paid"}]
      /\ timeline' \in [Orders -> SUBSET Messages]
  BY <1>1, <1>2, RowTypes DEF Record, Messages
<1>8. notified'[o] = 1 /\ \A a \in Orders \ {o} : notified'[a] = notified[a]
  BY <1>1, <1>2, RowIsPaid, RowTypes DEF RowPaid, Consumable
<1>9. /\ "paid" \in timeline'[o] /\ orders'[o].reservation = "consumed"
      /\ orders'[o].intent # None
  BY <1>1, <1>2, <1>4, <1>5, <1>7, RowTypes, StripeTypes
<1>10. RowPaid(row, timeline'[o], notified'[o])
  BY <1>4, <1>5, <1>8, <1>9 DEF RowPaid
<1>11. RowsPaid' /\ RowsGrow
  BY <1>1, <1>2, <1>4, <1>5, <1>6, <1>7, <1>8, <1>10, RowTypes, RowWritten
  DEF Consumable
<1>12. EventsOK'
  BY <1>1, <1>2, <1>9, <1>11, EventUsed DEF Recorded
<1> QED
  BY <1>1, <1>11, <1>12, CommitKeeps

\* A payment after the release is recorded and flagged.
LEMMA LatePaymentKeeps ==
    ASSUME Inv, StripeMoves, ReservedIsPending', NEW p \in Procs, CommitLatePayment(p)
    PROVE  Kept
<1> DEFINE o == db[p].order
           s == db[p].session
           row == Flush(orders[o], db[p].row, PaidBy(db[p].row, s))
<1>1. /\ Busy(p, "late") /\ orders' = [orders EXCEPT ![o] = row]
      /\ Record(o, "late_payment") /\ Process(Event("completed", s)) /\ Done(p)
      /\ notified' = notified
  BY DEF CommitLatePayment
<1>2. /\ o \in Orders /\ db[p].row \in OrderRow /\ orders[o] \in OrderRow
      /\ s \in Sessions /\ sessions[s].order = o /\ Event("completed", s) \in emitted
      /\ orders[o].reservation = "released"
      /\ db[p].row.intent # None => orders[o].intent # None
  BY <1>1, WebhookKnown DEF WebhookOK
<1>3. PaidBy(db[p].row, s) \in OrderRow
  BY <1>2 DEF PaidBy, OrderRow, PaymentStatus
<1>4. row \in OrderRow /\ row.reservation = "released"
  BY <1>2, <1>3, FlushRow
<1>5. /\ row.intent \in {orders[o].intent, s} /\ row.intent # None
      /\ row.payment \in {orders[o].payment, "paid"}
  BY <1>2, SessionsAssumption DEF Flush, OrderRow, PaidBy
<1> HIDE DEF row
<1>6. PaidAtStripe(s, o) /\ processed \subseteq processed'
  BY <1>1, <1>2, PaymentProcessed
<1>7. /\ timeline' = [timeline EXCEPT ![o] = timeline[o] \cup {"late_payment"}]
      /\ timeline' \in [Orders -> SUBSET Messages]
  BY <1>1, <1>2, RowTypes DEF Record, Messages
<1>8. /\ "late_payment" \in timeline'[o] /\ orders'[o].reservation = "released"
      /\ orders'[o].intent # None
  BY <1>1, <1>2, <1>4, <1>5, <1>7, RowTypes, StripeTypes
<1>9. RowPaid(row, timeline'[o], notified'[o])
  BY <1>1, <1>2, <1>4, <1>5, <1>8, RowIsPaid, SessionsAssumption DEF RowPaid
<1>10. RowsPaid' /\ RowsGrow
  BY <1>1, <1>2, <1>4, <1>5, <1>6, <1>7, <1>9, RowTypes, RowWritten
<1>11. EventsOK'
  BY <1>1, <1>2, <1>8, <1>10, EventUsed DEF Recorded
<1> QED
  BY <1>1, <1>10, <1>11, CommitKeeps

\* A refund of a recorded payment.
LEMMA RefundedKeeps ==
    ASSUME Inv, StripeMoves, ReservedIsPending', NEW p \in Procs, CommitRefunded(p)
    PROVE  Kept
<1> DEFINE o == db[p].order
           s == db[p].session
           new == [db[p].row EXCEPT !.payment = "refunded"]
           row == Flush(orders[o], db[p].row, new)
<1>1. /\ Busy(p, "refunded") /\ orders' = [orders EXCEPT ![o] = row]
      /\ Record(o, "refunded") /\ Process(Event("refunded", s)) /\ Done(p)
      /\ notified' = notified
  BY DEF CommitRefunded
<1>2. /\ o \in Orders /\ db[p].row \in OrderRow /\ orders[o] \in OrderRow
      /\ s \in Sessions /\ Event("refunded", s) \in emitted
      /\ orders[o].reservation \in {"consumed", "released"} /\ orders[o].intent # None
  BY <1>1, WebhookKnown DEF WebhookOK
<1>3. new \in OrderRow
  BY <1>2 DEF OrderRow, PaymentStatus
<1>4. row \in OrderRow /\ row.reservation = orders[o].reservation
  BY <1>2, <1>3, FlushRow
<1>5. row.intent = orders[o].intent /\ row.payment \in {orders[o].payment, "refunded"}
  BY <1>2 DEF Flush, OrderRow
<1> HIDE DEF row
<1>6. /\ timeline' = [timeline EXCEPT ![o] = timeline[o] \cup {"refunded"}]
      /\ timeline' \in [Orders -> SUBSET Messages]
      /\ timeline[o] \subseteq timeline'[o]
  BY <1>1, <1>2, RowTypes DEF Record, Messages
<1>7. RowPaid(row, timeline'[o], notified'[o])
  BY <1>1, <1>2, <1>4, <1>5, <1>6, RowIsPaid DEF RowPaid
<1>8. RowsPaid' /\ RowsGrow
  BY <1>1, <1>2, <1>4, <1>5, <1>6, <1>7, RowTypes, RowWritten DEF Process
<1>9. EventsOK'
  BY <1>1, <1>2, <1>8, EventUsed
<1> QED
  BY <1>1, <1>8, <1>9, CommitKeeps
-----------------------------------------------------------------------------
(***************************************************************************)
(* The steps that write no row.                                            *)
(***************************************************************************)
\* Nothing is written and no request begins.
LEMMA NothingWritten ==
    ASSUME Inv, StripeMoves, UNCHANGED <<orders, timeline, notified, processed>>,
           \A q \in Procs : db'[q] # Idle => db'[q] = db[q]
    PROVE  Kept
BY RowsKept, WebhooksKept, EventsKept DEF Kept

\* An event is marked processed and nothing else.
LEMMA EventOnly ==
    ASSUME Inv, StripeMoves, UNCHANGED <<orders, timeline, notified>>,
           \A q \in Procs : db'[q] # Idle => db'[q] = db[q],
           NEW kind, NEW s \in Sessions,
           Event(kind, s) \in emitted, Process(Event(kind, s)),
           kind = "completed" => Recorded(sessions[s].order),
           kind = "expired" => EndsNone(s)
    PROVE  Kept
BY RowsKept, WebhooksKept, EventUsed DEF Kept, Process

\* A request begins that is true of its order and session.
LEMMA BeginKeeps ==
    ASSUME Inv, StripeMoves, UNCHANGED <<orders, timeline, notified, processed>>,
           NEW p \in Procs, NEW r \in Request, db' = [db EXCEPT ![p] = r],
           WebhookOK(r)'
    PROVE  Kept
BY RowsKept, WebhookBegins, EventsKept DEF Kept

\* A payment of an order that was sold meanwhile changes nothing.
LEMMA IgnoreCompletedKeeps ==
    ASSUME Inv, StripeMoves, NEW p \in Procs, IgnoreCompleted(p)
    PROVE  Kept
<1> DEFINE o == db[p].order
           s == db[p].session
<1>1. /\ Busy(p, "completed") /\ orders[o].reservation = "consumed" /\ Done(p)
      /\ Process(Event("completed", s)) /\ UNCHANGED <<orders, timeline, notified>>
  BY DEF IgnoreCompleted
<1>2. /\ o \in Orders /\ s \in Sessions /\ sessions[s].order = o
      /\ Event("completed", s) \in emitted
  BY <1>1, WebhookKnown DEF WebhookOK
<1>3. Recorded(o)
  BY <1>1, <1>2 DEF Recorded, Inv, PaymentInv, PaymentsRecorded
<1> QED
  BY <1>1, <1>2, <1>3, DoneKeeps, EventOnly

\* An expiry that comes after the reservation has ended changes nothing.
LEMMA LoseExpiredKeeps ==
    ASSUME Inv, StripeMoves, NEW p \in Procs, LoseExpired(p)
    PROVE  Kept
<1> DEFINE o == db[p].order
           s == db[p].session
<1>1. /\ Busy(p, "expired") /\ orders[o].reservation # "reserved" /\ Done(p)
      /\ Process(Event("expired", s)) /\ UNCHANGED <<orders, timeline, notified>>
  BY DEF LoseExpired
<1>2. /\ o \in Orders /\ s \in Sessions /\ sessions[s].order = o
      /\ Event("expired", s) \in emitted
  BY <1>1, WebhookKnown DEF WebhookOK
<1>3. EndsNone(s)
  BY <1>1, <1>2, EndsOne
<1> QED
  BY <1>1, <1>2, <1>3, DoneKeeps, EventOnly

\* A completed webhook that finds the reservation gone loads the order again.
LEMMA RefreshKeeps ==
    ASSUME Inv, StripeMoves, NEW p \in Procs, RefreshCompleted(p)
    PROVE  Kept
<1>1. /\ Busy(p, "completed") /\ UNCHANGED <<orders, timeline, notified, processed, stripe>>
      /\ db' = [db EXCEPT ![p].op = "late", ![p].row = orders[db[p].order]]
  BY DEF RefreshCompleted, tables
<1>2. /\ db[p] \in Request /\ orders[db[p].order] \in OrderRow
      /\ WebhookOK(db[p]) /\ db[p].op = "completed"
  BY <1>1, WebhookKnown
<1>3. PICK r \in Request :
          /\ r.op = "late" /\ r.session = db[p].session /\ r.order = db[p].order
          /\ r.row = orders[r.order]
          /\ db' = [db EXCEPT ![p] = r]
  <2> DEFINE l == [db[p] EXCEPT !.op = "late", !.row = orders[db[p].order]]
  <2>1. /\ l \in Request /\ l.op = "late" /\ l.session = db[p].session
        /\ l.order = db[p].order /\ l.row = orders[l.order]
    BY <1>2 DEF Request, Operations
  <2>2. db' = [db EXCEPT ![p] = l]
    BY <1>1, StripeTypes
  <2> HIDE DEF l
  <2> QED
    BY <2>1, <2>2
<1>4. WebhookOK(r)'
  BY <1>1, <1>2, <1>3 DEF WebhookOK, stripe
<1> QED
  BY <1>1, <1>3, <1>4, BeginKeeps

\* A delivery begins the work on its order, or has nothing to write.
LEMMA DeliveryKeeps ==
    ASSUME Inv, StripeMoves, NEW s \in Sessions, DeliverWebhook(s)
    PROVE  Kept
<1> DEFINE o == sessions[s].order
<1>1. ASSUME NEW kind, Deliverable(Event(kind, s))
      PROVE  Event(kind, s) \in emitted /\ o \in Orders
  BY <1>1 DEF Deliverable, Event, Inv, IndInv, SessionsKnown
<1>2. CASE CompletedAlreadyPaid(s)
  <2>1. /\ Deliverable(Event("completed", s)) /\ orders[o].payment = "paid"
        /\ Process(Event("completed", s))
        /\ UNCHANGED <<orders, timeline, notified, db>>
    BY <1>2 DEF CompletedAlreadyPaid, AlreadyPaid
  <2>2. o \in Orders /\ Event("completed", s) \in emitted
    BY <1>1, <2>1
  <2>3. Recorded(o)
    BY <2>1, <2>2 DEF Recorded, Inv, PaymentInv, PaymentsRecorded, PaidIsBackedOrFlagged
  <2> QED
    BY <2>1, <2>2, <2>3, EventOnly
<1>3. CASE IgnoreExpired(s)
  <2>1. /\ Deliverable(Event("expired", s)) /\ ~ExpiryApplies(o, s)
        /\ Process(Event("expired", s))
        /\ UNCHANGED <<orders, timeline, notified, db>>
    BY <1>3 DEF IgnoreExpired
  <2>2. o \in Orders /\ Event("expired", s) \in emitted
    BY <1>1, <2>1
  <2>3. EndsNone(s)
    BY <2>1, <2>2, EndsOne DEF ExpiryApplies, Inv, IndInv, ReservedIsPending
  <2> QED
    BY <2>1, <2>2, <2>3, EventOnly
<1>4. CASE IntentFailed(s)
  BY <1>1, <1>4, EventOnly DEF IntentFailed
<1>5. CASE RefundUnmatched(s)
  BY <1>1, <1>5, EventOnly DEF RefundUnmatched
<1>6. ASSUME NEW p \in Procs, NEW a \in Orders,
             NEW op \in {"completed", "expired", "refunded"},
             Event(op, s) \in emitted,
             db' = [db EXCEPT ![p] = [Loaded(op, a) EXCEPT !.session = s]],
             op \in {"completed", "expired"} => a = o,
             op = "completed" => orders[a].payment # "paid",
             op = "refunded" => orders[a].intent # None,
             UNCHANGED <<tables, stripe>>
      PROVE  Kept
  <2>1. PICK r \in Request :
            /\ r.op = op /\ r.session = s /\ r.order = a /\ r.row = orders[a]
            /\ db' = [db EXCEPT ![p] = r]
    <3> DEFINE l == [Loaded(op, a) EXCEPT !.session = s]
    <3>1. /\ l \in Request /\ l.op = op /\ l.session = s /\ l.order = a
          /\ l.row = orders[a]
      BY LoadedRequest DEF Loaded, Operations, Inv, IndInv
    <3>2. db' = [db EXCEPT ![p] = l]
      BY <1>6
    <3> HIDE DEF l
    <3> QED
      BY <3>1, <3>2
  <2>2. WebhookOK(r)'
    BY <1>6, <2>1 DEF WebhookOK, tables, stripe
  <2> QED
    BY <1>6, <2>1, <2>2, BeginKeeps DEF tables
<1>7. ASSUME NEW p \in Procs, BeginCompleted(p, s) PROVE Kept
  BY <1>1, <1>6, <1>7 DEF BeginCompleted, AlreadyPaid
<1>8. ASSUME NEW p \in Procs, BeginExpired(p, s) PROVE Kept
  BY <1>1, <1>6, <1>8 DEF BeginExpired
<1>9. ASSUME NEW p \in Procs, BeginRefunded(p, s) PROVE Kept
  BY <1>1, <1>6, <1>9, SessionsAssumption DEF BeginRefunded
<1> QED
  BY <1>2, <1>3, <1>4, <1>5, <1>7, <1>8, <1>9
  DEF DeliverWebhook, DeliverCompleted, DeliverExpired, DeliverRefunded

\* The requests of customers and the owner.
LEMMA OrderKeeps ==
    ASSUME Inv, StripeMoves, ReservedIsPending', NEW p \in Procs, OrderStep(p)
    PROVE  Kept
<1>0. TypeOK
  BY DEF Inv, IndInv
<1>1. ASSUME NEW r \in Request, r.op \in {"checkout", "continue", "cancel", "owner_status"},
             db' = [db EXCEPT ![p] = r], UNCHANGED tables
      PROVE  Kept
  <2>1. WebhookOK(r)'
    BY <1>1 DEF WebhookOK
  <2> QED
    BY <1>1, <2>1, BeginKeeps DEF tables
<1>2. ASSUME NEW o \in Orders, NEW wants \in Quantities, BeginCheckout(p, o, wants)
      PROVE  Kept
  <2> DEFINE r == [Loaded("checkout", o) EXCEPT !.wants = wants]
  <2>1. r \in Request /\ r.op = "checkout"
    BY <1>0, LoadedRequest DEF Loaded, Operations
  <2>2. db' = [db EXCEPT ![p] = r] /\ UNCHANGED tables
    BY <1>2 DEF BeginCheckout
  <2> HIDE DEF r
  <2> QED
    BY <1>1, <2>1, <2>2
<1>3. ASSUME NEW o \in Orders, NEW s \in Sessions, BeginContinue(p, o, s) PROVE Kept
  <2> DEFINE r == [Loaded("continue", o) EXCEPT !.session = s]
  <2>1. r \in Request /\ r.op = "continue"
    BY <1>0, LoadedRequest DEF Loaded, Operations
  <2>2. db' = [db EXCEPT ![p] = r] /\ UNCHANGED tables
    BY <1>3 DEF BeginContinue
  <2> HIDE DEF r
  <2> QED
    BY <1>1, <2>1, <2>2
<1>4. ASSUME NEW o \in Orders, BeginCancel(p, o) PROVE Kept
  <2>1. Loaded("cancel", o) \in Request /\ Loaded("cancel", o).op = "cancel"
    BY <1>0, LoadedRequest DEF Loaded, Operations
  <2> QED
    BY <1>1, <1>4, <2>1 DEF BeginCancel
<1>5. ASSUME NEW o \in Orders, NEW status \in OwnerStatuses,
             BeginOwnerStatus(p, o, status)
      PROVE  Kept
  <2> DEFINE r == [Loaded("owner_status", o) EXCEPT !.status = status]
  <2>1. r \in Request /\ r.op = "owner_status"
    BY <1>0, LoadedRequest, OwnerStatusesAssumption DEF Loaded, Operations
  <2>2. db' = [db EXCEPT ![p] = r] /\ UNCHANGED tables
    BY <1>5 DEF BeginOwnerStatus
  <2> HIDE DEF r
  <2> QED
    BY <1>1, <2>1, <2>2
<1>6. ASSUME NEW s \in Sessions, RejectCheckout(p) \/ LoseCheckout(p, s) PROVE Kept
  BY <1>6, DoneKeeps, NothingWritten DEF RejectCheckout, LoseCheckout, tables
<1>7. CASE RejectCheckout(p)
  BY <1>7, DoneKeeps, NothingWritten DEF RejectCheckout, tables
<1> QED
  BY <1>2, <1>3, <1>4, <1>5, <1>6, <1>7, CheckoutKeeps, ContinueKeeps, CancelKeeps,
     OwnerStatusKeeps
  DEF OrderStep, CommitOrderRequest

\* Every step keeps the rows, requests and events consistent.
LEMMA StepKeeps ==
    ASSUME Inv, Next, ReservedIsPending'
    PROVE  Kept
<1>0. StripeMoves
  BY NextMoves
<1>1. ASSUME NEW p \in Procs, PaymentStep(p) PROVE Kept
  BY <1>0, <1>1, RefreshKeeps, CompletedKeeps, LatePaymentKeeps, IgnoreCompletedKeeps,
     ExpiredKeeps, LoseExpiredKeeps, RefundedKeeps
  DEF PaymentStep, CommitWebhook
<1>2. ASSUME NEW p \in Procs, AbortRequest(p) PROVE Kept
  BY <1>0, <1>2, DoneKeeps, NothingWritten DEF AbortRequest, Abort, tables
<1>3. ASSUME NEW s \in Sessions, StripeStep(s) PROVE Kept
  BY <1>0, <1>3, NothingWritten
  DEF StripeStep, Pay, FailAttempt, PassExpiry, Expire, Refund, tables
<1>4. ASSUME NEW v \in Editable, CatalogStep(v) PROVE Kept
  BY <1>0, <1>4, NothingWritten
  DEF CatalogStep, EditVariantStock, SetOnSale, RemoveVariant
<1> QED
  BY <1>0, <1>1, <1>2, <1>3, <1>4, OrderKeeps, DeliveryKeeps DEF Next
-----------------------------------------------------------------------------
(***************************************************************************)
(* The theorems.                                                           *)
(***************************************************************************)
LEMMA InitPays == Init => PaymentInv
BY SessionsAssumption
DEF Init, StoreInit, StripeInit, PaymentInv, EventsAreTrue, ProcessedWereEmitted,
    ContinuesOK, WebhooksOK, WebhookOK, Busy, PaymentsRecorded, PaidSessions,
    NotifiedOncePerSale, PaidIsBackedOrFlagged, RefundedWasPaid,
    OnePaymentIsRecorded, ReservationCanStillEnd, NoOrder, Event

\* Every step keeps the payment invariant.
LEMMA PaymentInvStep == Inv /\ [Next]_vars => PaymentInv'
<1> SUFFICES ASSUME Inv, [Next]_vars PROVE PaymentInv'
  OBVIOUS
<1>1. CASE Next
  <2>1. ReservedIsPending'
    BY <1>1, IndInvStep DEF Inv, IndInv
  <2>2. Kept /\ StripeMoves
    BY <1>1, <2>1, StepKeeps, NextMoves
  <2> QED
    BY <2>2 DEF Kept, StripeMoves, RowsPaid, EventsOK, PaymentInv
<1>2. CASE UNCHANGED vars
  BY <1>2 DEF vars, tables, stripe, Inv, PaymentInv, EventsAreTrue,
      ProcessedWereEmitted, ContinuesOK, WebhooksOK, WebhookOK, Busy, PaymentsRecorded,
      NotifiedOncePerSale, PaidIsBackedOrFlagged, RefundedWasPaid,
      OnePaymentIsRecorded, PaidSessions, ReservationCanStillEnd
<1> QED
  BY <1>1, <1>2

\* What payments leave behind stays consistent, whatever the interleaving of
\* requests, webhooks, repeats, aborts and Stripe's own steps: the inductive
\* invariant behind the five theorems below.
THEOREM PaymentsAreConsistent == Spec => []PaymentInv
<1>1. Init => Inv
  BY InitPays, InitTyped, InitConsistent, IndInvSplit DEF Inv
<1>2. Inv /\ [Next]_vars => Inv'
  BY IndInvStep, PaymentInvStep DEF Inv
<1>3. Inv => PaymentInv
  BY DEF Inv
<1> QED
  BY <1>1, <1>2, <1>3, PTL DEF Spec

\* The owners are told of every sale exactly once, however often and in
\* whatever order Stripe repeats its webhooks.
THEOREM SalesAreAnnouncedOnce == Spec => []NotifiedOncePerSale
<1>1. PaymentInv => NotifiedOncePerSale
  BY DEF PaymentInv
<1> QED
  BY <1>1, PaymentsAreConsistent, PTL

\* An order that was paid keeps the record of one of its payments: its
\* PaymentIntent is that of a session of this order whose webhook was processed,
\* the order is settled and a payment is on its timeline.  The payment of an
\* order that was paid once is therefore never lost; of further payments
\* nothing is claimed.
THEOREM PaidOrdersNameAPayment == Spec => []OnePaymentIsRecorded
<1>1. PaymentInv => OnePaymentIsRecorded
  BY DEF PaymentInv
<1> QED
  BY <1>1, PaymentsAreConsistent, PTL

\* Every open reservation has a current session whose expiry can still end it,
\* whatever sessions concurrent continuations of the payment opened.
THEOREM ReservationsCanEnd == Spec => []ReservationCanStillEnd
<1>1. PaymentInv => ReservationCanStillEnd
  BY DEF PaymentInv
<1> QED
  BY <1>1, PaymentsAreConsistent, PTL

\* An order marked PAID has consumed its stock, or carries the request for a
\* manual review.
THEOREM PaidOrdersAreBacked == Spec => []PaidIsBackedOrFlagged
<1>1. PaymentInv => PaidIsBackedOrFlagged
  BY DEF PaymentInv
<1> QED
  BY <1>1, PaymentsAreConsistent, PTL

\* Only an order whose payment was recorded, and completed at Stripe, is ever
\* marked REFUNDED.
THEOREM RefundsFollowPayments == Spec => []RefundedWasPaid
<1>1. PaymentInv => RefundedWasPaid
  BY DEF PaymentInv
<1> QED
  BY <1>1, PaymentsAreConsistent, PTL
=============================================================================
