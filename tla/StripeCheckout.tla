--------------------------- MODULE StripeCheckout ---------------------------
(***************************************************************************)
(* Stripe, as the services use it: hosted Checkout sessions created with   *)
(* the order's id in their metadata and an expiry time, and the webhook    *)
(* events Stripe sends about them, at least once and in any order.         *)
(***************************************************************************)
EXTENDS OrderStore

CONSTANT Kinds     \* bound: the webhook kinds Stripe sends in this instance

ASSUME KindsAssumption == Kinds \subseteq EventKinds

VARIABLES
    sessions,  \* every Checkout session: its order, state and expiry
    emitted    \* webhook events Stripe has to deliver until they succeed

stripe == <<sessions, emitted>>

\* "created": Stripe has it but nobody has its URL yet; "open": payable.
SessionState == {"unused", "created", "open", "complete", "expired"}

CheckoutSession == [order  : Orders \cup {None},
                    state  : SessionState,
                    lapsed : BOOLEAN]         \* now is past expires_at

StripeTypeOK == /\ sessions \in [Sessions -> CheckoutSession]
                /\ emitted \subseteq PaymentEvent

StripeInit ==
    /\ sessions = [s \in Sessions |->
                     [order |-> None, state |-> "unused", lapsed |-> FALSE]]
    /\ emitted = {}

Event(kind, s) == [kind |-> kind, session |-> s]

\* stripe.checkout.Session.create, metadata.order_id = o.
CreateSession(s, o, state) ==
    /\ sessions[s].state = "unused"
    /\ sessions' = [sessions EXCEPT ![s] =
                      [order |-> o, state |-> state, lapsed |-> FALSE]]

\* The URL has been committed to the order and returned to the customer.
IssueUrl(s) == sessions' = [sessions EXCEPT ![s].state = "open"]

Emit(kind, s) == /\ kind \in Kinds
                 /\ emitted' = emitted \cup {Event(kind, s)}

\* The customer pays; Stripe accepts it as long as the session is open.
Pay(s) ==
    /\ sessions[s].state = "open"
    /\ sessions' = [sessions EXCEPT ![s].state = "complete"]
    /\ Emit("completed", s)
    /\ UNCHANGED <<tables, db>>

\* One attempt (PaymentIntent) fails; the session stays open for another.
FailAttempt(s) ==
    /\ sessions[s].state = "open"
    /\ Event("failed", s) \notin emitted
    /\ Emit("failed", s)
    /\ UNCHANGED <<sessions, tables, db>>

\* The clock passes expires_at.  A session lives for 30 minutes at least, so
\* the request that created it has ended by then.
PassExpiry(s) ==
    /\ sessions[s].state \in {"created", "open", "complete"}
    /\ ~sessions[s].lapsed
    /\ ~ \E p \in Procs : Busy(p, "continue") /\ db[p].session = s
    /\ sessions' = [sessions EXCEPT ![s].lapsed = TRUE]
    /\ UNCHANGED <<emitted, tables, db>>

\* Stripe closes a session past its expiry.
Expire(s) ==
    /\ sessions[s].lapsed
    /\ sessions[s].state \in {"created", "open"}
    /\ sessions' = [sessions EXCEPT ![s].state = "expired"]
    /\ Emit("expired", s)
    /\ UNCHANGED <<tables, db>>

\* The owner refunds a payment in the Stripe dashboard.
Refund(s) ==
    /\ sessions[s].state = "complete"
    /\ Event("refunded", s) \notin emitted
    /\ Emit("refunded", s)
    /\ UNCHANGED <<sessions, tables, db>>

StripeStep(s) ==
    Pay(s) \/ FailAttempt(s) \/ PassExpiry(s) \/ Expire(s) \/ Refund(s)
=============================================================================
