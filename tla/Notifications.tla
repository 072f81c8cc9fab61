---------------------------- MODULE Notifications ----------------------------
(***************************************************************************)
(* How owners and admins learn of a paid order.  The webhook's transaction *)
(* inserts one note for each role, publishes the notes through Redis and   *)
(* commits afterwards (notify_paid_order in payment_service.py,            *)
(* notification_service.py, realtime.py).  Pages receive what is published *)
(* through a websocket, and list and read what is committed                *)
(* (owner_notifications.py, notification_repository.py).                   *)
(*                                                                         *)
(* A note carries the delivery of the webhook that made it, since every    *)
(* delivery inserts new rows.  Counts, pages of the list and notes for     *)
(* single users, which nothing creates, are left out.                      *)
(***************************************************************************)
EXTENDS Naturals, FiniteSets

CONSTANTS
    Sales,     \* orders whose payment Stripe reports
    Pages,     \* browser pages of the staff
    RoleOf,    \* the role of the user of a page
    MaxTries   \* bounds the deliveries of a webhook

Roles == {"owner", "admin"}

\* Assumed by the module that gives the constants their values.
NotificationsAssumption ==
    /\ RoleOf \in [Pages -> Roles]
    /\ MaxTries \in Nat \ {0}

VARIABLES
    handler,    \* per sale: the delivery being handled and what it has published
    notes,      \* the committed rows
    read,       \* those with a read_at
    loaded,     \* per page: the notes a request to mark one has loaded as unread
    page,       \* per page: its websocket and what it has got
    published   \* everything ever published (history)

vars == <<handler, notes, read, loaded, page, published>>
-----------------------------------------------------------------------------
Note == [sale : Sales, role : Roles, try : 1..MaxTries]

\* before: what was published before the page subscribed, and was not committed
\* when it listed (history)
Page == [socket : {"closed", "accepted", "subscribed"}, queue : SUBSET Note,
         shown : SUBSET Note, listed : SUBSET Note, before : SUBSET Note]

ClosedPage == [socket |-> "closed", queue |-> {}, shown |-> {}, listed |-> {},
               before |-> {}]

NoteOf(s, r) == [sale |-> s, role |-> r, try |-> handler[s].try]

\* notification_visible_to_user and build_notification_filters
VisibleTo(p, n) == n.role = RoleOf[p]

Visible(p) == {n \in notes : VisibleTo(p, n)}

Init ==
    /\ handler = [s \in Sales |-> [try |-> 0, open |-> FALSE, told |-> {}]]
    /\ notes = {} /\ read = {} /\ published = {}
    /\ loaded = [p \in Pages |-> {}]
    /\ page = [p \in Pages |-> ClosedPage]
-----------------------------------------------------------------------------
(***************************************************************************)
(* The webhook handler of one sale.  The order's row lock keeps deliveries *)
(* of one order apart; a sale whose notes are committed is not sold again. *)
(***************************************************************************)
Recorded(s) == \E n \in notes : n.sale = s

BeginSale(s) ==
    /\ ~handler[s].open /\ ~Recorded(s) /\ handler[s].try < MaxTries
    /\ handler' = [handler EXCEPT ![s] =
                     [try |-> @.try + 1, open |-> TRUE, told |-> {}]]
    /\ UNCHANGED <<notes, read, loaded, page, published>>

Receives(p, n) == page[p].socket = "subscribed" /\ VisibleTo(p, n)

\* publish_notifications: owners first.  Redis hands a message to the
\* connections subscribed at this moment and keeps nothing.
Publish(s) ==
    \E r \in Roles \ handler[s].told :
      /\ handler[s].open
      /\ r = "admin" => "owner" \in handler[s].told
      /\ handler' = [handler EXCEPT ![s].told = @ \cup {r}]
      /\ published' = published \cup {NoteOf(s, r)}
      /\ page' = [p \in Pages |->
                    IF Receives(p, NoteOf(s, r))
                    THEN [page[p] EXCEPT !.queue = @ \cup {NoteOf(s, r)}]
                    ELSE page[p]]
      /\ UNCHANGED <<notes, read, loaded>>

\* Mutant of MayCommit: the commit comes first and the messages are lost.
MayCommitEarly(s) == handler[s].open

MayCommit(s) == handler[s].open /\ handler[s].told = Roles

CommitSale(s) ==
    /\ MayCommit(s)
    /\ notes' = notes \cup {NoteOf(s, r) : r \in Roles}
    /\ handler' = [handler EXCEPT ![s].open = FALSE]
    /\ UNCHANGED <<read, loaded, page, published>>

\* Redis or the database fails, or the server stops: Stripe delivers again.
AbortSale(s) ==
    /\ handler[s].open /\ handler[s].try < MaxTries
    /\ handler' = [handler EXCEPT ![s].open = FALSE]
    /\ UNCHANGED <<notes, read, loaded, page, published>>
-----------------------------------------------------------------------------
(***************************************************************************)
(* The websocket: accepted first, subscribed afterwards.                   *)
(***************************************************************************)
Connect(p) ==
    /\ page[p].socket = "closed"
    /\ page' = [page EXCEPT ![p].socket = "accepted"]
    /\ UNCHANGED <<handler, notes, read, loaded, published>>

Subscribe(p) ==
    /\ page[p].socket = "accepted"
    /\ page' = [page EXCEPT ![p].socket = "subscribed", ![p].before = published]
    /\ UNCHANGED <<handler, notes, read, loaded, published>>

Forward(p) ==
    \E n \in page[p].queue :
      /\ page' = [page EXCEPT ![p].queue = @ \ {n}, ![p].shown = @ \cup {n}]
      /\ UNCHANGED <<handler, notes, read, loaded, published>>

\* The connection to the page or to Redis ends; the page starts anew.
Disconnect(p) ==
    /\ page[p].socket # "closed"
    /\ page' = [page EXCEPT ![p] = ClosedPage]
    /\ UNCHANGED <<handler, notes, read, loaded, published>>
-----------------------------------------------------------------------------
(***************************************************************************)
(* Requests of a page: listing, with unread_only or without, and reading.  *)
(***************************************************************************)
List(p) ==
    /\ page[p].socket # "closed"
    /\ \E unreadOnly \in BOOLEAN :
         page' = [page EXCEPT ![p].before = @ \ notes,
                    ![p].listed = IF unreadOnly THEN Visible(p) \ read ELSE Visible(p)]
    /\ UNCHANGED <<handler, notes, read, loaded, published>>

\* A note that is not committed is a 404, one of another role a 403.
Found(p, n) == n \in Visible(p)

LoadNote(p) ==
    /\ loaded[p] = {}
    /\ \E n \in (page[p].shown \cup page[p].listed) \ read :
         /\ Found(p, n)
         /\ loaded' = [loaded EXCEPT ![p] = {n}]
    /\ UNCHANGED <<handler, notes, read, page, published>>

CommitRead(p) ==
    \E n \in loaded[p] :
      /\ read' = read \cup {n}
      /\ loaded' = [loaded EXCEPT ![p] = {}]
      /\ UNCHANGED <<handler, notes, page, published>>

MarkAllRead(p) ==
    /\ page[p].socket # "closed"
    /\ read' = read \cup Visible(p)
    /\ UNCHANGED <<handler, notes, loaded, page, published>>
-----------------------------------------------------------------------------
Next ==
    \/ \E s \in Sales : BeginSale(s) \/ Publish(s) \/ CommitSale(s) \/ AbortSale(s)
    \/ \E p \in Pages : \/ Connect(p) \/ Subscribe(p) \/ Forward(p) \/ Disconnect(p)
                        \/ List(p) \/ LoadNote(p) \/ CommitRead(p) \/ MarkAllRead(p)

Spec == Init /\ [][Next]_vars
-----------------------------------------------------------------------------
(***************************************************************************)
(* Properties.                                                             *)
(***************************************************************************)
TypeOK ==
    /\ handler \in [Sales -> [try : 0..MaxTries, open : BOOLEAN, told : SUBSET Roles]]
    /\ notes \subseteq Note /\ published \subseteq Note
    /\ read \subseteq notes
    /\ loaded \in [Pages -> SUBSET Note]
    /\ page \in [Pages -> Page]

\* A page whose websocket is subscribed knows of every committed note of its role
\* that nobody has read, from the list or from a message.  The one it may miss was
\* published before the page subscribed and committed after it listed.
NothingMissed ==
    \A p \in Pages :
      page[p].socket = "subscribed" =>
        \A n \in notes \ read :
          VisibleTo(p, n) =>
            n \in page[p].listed \cup page[p].shown \cup page[p].queue \cup page[p].before

\* A handler has published what it says, and nothing is committed, listed or marked
\* that was not published and committed before.
PublishedFirst ==
    /\ \A s \in Sales : handler[s].open =>
          /\ handler[s].try # 0
          /\ \A r \in handler[s].told : NoteOf(s, r) \in published
    /\ notes \subseteq published
    /\ \A p \in Pages : loaded[p] \subseteq notes /\ page[p].listed \subseteq notes

\* The same of every note that was published, committed or not.
PagesKnow ==
    \A p \in Pages :
      page[p].socket = "subscribed" =>
        \A n \in published \ read :
          VisibleTo(p, n) =>
            n \in page[p].listed \cup page[p].shown \cup page[p].queue \cup page[p].before

\* The inductive invariant
IndInv == TypeOK /\ PublishedFirst /\ PagesKnow
=============================================================================
