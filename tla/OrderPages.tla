----------------------------- MODULE OrderPages -----------------------------
(***************************************************************************)
(* The lists of orders, of a customer and of the owner, turned page by     *)
(* page while orders are placed and change their status                    *)
(* (list_customer_orders and list_owner_orders, with list_orders and       *)
(* count_orders).  The rows of a page and the total are two statements and *)
(* see two moments of the table.                                           *)
(***************************************************************************)
EXTENDS Integers, Sequences, FiniteSets, SequencesExt, Lists

CONSTANTS
    Orders, Statuses,
    Limit,   \* rows of a page
    MaxLeft, \* bound: how often orders leave a list while it is read
    None     \* no filter; not committed

\* Assumed by the module that gives the constants their values.
PagesAssumption ==
    /\ Limit \in Nat \ {0} /\ MaxLeft \in Nat /\ None \notin Statuses
    /\ "processing" \in Statuses /\ IsFiniteSet(Orders)

VARIABLES
    made,     \* orders by created_at, newest first
    status,   \* their statuses, None until they are committed
    \* one reader: the filter, the offset, the next statement, the rows and the total
    \* of the page, and what has been shown of the list so far
    filter, offset, next, rows, total, seen,
    start,    \* the orders in the list when it was opened
    left      \* how often an order has left it since

table == <<made, status>>
reader == <<filter, offset, next, rows, total, seen, start>>
vars == <<table, reader, left>>

Init == /\ made = <<>> /\ status = [o \in Orders |-> None]
        /\ filter = None /\ offset = 0 /\ next = 0 /\ rows = <<>> /\ total = 0
        /\ seen = {} /\ start = {} /\ left = 0
-----------------------------------------------------------------------------
\* Mutant of Passes: an order is listed before it is committed.
PassesUncommitted(f, o) == f = None \/ status[o] = f

Passes(f, o) == status[o] # None /\ (f = None \/ status[o] = f)

List(f) == Chosen(made, {n \in DOMAIN made : Passes(f, made[n])})

Smaller(m, n) == IF m < n THEN m ELSE n

Page(list) == SubSeq(list, offset + 1, Smaller(offset + Limit, Len(list)))

\* Mutant of CountOf: the rows of the page are counted.
CountOfPage(f) == Len(Page(List(f)))

CountOf(f) == Len(List(f))
-----------------------------------------------------------------------------
\* created_at is set when the order is inserted, long before it is committed.
Insert(o) ==
    /\ o \notin ToSet(made)
    /\ made' = <<o>> \o made
    /\ UNCHANGED <<status, reader, left>>

Commit(o) ==
    /\ o \in ToSet(made) /\ status[o] = None
    /\ status' = [status EXCEPT ![o] = "processing"]
    /\ UNCHANGED <<made, reader, left>>

Rollback(o) ==
    /\ status[o] = None
    /\ \E n \in DOMAIN made : made[n] = o /\ made' = RemoveAt(made, n)
    /\ UNCHANGED <<status, reader, left>>

\* The owner, a customer or a webhook changes it.
SetStatus(o, s) ==
    /\ status[o] \notin {None, s}
    /\ status' = [status EXCEPT ![o] = s]
    /\ left' = IF Passes(filter, o) /\ filter \notin {None, s} THEN left + 1 ELSE left
    /\ left' <= MaxLeft
    /\ UNCHANGED <<made, reader>>

Statements == <<"rows", "count">>

\* A list is opened, or opened anew with another filter.
Open(f) ==
    /\ next = 0
    /\ filter' = f /\ offset' = 0 /\ next' = 1 /\ rows' = <<>> /\ total' = 0
    /\ seen' = {} /\ start' = ToSet(List(f)) /\ left' = 0
    /\ UNCHANGED table

Following == IF next = Len(Statements) THEN 0 ELSE next + 1

ReadRows ==
    /\ next # 0 /\ Statements[next] = "rows"
    /\ rows' = Page(List(filter))
    /\ seen' = seen \cup ToSet(Page(List(filter)))
    /\ next' = Following
    /\ UNCHANGED <<table, filter, offset, total, start, left>>

ReadCount ==
    /\ next # 0 /\ Statements[next] = "count"
    /\ total' = CountOf(filter)
    /\ next' = Following
    /\ UNCHANGED <<table, filter, offset, rows, seen, start, left>>

\* While the total says that there is more
Turn ==
    /\ next = 0 /\ offset + Limit < total
    /\ offset' = offset + Limit /\ next' = 1
    /\ UNCHANGED <<table, filter, rows, total, seen, start, left>>

Next ==
    \/ \E o \in Orders : Insert(o) \/ Commit(o) \/ Rollback(o) \/ \E s \in Statuses : SetStatus(o, s)
    \/ \E f \in Statuses \cup {None} : Open(f)
    \/ ReadRows \/ ReadCount \/ Turn

Spec == Init /\ [][Next]_vars
-----------------------------------------------------------------------------
\* Types, and that a list shows committed orders only.
TypeOK ==
    /\ made \in Seq(Orders) /\ IsInjective(made)
    /\ status \in [Orders -> Statuses \cup {None}]
    /\ filter \in Statuses \cup {None} /\ next \in 0..2
    /\ offset \in Nat /\ total \in 0..Cardinality(Orders) /\ rows \in Seq(Orders)
    /\ left \in 0..MaxLeft
    /\ \A o \in seen \cup start : o \in Orders /\ status[o] # None

\* The last page, as its total says
AtEnd == next = 0 /\ offset + Limit >= total

\* Whatever is placed meanwhile, before or after what has been shown, a reader who
\* turns all pages misses at most one order for each that leaves the list: none at
\* all in a customer's list, which no order leaves (list_orders).
NothingSkipped == AtEnd => Cardinality(start \ seen) <= left

\* The total never denies the rows it comes with, unless an order has left: the rows
\* are read first, so orders placed in between make it larger (list_customer_orders).
TotalCoversRows == next = 0 /\ left = 0 /\ rows # <<>> => total >= offset + Len(rows)

(***************************************************************************)
(* The inductive invariant.                                                *)
(***************************************************************************)
Listed == {o \in Orders : Passes(filter, o)}

Newer(p, o) == \E m, n \in DOMAIN made : m < n /\ made[m] = p /\ made[n] = o

Ahead(o) == {p \in Listed : Newer(p, o)}

\* How many rows of the list the pages read so far have covered
Turned == IF next = 1 THEN offset ELSE offset + Limit

\* What was in the list, has not been shown, and will not be unless it comes back
Lost == {o \in start \ seen : o \in Listed => Cardinality(Ahead(o)) < Turned}

IndInv ==
    /\ TypeOK
    /\ \A o \in Orders : status[o] # None => o \in ToSet(made)
    /\ Cardinality(Lost) <= left
    /\ NothingSkipped
    /\ next = 2 /\ left = 0 /\ rows # <<>> => Cardinality(Listed) >= offset + Len(rows)
    /\ TotalCoversRows
=============================================================================
