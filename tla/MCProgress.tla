----------------------------- MODULE MCProgress -----------------------------
(***************************************************************************)
(* What requests wait for, for TLC: the row locks of the stock, those of   *)
(* the address book and the first insert of a profile, each with the       *)
(* fairness of its module.  In each behaviour one of them, chosen at the   *)
(* start, runs; the data of the others stay empty.                         *)
(***************************************************************************)
EXTENDS StockLocks

CONSTANTS
    v1, v2,                      \* the two variants
    Addresses, Procs,            \* AddressBook
    Values, Null, NoProfile      \* Profile

VARIABLES
    component,
    book, bookLock, bookNew, bookTx,
    owned, profile, req

LocksVars == vars
BookVars == <<book, bookLock, bookNew, bookTx>>
ProfileVars == <<owned, profile, req>>

\* Carts with both variants, in both orders.
BothOrders == {<<v1, v2>>, <<v2, v1>>}

Book == INSTANCE AddressBook WITH
    rows <- book, lock <- bookLock, new <- bookNew, tx <- bookTx
Profile == INSTANCE Profile WITH Requests <- Procs, user <- owned

ASSUME Transactions = Procs

ProgressInit ==
    /\ component \in {"locks", "book", "profile"}
    /\ Init /\ Book!Init /\ Profile!Init
    /\ component # "locks" => \A v \in Variants : stock[v] = 0

ProgressVars == <<component, LocksVars, BookVars, ProfileVars>>

\* A step of one of them, by itself.
InLocks(A) == /\ component = "locks" /\ A
              /\ UNCHANGED <<component, BookVars, ProfileVars>>
InBook(A) == /\ component = "book" /\ A
             /\ UNCHANGED <<component, LocksVars, ProfileVars>>
InProfile(A) == /\ component = "profile" /\ A
                /\ UNCHANGED <<component, LocksVars, BookVars>>

ProgressNext == InLocks(Next) \/ InBook(Book!Next) \/ InProfile(Profile!Next)

\* The fairness of each module: since component does not change, that of a
\* disjunction is that of the disjunct which can happen.
ProgressSpec ==
    /\ ProgressInit /\ [][ProgressNext]_ProgressVars
    /\ \A p \in Procs :
         /\ SF_ProgressVars(InLocks(TransactionStep(p)) \/ InBook(Book!Statement(p)))
         /\ WF_ProgressVars(InLocks(BreakDeadlock(p)) \/ InProfile(Profile!RequestStep(p)))
         /\ WF_ProgressVars(InProfile(req[p].at = "failed" /\ Profile!Load(p)))
-----------------------------------------------------------------------------
(***************************************************************************)
(* Properties.                                                             *)
(***************************************************************************)
\* No request waits for ever for a row or an index entry that another one holds:
\* checkouts and releases (decrement_variant_stock, increment_variant_stock), and
\* the changes of an address book (address_service.py).
AllRequestsEnd == RequestsEnd /\ Book!RequestsEnd

\* A page that asks again until it is answered gets the profile
\* (get_or_create_user_profile).
AskingSucceeds == Profile!AskingSucceeds
=============================================================================
