---------------------------- MODULE AddressBook ----------------------------
(***************************************************************************)
(* One customer's delivery addresses (address_service.py and its           *)
(* repository) on PostgreSQL at READ COMMITTED.                            *)
(*                                                                         *)
(* Here the statements of a request are separate steps: which address is   *)
(* the default one is decided by several UPDATEs of several rows, and two  *)
(* requests of the same customer meet on the row locks and on the partial  *)
(* unique index over the default rows.  rows is what is committed; a row   *)
(* locked by p has an uncommitted version new, seen by p alone.  Names,    *)
(* streets and their encryption are one bit (dirty): whether a column      *)
(* other than is_default changes.                                          *)
(***************************************************************************)
EXTENDS Naturals, FiniteSets

CONSTANTS
    Addresses,  \* identifiers (uuid) an address row may get, each used once
    Procs,      \* requests of the customer that may be in flight at once
    None        \* no lock holder, and an is_default the client left out

ASSUME ProcsAssumption == None \notin Procs
ASSUME NoneIsNotBoolean == None \notin BOOLEAN

VARIABLES
    rows,  \* user_addresses: "unused", "plain", "default" or "deleted"
    lock,  \* the transaction that has written the row and not ended
    new,   \* the version that transaction wrote
    tx     \* the request each process handles

vars == <<rows, lock, new, tx>>
-----------------------------------------------------------------------------
RowState == {"unused", "plain", "default", "deleted"}
Present == {"plain", "default"}

Operations == {"create", "update", "delete", "set_default"}
Steps == {"write", "clear", "delete", "heir", "unset", "unsetting", "insert",
          "set", "commit"}

Request == [op     : Operations,
            target : Addresses,             \* the address it is about
            wants  : BOOLEAN \cup {None},   \* payload.is_default
            was    : BOOLEAN,               \* is_default as it was loaded
            dirty  : BOOLEAN,
            at     : Steps,                 \* the next statement
            todo   : SUBSET Addresses,      \* rows an UPDATE has yet to reach
            raced  : BOOLEAN]               \* another request overlapped it

Idle == [op |-> "idle"]
Active == {p \in Procs : tx[p] # Idle}

TypeOK ==
    /\ rows \in [Addresses -> RowState]
    /\ lock \in [Addresses -> Procs \cup {None}]
    /\ new \in [Addresses -> RowState]
    /\ tx \in [Procs -> Request \cup {Idle}]

Init ==
    /\ rows = [a \in Addresses |-> "unused"]
    /\ lock = [a \in Addresses |-> None]
    /\ new = rows
    /\ tx = [p \in Procs |-> Idle]
-----------------------------------------------------------------------------
(***************************************************************************)
(* PostgreSQL.                                                             *)
(***************************************************************************)
Seen(p, a) == IF lock[a] = p THEN new[a] ELSE rows[a]
SeenRows(p) == {a \in Addresses : Seen(p, a) \in Present}

Free(p, a) == lock[a] \in {p, None}

Write(p, a, version) ==
    /\ lock' = [lock EXCEPT ![a] = p]
    /\ new' = [new EXCEPT ![a] = version]

\* uq_user_addresses_one_default_per_user is checked statement by statement.
\* A default row somebody is removing or adding makes the statement wait for
\* that transaction; one that stands makes it fail.
AwaitsDefault(p, a) ==
    \E b \in Addresses \ {a} : /\ ~Free(p, b)
                               /\ "default" \in {rows[b], new[b]}

\* Mutant of ClashesWithDefault: a schema without the index.
NeverClashes(p, a) == FALSE

ClashesWithDefault(p, a) ==
    \E b \in Addresses \ {a} : Free(p, b) /\ Seen(p, b) = "default"

\* The end of a transaction.
EndTx(p) ==
    /\ lock' = [a \in Addresses |-> IF lock[a] = p THEN None ELSE lock[a]]
    /\ tx' = [tx EXCEPT ![p] = Idle]
    /\ UNCHANGED new

Rollback(p) == EndTx(p) /\ UNCHANGED rows

Commit(p) ==
    /\ tx[p] # Idle /\ tx[p].at = "commit"
    /\ rows' = [a \in Addresses |-> Seen(p, a)]
    /\ EndTx(p)

GoTo(p, step) == tx' = [tx EXCEPT ![p].at = step]
-----------------------------------------------------------------------------
(***************************************************************************)
(* A request arrives and loads the address, or the list, it starts from;   *)
(* 404 when the address is not there ends it without a trace.              *)
(***************************************************************************)
Begin(p, op, a, wants, was, dirty, step) ==
    tx' = [q \in Procs |->
             IF q = p
             THEN [op |-> op, target |-> a, wants |-> wants, was |-> was,
                   dirty |-> dirty, at |-> step, todo |-> {},
                   raced |-> Active # {}]
             ELSE IF tx[q] = Idle THEN Idle ELSE [tx[q] EXCEPT !.raced = TRUE]]

\* The first address becomes the default one, whatever the client asked.
CreateAddress(p) ==
    \E a \in Addresses, asked \in BOOLEAN :
        LET default == asked \/ SeenRows(p) = {}
        IN  /\ tx[p] = Idle
            /\ rows[a] = "unused"
            /\ \A q \in Active : tx[q].target # a
            /\ Begin(p, "create", a, default, FALSE, TRUE,
                     IF default THEN "unset" ELSE "insert")
            /\ UNCHANGED <<rows, lock, new>>

\* Changed columns are flushed before the UPDATE that unsets the defaults.
UpdateAddress(p) ==
    \E a \in Addresses, wants \in BOOLEAN \cup {None}, dirty \in BOOLEAN :
        LET was == rows[a] = "default"
        IN  /\ tx[p] = Idle
            /\ rows[a] \in Present
            /\ Begin(p, "update", a, wants, was, dirty,
                     CASE wants = FALSE /\ was -> "clear"
                       [] wants = TRUE /\ ~dirty -> "unset"
                       [] wants # TRUE /\ ~dirty /\ ~(wants = FALSE /\ was) -> "commit"
                       [] OTHER -> "write")
            /\ UNCHANGED <<rows, lock, new>>

DeleteAddress(p) ==
    \E a \in Addresses :
        /\ tx[p] = Idle
        /\ rows[a] \in Present
        /\ Begin(p, "delete", a, None, rows[a] = "default", FALSE, "delete")
        /\ UNCHANGED <<rows, lock, new>>

FirstStep == "unset"

SetDefaultAddress(p) ==
    \E a \in Addresses :
        /\ tx[p] = Idle
        /\ rows[a] \in Present
        /\ Begin(p, "set_default", a, TRUE, rows[a] = "default", FALSE, FirstStep)
        /\ UNCHANGED <<rows, lock, new>>
-----------------------------------------------------------------------------
(***************************************************************************)
(* The statements.  An UPDATE by the ORM that finds its row gone raises    *)
(* StaleDataError and the request is rolled back; a DELETE only warns.     *)
(***************************************************************************)
WriteRow(p) ==
    LET r == tx[p]
        version == IF r.at = "clear" THEN "plain" ELSE Seen(p, r.target)
    IN  /\ r # Idle /\ r.at \in {"write", "clear"}
        /\ Free(p, r.target)
        /\ IF Seen(p, r.target) = "deleted"
           THEN Rollback(p)
           ELSE /\ Write(p, r.target, version)
                /\ GoTo(p, IF r.wants = TRUE THEN "unset" ELSE "commit")
                /\ UNCHANGED rows

\* Mutant of AfterDelete: no address inherits the default.
NoHeir(p) == "commit"

AfterDelete(p) == IF tx[p].was THEN "heir" ELSE "commit"

DeleteRow(p) ==
    LET r == tx[p]
    IN  /\ r # Idle /\ r.at = "delete"
        /\ Free(p, r.target)
        /\ Write(p, r.target, "deleted")
        /\ GoTo(p, AfterDelete(p))
        /\ UNCHANGED rows

\* remaining_addresses[0]: a default row comes first, then the newest, and
\* which of the plain ones is newest is left open.
PickHeir(p) ==
    LET first == IF \E a \in SeenRows(p) : Seen(p, a) = "default"
                 THEN {a \in SeenRows(p) : Seen(p, a) = "default"}
                 ELSE SeenRows(p)
    IN  /\ tx[p] # Idle /\ tx[p].at = "heir"
        /\ \/ first = {} /\ GoTo(p, "commit")
           \/ \E a \in first :
                tx' = [tx EXCEPT ![p].at = "unset", ![p].target = a]
        /\ UNCHANGED <<rows, lock, new>>

AfterUnset(p) == IF tx[p].op = "create" THEN "insert" ELSE "set"

\* UPDATE user_addresses SET is_default = false: the rows are those its
\* snapshot shows, reached one by one in the order of the scan.
BeginUnset(p) ==
    /\ tx[p] # Idle /\ tx[p].at = "unset"
    /\ tx' = [tx EXCEPT ![p].todo = SeenRows(p),
                        ![p].at = IF SeenRows(p) = {} THEN AfterUnset(p)
                                  ELSE "unsetting"]
    /\ UNCHANGED <<rows, lock, new>>

UnsetRow(p) ==
    /\ tx[p] # Idle /\ tx[p].at = "unsetting"
    /\ \E a \in tx[p].todo :
        /\ Free(p, a)
        /\ IF Seen(p, a) = "deleted" THEN UNCHANGED <<lock, new>>
                                     ELSE Write(p, a, "plain")
        /\ tx' = [tx EXCEPT ![p].todo = @ \ {a},
                            ![p].at = IF tx[p].todo = {a} THEN AfterUnset(p)
                                      ELSE @]
    /\ UNCHANGED rows

\* address.is_default = True and its flush.
SetRow(p) ==
    LET r == tx[p]
    IN  /\ r # Idle /\ r.at = "set"
        /\ Free(p, r.target)
        /\ IF Seen(p, r.target) = "deleted"
           THEN Rollback(p)
           ELSE /\ ~AwaitsDefault(p, r.target)
                /\ IF ClashesWithDefault(p, r.target)
                   THEN Rollback(p)
                   ELSE /\ Write(p, r.target, "default")
                        /\ GoTo(p, "commit")
                        /\ UNCHANGED rows

InsertRow(p) ==
    LET r == tx[p]
    IN  /\ r # Idle /\ r.at = "insert"
        /\ Free(p, r.target)
        /\ r.wants = TRUE => ~AwaitsDefault(p, r.target)
        /\ IF r.wants = TRUE /\ ClashesWithDefault(p, r.target)
           THEN Rollback(p)
           ELSE /\ Write(p, r.target, IF r.wants = TRUE THEN "default" ELSE "plain")
                /\ GoTo(p, "commit")
                /\ UNCHANGED rows
-----------------------------------------------------------------------------
(***************************************************************************)
(* Deadlocks: PostgreSQL finds requests that wait for each other and rolls *)
(* one of them back.                                                       *)
(***************************************************************************)
Holders(S) == {lock[a] : a \in S} \ {None}

Blockers(p) ==
    LET r == tx[p]
        others == Addresses \ {r.target}
        index == Holders({b \in others : "default" \in {rows[b], new[b]}}) \ {p}
        row == Holders({r.target}) \ {p}
    IN  CASE r.at \in {"write", "clear", "delete"} -> row
          [] r.at = "unsetting" -> IF \A a \in r.todo : ~Free(p, a)
                                   THEN Holders(r.todo) ELSE {}
          [] r.at = "set" -> IF row # {} THEN row ELSE index
          [] r.at = "insert" /\ r.wants = TRUE -> index
          [] OTHER -> {}

DeadlockVictims ==
    UNION {S \in SUBSET Active : \A p \in S : Blockers(p) \cap S # {}}

DeadlockAbort(p) == p \in DeadlockVictims /\ Rollback(p)

Arrive(p) == \/ CreateAddress(p)
             \/ UpdateAddress(p)
             \/ DeleteAddress(p)
             \/ SetDefaultAddress(p)

Statement(p) == \/ WriteRow(p)
                \/ DeleteRow(p)
                \/ PickHeir(p)
                \/ BeginUnset(p)
                \/ UnsetRow(p)
                \/ SetRow(p)
                \/ InsertRow(p)
                \/ Commit(p)
                \/ DeadlockAbort(p)

Next == \E p \in Procs : Arrive(p) \/ Statement(p)

Spec == Init /\ [][Next]_vars

\* A request runs to its end.  PostgreSQL queues the waiters of a row, so one
\* whose lock is free again and again gets it (strong fairness), and it breaks
\* deadlocks.
FairSpec == Spec /\ \A p \in Procs : SF_vars(Statement(p))
-----------------------------------------------------------------------------
(***************************************************************************)
(* Properties.                                                             *)
(***************************************************************************)
HasDefault == \E a \in Addresses : rows[a] = "default"
IsEmpty == \A a \in Addresses : rows[a] \notin Present

\* A customer never has two default addresses, however the requests that
\* choose one overlap.
AtMostOneDefault ==
    \A a, b \in Addresses :
        rows[a] = "default" /\ rows[b] = "default" => a = b

\* Why: a default row a transaction has written excludes every other one that
\* is committed, or that another transaction may yet commit or restore.
Excludes(a, b) ==
    /\ lock[b] = lock[a] => new[b] # "default"
    /\ lock[b] = None => rows[b] # "default"
    /\ lock[b] \notin {lock[a], None} => "default" \notin {rows[b], new[b]}

PendingDefaultIsAlone ==
    \A a, b \in Addresses :
        a # b /\ lock[a] # None /\ new[a] = "default" => Excludes(a, b)

IndInv == TypeOK /\ AtMostOneDefault /\ PendingDefaultIsAlone

\* The code unsets the old default before it sets the new one, so the index
\* and the ORM turn a request down only when another one ran at the same time.
OnlyRacesFail ==
    [][\A p \in Procs : /\ tx[p] # Idle
                        /\ tx'[p] = Idle
                        => tx[p].at = "commit" \/ tx[p].raced]_vars

\* A book with addresses has a default one, from the first address on and over
\* every delete of the default, unless the customer asked for none
\* (is_default = false) or the request that ends without one was overlapped.
DefaultIsHandedOn ==
    [][(HasDefault \/ IsEmpty) /\ ~HasDefault' /\ ~IsEmpty' =>
         \E p \in Procs : /\ tx[p] # Idle /\ tx'[p] = Idle
                          /\ \/ tx[p].op = "update" /\ tx[p].wants = FALSE
                             \/ tx[p].raced]_vars

\* Rows are locked by requests in flight, and requests that met know it.
LocksAreHeld == \A a \in Addresses : lock[a] # None => tx[lock[a]] # Idle
RacesAreMarked == \A p, q \in Active : p # q => tx[p].raced /\ tx[q].raced

\* What p would leave if it committed now.
SeesDefault(p) == \E a \in Addresses : Seen(p, a) = "default"
SeesNothing(p) == SeenRows(p) = {}
WroteNothing(p) == \A a \in Addresses : Seen(p, a) = rows[a]

\* Where a request that nobody overlapped stands: its address is there, the old
\* defaults are unset before the new one is set, and a commit leaves a default.
LoneStep(p) ==
    LET r == tx[p]
    IN  /\ r.at \in {"write", "clear"} =>
              r.op = "update" /\ WroteNothing(p) /\ rows[r.target] \in Present
        /\ r.at = "clear" => r.wants = FALSE
        /\ r.at = "delete" =>
              /\ r.op = "delete" /\ WroteNothing(p) /\ rows[r.target] \in Present
              /\ r.was <=> rows[r.target] = "default"
        /\ r.at = "heir" => r.op = "delete"
        /\ r.at \in {"unset", "unsetting", "set"} /\ r.op # "create" =>
              Seen(p, r.target) \in Present
        /\ r.at \in {"unset", "unsetting"} /\ r.op = "create" => r.wants = TRUE
        /\ r.at = "unsetting" =>
              \A a \in Addresses : Seen(p, a) = "default" => a \in r.todo
        /\ r.at = "set" => r.op # "create" /\ ~SeesDefault(p)
        /\ r.at = "insert" =>
              /\ r.wants = TRUE => ~SeesDefault(p)
              /\ r.wants # TRUE => /\ WroteNothing(p) /\ ~IsEmpty
                                  /\ rows[r.target] = "unused"
        /\ r.at = "commit" =>
              \/ ~HasDefault /\ ~IsEmpty
              \/ r.op = "update" /\ r.wants = FALSE
              \/ SeesDefault(p) \/ SeesNothing(p)

LoneRequest == \A p \in Active : ~tx[p].raced => LoneStep(p)

\* Every step keeps this together with IndInv (AddressBookProofs).
RaceInv == LocksAreHeld /\ RacesAreMarked /\ LoneRequest

\* Requests wait for row locks and for the index, never for ever.
RequestsEnd == \A p \in Procs : (tx[p] # Idle) ~> (tx[p] = Idle)
=============================================================================
