----------------------------- MODULE ShrimpParts -----------------------------
(***************************************************************************)
(* The variants and the care parameters of one entry of the catalog, as    *)
(* the owner keeps them (owner_service.py) while customers order.          *)
(*                                                                         *)
(* A request loads a row and commits the columns it has changed in its     *)
(* copy.  Orders change the stock in one guarded UPDATE and are a step     *)
(* here; price stands for the columns of a variant that only owners write, *)
(* ph_min for the ten limits of the care parameters.                       *)
(***************************************************************************)
EXTENDS Naturals, FiniteSets

CONSTANTS
    Variants,  \* shrimp_variants.id, each used once
    Prices,
    Limits,    \* values of ph_min
    MaxStock,  \* bounds the stock an owner enters and orders give back
    Procs,     \* requests in flight
    None,      \* a null, a row that is not there yet
    Deleted,   \* a row that was
    Absent     \* a field the request does not name

VARIABLES
    present,   \* the shrimp row is there
    variants,  \* its variants
    care,      \* its care parameters
    tx,        \* the request each process handles
    alone,     \* processes whose request nothing has overlapped (history)
    failed     \* one of these ended in an internal error (history)

rows == <<present, variants, care>>
history == <<alone, failed>>
vars == <<rows, tx, history>>
-----------------------------------------------------------------------------
CareLevel == {"beginner", "advanced"}
Variant == [price : Prices, stock_quantity : 0..MaxStock]
Care == [ph_min : Limits \cup {None}, care_level : CareLevel]

NoRow == {None, Deleted}
Idle == [at |-> "idle"]

\* Assumed by the module that gives the constants their values.
PartsAssumption ==
    /\ MaxStock \in Nat
    /\ Cardinality({None, Deleted, Absent}) = 3
    /\ {None, Absent} \cap Limits = {}
    /\ NoRow \cap Variant = {} /\ None \notin Care

\* ShrimpVariantUpdate, and CareParameterCreate with its default level.
VariantPayload == [price : Prices \cup {Absent}, stock_quantity : 0..MaxStock \cup {Absent}]
CarePayload == [ph_min : Limits \cup {Absent}, care_level : CareLevel]

Requests ==
    [at : {"insert"}, variant : Variants, payload : Variant]
    \cup [at : {"update"}, variant : Variants, loaded : Variant,
          payload : VariantPayload]
    \cup [at : {"delete"}, variant : Variants]
    \cup [at : {"find"}, payload : CarePayload]
    \cup [at : {"care"}, loaded : Care \cup {None}, payload : CarePayload]

TypeOK ==
    /\ present \in BOOLEAN
    /\ variants \in [Variants -> Variant \cup NoRow]
    /\ care \in Care \cup {None}
    /\ tx \in [Procs -> Requests \cup {Idle}]
    /\ alone \subseteq Procs
    /\ failed \in BOOLEAN

Init == /\ present = TRUE
        /\ variants = [v \in Variants |-> None]
        /\ care = None
        /\ tx = [p \in Procs |-> Idle]
        /\ alone = {} /\ failed = FALSE

Begin(p, r) ==
    /\ tx[p] = Idle
    /\ tx' = [tx EXCEPT ![p] = r]
    /\ alone' = IF \A q \in Procs : tx[q] = Idle THEN {p} ELSE {}
    /\ UNCHANGED <<rows, failed>>

Leave(p) == tx' = [tx EXCEPT ![p] = Idle] /\ alone' = alone \ {p}
End(p) == Leave(p) /\ UNCHANGED failed
Fail(p) == Leave(p) /\ failed' = (failed \/ p \in alone) /\ UNCHANGED rows

At(p, step) == tx[p].at = step
HasRow(v) == variants[v] \notin NoRow
-----------------------------------------------------------------------------
(***************************************************************************)
(* The owner's requests: what they load.                                   *)
(***************************************************************************)
AddVariant(p) ==
    /\ present
    /\ \E v \in Variants, payload \in Variant :
         /\ variants[v] = None
         /\ \A q \in Procs : At(q, "insert") => tx[q].variant # v
         /\ Begin(p, [at |-> "insert", variant |-> v, payload |-> payload])

EditVariant(p) ==
    \E v \in Variants, payload \in VariantPayload :
        /\ HasRow(v)
        /\ Begin(p, [at |-> "update", variant |-> v, loaded |-> variants[v],
                     payload |-> payload])

RemoveVariant(p) ==
    \E v \in Variants : HasRow(v) /\ Begin(p, [at |-> "delete", variant |-> v])

UpsertCare(p) ==
    /\ present
    /\ \E payload \in CarePayload : Begin(p, [at |-> "find", payload |-> payload])

\* Whether it will be an INSERT is decided by a second query.
FindCare(p) ==
    /\ At(p, "find")
    /\ tx' = [tx EXCEPT ![p] = [at |-> "care", loaded |-> care,
                                payload |-> tx[p].payload]]
    /\ UNCHANGED <<rows, history>>
-----------------------------------------------------------------------------
(***************************************************************************)
(* Their commits.                                                          *)
(***************************************************************************)
ParentExists == present

CommitInsert(p) ==
    /\ At(p, "insert")
    /\ IF ParentExists
       THEN /\ variants' = [variants EXCEPT ![tx[p].variant] = tx[p].payload]
            /\ End(p) /\ UNCHANGED <<present, care>>
       ELSE Fail(p)

\* Mutant of Merged: the whole copy is written.
Overwritten(row, loaded, payload) ==
    [c \in DOMAIN row |-> IF payload[c] = Absent THEN loaded[c] ELSE payload[c]]

\* The flush writes the columns the payload has changed in the loaded copy.
Merged(row, loaded, payload) ==
    [c \in DOMAIN row |-> IF payload[c] \in {Absent, loaded[c]} THEN row[c]
                          ELSE payload[c]]

Changed(loaded, payload) ==
    \E c \in DOMAIN loaded : payload[c] \notin {Absent, loaded[c]}

CommitEdit(p) ==
    LET r == tx[p]
        v == r.variant
    IN  /\ At(p, "update")
        /\ \/ /\ HasRow(v)
              /\ variants' = [variants EXCEPT ![v] = Merged(@, r.loaded, r.payload)]
              /\ End(p) /\ UNCHANGED <<present, care>>
           \/ /\ ~HasRow(v) /\ Changed(r.loaded, r.payload)
              /\ Fail(p)
           \/ /\ ~HasRow(v) /\ ~Changed(r.loaded, r.payload)
              /\ End(p) /\ UNCHANGED rows

\* A DELETE statement: it may find nothing.
CommitRemove(p) ==
    /\ At(p, "delete")
    /\ variants' = [variants EXCEPT ![tx[p].variant] = Deleted]
    /\ End(p) /\ UNCHANGED <<present, care>>

FreshCare(payload) ==
    [payload EXCEPT !.ph_min = IF @ = Absent THEN None ELSE @]

\* The foreign key and the unique index on care_parameters.shrimp_id.

Insertable == ParentExists /\ care = None

CommitFirstCare(p) ==
    LET r == tx[p]
    IN  /\ At(p, "care") /\ r.loaded = None
        /\ IF Insertable
           THEN /\ care' = FreshCare(r.payload)
                /\ End(p) /\ UNCHANGED <<present, variants>>
           ELSE Fail(p)

CommitCare(p) ==
    LET r == tx[p]
    IN  /\ At(p, "care") /\ r.loaded # None
        /\ \/ /\ care # None
              /\ care' = Merged(care, r.loaded, r.payload)
              /\ End(p) /\ UNCHANGED <<present, variants>>
           \/ /\ care = None /\ Changed(r.loaded, r.payload)
              /\ Fail(p)
           \/ /\ care = None /\ ~Changed(r.loaded, r.payload)
              /\ End(p) /\ UNCHANGED rows

Crash(p) == tx[p] # Idle /\ End(p) /\ UNCHANGED rows
-----------------------------------------------------------------------------
(***************************************************************************)
(* What goes on meanwhile: orders reserve and release stock, and the entry *)
(* is deleted, its rows with it.                                           *)
(***************************************************************************)
Sell(v) ==
    /\ HasRow(v) /\ variants[v].stock_quantity > 0
    /\ variants' = [variants EXCEPT ![v].stock_quantity = @ - 1]
    /\ UNCHANGED <<present, care, tx, history>>

Release(v) ==
    /\ HasRow(v) /\ variants[v].stock_quantity < MaxStock
    /\ variants' = [variants EXCEPT ![v].stock_quantity = @ + 1]
    /\ UNCHANGED <<present, care, tx, history>>

DeleteShrimp ==
    /\ present
    /\ present' = FALSE
    /\ variants' = [v \in Variants |-> IF HasRow(v) THEN Deleted ELSE variants[v]]
    /\ care' = None
    /\ alone' = {}
    /\ UNCHANGED <<tx, failed>>

Step(p) == \/ AddVariant(p) \/ EditVariant(p) \/ RemoveVariant(p)
           \/ UpsertCare(p) \/ FindCare(p)
           \/ CommitInsert(p) \/ CommitEdit(p) \/ CommitRemove(p)
           \/ CommitFirstCare(p) \/ CommitCare(p)
           \/ Crash(p)

Next == \/ \E p \in Procs : Step(p)
        \/ \E v \in Variants : Sell(v) \/ Release(v)
        \/ DeleteShrimp

Spec == Init /\ [][Next]_vars
-----------------------------------------------------------------------------
(***************************************************************************)
(* Properties.                                                             *)
(***************************************************************************)
\* An owner's edit that was loaded before a sale and says nothing of the stock
\* does not undo it: the stock changes with an order, or in the commit of an
\* edit that names it.
SalesSurviveEdits ==
    [][\A v \in Variants : HasRow(v) /\ variants'[v] \notin NoRow =>
         \/ variants'[v].stock_quantity = variants[v].stock_quantity
         \/ tx' = tx
         \/ \E p \in Procs : /\ At(p, "update") /\ tx'[p] = Idle
                             /\ tx[p].variant = v
                             /\ tx[p].payload.stock_quantity # Absent]_vars

\* What is left of an entry that is deleted while parts are added to it: nothing.
PartsNeedShrimp ==
    (\E v \in Variants : HasRow(v)) \/ care # None => present

\* A request that neither another request nor the entry's deletion overlaps
\* succeeds; orders do not matter to it.
OnlyRacesFail == ~failed

\* A limit that was entered stays entered: later requests change it, and a
\* field they leave out keeps its value, also when they overlap.
LimitsAreKept ==
    [][care # None /\ care' # None /\ care.ph_min # None => care'.ph_min # None]_vars
-----------------------------------------------------------------------------
(***************************************************************************)
(* The inductive invariant behind these (CatalogSideProofs).               *)
(***************************************************************************)
\* Nobody else knows of a variant that is being added, and a row does not become
\* one that is not there yet.
InsertsAreFresh ==
    \A p \in Procs :
        /\ At(p, "insert") =>
              /\ variants[tx[p].variant] = None
              /\ \A q \in Procs \ {p} : At(q, "insert") => tx[q].variant # tx[p].variant
        /\ At(p, "update") \/ At(p, "delete") => variants[tx[p].variant] # None

\* What a request alone has loaded is still there.
LoneCopies ==
    \A p \in alone :
        LET r == tx[p]
        IN  /\ r # Idle /\ \A q \in Procs \ {p} : tx[q] = Idle
            /\ r.at \in {"insert", "find", "care"} => present
            /\ r.at = "update" => HasRow(r.variant)
            /\ r.at = "care" => r.loaded = care

IndInv == TypeOK /\ PartsNeedShrimp /\ OnlyRacesFail /\ InsertsAreFresh /\ LoneCopies
=============================================================================
