---------------------------- MODULE ShrimpImages ----------------------------
(***************************************************************************)
(* The images of one shrimp: rows in PostgreSQL (owner_service.py,         *)
(* shrimp_service.py) and objects in Cloudflare R2 (upload.py).            *)
(*                                                                         *)
(* A request loads what it needs, may call R2, and commits: the rows it    *)
(* decides by are those it loaded, and R2 takes no part in the             *)
(* transaction.  What the ORM writes is what the request changed in its    *)
(* own copy.  Texts, URLs and the stored is_primary (replies recompute it  *)
(* from the order) are left out.                                           *)
(***************************************************************************)
EXTENDS Naturals, FiniteSets

CONSTANTS
    MaxImages,  \* MAX_SHRIMP_IMAGES
    MaxSlot,    \* bound on the sort_order a client asks for
    Ids,        \* image rows, in the order of created_at: 1..n, each used once
    Keys,       \* objects (r2_key)
    Procs       \* owner requests in flight

\* Assumed by the module that gives the constants their values.
ImagesAssumption ==
    /\ MaxImages \in Nat \ {0}
    /\ MaxSlot \in Nat
    /\ Ids \subseteq Nat
    /\ IsFiniteSet(Procs) /\ Procs # {}

VARIABLES
    shrimp,  \* catalog_status, or "deleted"
    images,  \* shrimp_images
    object,  \* the bucket
    tx       \* the request each process handles

vars == <<shrimp, images, object, tx>>
-----------------------------------------------------------------------------
Slots == 0..(IF MaxSlot < MaxImages THEN MaxImages - 1 ELSE MaxSlot)
Row == [state : {"unused"}]
         \cup [state : {"shown"}, key : Keys, slot : Slots]
         \cup [state : {"removed"}, key : Keys]
Unused == [state |-> "unused"]

Removed(i) == [state |-> "removed", key |-> images[i].key]

Shown == {i \in Ids : images[i].state = "shown"}

Idle == [op |-> "idle"]
Requests ==
    [op : {"add"}, key : Keys, slot : Slots, at : {"commit"}, raced : BOOLEAN,
     moves : UNION {[S -> Slots] : S \in SUBSET Ids}]
    \cup [op : {"edit"}, image : Ids, slot : 0..MaxSlot, changed : BOOLEAN,
          at : {"commit"}]
    \cup [op : {"remove"}, image : Ids, key : Keys, at : {"storage", "commit"}]
    \cup [op : {"delete"}, keys : SUBSET Keys, at : {"storage", "commit"},
          raced : BOOLEAN]
    \cup [op : {"status"}, to : {"active", "inactive"}, changed : BOOLEAN,
          at : {"commit"}]

TypeOK ==
    /\ shrimp \in {"active", "inactive", "deleted"}
    /\ images \in [Ids -> Row]
    /\ object \in [Keys -> {"none", "signed", "stored", "gone"}]
    /\ tx \in [Procs -> Requests \cup {Idle}]

Init ==
    /\ shrimp \in {"active", "inactive"}
    /\ images = [i \in Ids |-> Unused]
    /\ object = [k \in Keys |-> "none"]
    /\ tx = [p \in Procs |-> Idle]

Active == {p \in Procs : tx[p] # Idle}

\* The other adds and deletes in flight learn that they are not alone.
Begin(p, r) ==
    tx' = [q \in Procs |->
             IF q = p THEN r
             ELSE IF tx[q] # Idle /\ tx[q].op \in {"add", "delete"}
                  THEN [tx[q] EXCEPT !.raced = TRUE] ELSE tx[q]]

End(p) == tx' = [tx EXCEPT ![p] = Idle]
-----------------------------------------------------------------------------
(***************************************************************************)
(* Uploading: a presigned URL, the client's PUT, and the POST of the row.  *)
(***************************************************************************)
Presign(k) ==
    /\ object[k] = "none"
    /\ shrimp # "deleted" /\ Cardinality(Shown) < MaxImages
    /\ object' = [object EXCEPT ![k] = "signed"]
    /\ UNCHANGED <<shrimp, images, tx>>

PutObject(k) ==
    /\ object[k] = "signed"
    /\ object' = [object EXCEPT ![k] = "stored"]
    /\ UNCHANGED <<shrimp, images, tx>>

\* Mutant of Full: the limit is checked one image too late.
FullLater(S) == Cardinality(S) > MaxImages

Full(S) == Cardinality(S) >= MaxImages

Requested(slot) == IF slot < MaxImages - 1 THEN slot ELSE MaxImages - 1

\* The order in which images are shown.
Before(i, j) == \/ images[i].slot < images[j].slot
                \/ images[i].slot = images[j].slot /\ i < j
Rank(i) == Cardinality({j \in Shown : Before(j, i)})

\* Mutant of Renumbered: the images close up and leave no room for the new one.
ClosedUp(i, slot) == Rank(i)

\* Mutant of Renumbered: they are numbered from 1.
FromOne(i, slot) == IF Rank(i) + 1 < slot THEN Rank(i) + 1 ELSE Rank(i) + 2

\* The loaded images are numbered from 0, leaving out the slot of the new one.
Renumbered(i, slot) == IF Rank(i) < slot THEN Rank(i) ELSE Rank(i) + 1

BeginAdd(p) ==
    \E k \in Keys, asked \in 0..MaxSlot :
        LET slot == Requested(asked)
            moved == {i \in Shown : Renumbered(i, slot) # images[i].slot}
        IN  /\ tx[p] = Idle
            /\ object[k] \in {"stored", "gone"}
            /\ shrimp # "deleted" /\ ~Full(Shown)
            /\ Begin(p, [op |-> "add", key |-> k, slot |-> slot,
                         moves |-> [i \in moved |-> Renumbered(i, slot)],
                         at |-> "commit", raced |-> Active # {}])
            /\ UNCHANGED <<shrimp, images, object>>

ParentExists == shrimp # "deleted"

Fail(p) == End(p) /\ UNCHANGED <<shrimp, images, object>>

Change(moves) == [i \in Ids |-> IF i \in DOMAIN moves
                                THEN [images[i] EXCEPT !.slot = moves[i]]
                                ELSE images[i]]

\* The row a new image gets.
IsNext(i) == images[i] = Unused /\ \A j \in Ids : images[j] = Unused => i <= j

\* The UPDATE of an image that was removed meanwhile raises StaleDataError,
\* the INSERT for a shrimp that was deleted violates the foreign key.
CommitAdd(p) ==
    LET r == tx[p]
    IN  /\ r # Idle /\ r.op = "add"
        /\ IF DOMAIN r.moves \subseteq Shown /\ ParentExists
           THEN /\ \E new \in Ids :
                     /\ IsNext(new)
                     /\ images' = [Change(r.moves) EXCEPT
                                     ![new] = [state |-> "shown", key |-> r.key,
                                               slot |-> r.slot]]
                /\ End(p)
                /\ UNCHANGED <<shrimp, object>>
           ELSE Fail(p)
-----------------------------------------------------------------------------
BeginEdit(p) ==
    \E i \in Shown, slot \in 0..MaxSlot :
        /\ tx[p] = Idle
        /\ Begin(p, [op |-> "edit", image |-> i, slot |-> slot,
                     changed |-> slot # images[i].slot, at |-> "commit"])
        /\ UNCHANGED <<shrimp, images, object>>

CommitEdit(p) ==
    LET r == tx[p]
    IN  /\ r # Idle /\ r.op = "edit"
        /\ IF ~r.changed \/ r.image \in Shown
           THEN /\ images' = IF r.changed THEN Change([i \in {r.image} |-> r.slot]) ELSE images
                /\ End(p)
                /\ UNCHANGED <<shrimp, object>>
           ELSE Fail(p)
-----------------------------------------------------------------------------
(***************************************************************************)
(* Removing.  R2 is asked first, then the row goes.                        *)
(***************************************************************************)
\* Mutant of FirstStep: the row goes and R2 is not asked.
RowFirst == "commit"

FirstStep == "storage"

BeginRemove(p) ==
    \E i \in Shown :
        /\ tx[p] = Idle
        /\ Begin(p, [op |-> "remove", image |-> i, key |-> images[i].key,
                     at |-> FirstStep])
        /\ UNCHANGED <<shrimp, images, object>>

\* Mutant of Deletable: a shrimp on sale can be deleted.
DeletableAlways == shrimp # "deleted"

Deletable == shrimp = "inactive"

BeginDelete(p) ==
    /\ tx[p] = Idle
    /\ Deletable
    /\ Begin(p, [op |-> "delete", keys |-> {images[i].key : i \in Shown},
                 at |-> FirstStep, raced |-> Active # {}])
    /\ UNCHANGED <<shrimp, images, object>>

\* delete_object raises when R2 fails; delete_objects with Quiet returns the
\* keys it could not delete in an answer nobody reads.
DeleteObjects(p) ==
    LET r == tx[p]
    IN  /\ r # Idle /\ r.at = "storage"
        /\ \E gone \in IF r.op = "remove" THEN {{r.key}} ELSE SUBSET r.keys :
             object' = [k \in Keys |-> IF k \in gone THEN "gone" ELSE object[k]]
        /\ tx' = [tx EXCEPT ![p].at = "commit"]
        /\ UNCHANGED <<shrimp, images>>

\* R2's failure ends the request; the row stays.
StorageFails(p) ==
    /\ tx[p] # Idle /\ tx[p].at = "storage"
    /\ Fail(p)

CommitRemove(p) ==
    LET r == tx[p]
    IN  /\ r # Idle /\ r.op = "remove" /\ r.at = "commit"
        /\ images' = [images EXCEPT ![r.image] = Removed(r.image)]
        /\ End(p)
        /\ UNCHANGED <<shrimp, object>>

\* The images go with the shrimp (ON DELETE CASCADE).
CommitDelete(p) ==
    /\ tx[p] # Idle /\ tx[p].op = "delete" /\ tx[p].at = "commit"
    /\ shrimp' = "deleted"
    /\ images' = [i \in Ids |-> IF i \in Shown THEN Removed(i) ELSE images[i]]
    /\ End(p)
    /\ UNCHANGED object
-----------------------------------------------------------------------------
BeginStatus(p) ==
    \E status \in {"active", "inactive"} :
        /\ tx[p] = Idle
        /\ shrimp # "deleted"
        /\ Begin(p, [op |-> "status", to |-> status,
                     changed |-> shrimp # status, at |-> "commit"])
        /\ UNCHANGED <<shrimp, images, object>>

CommitStatus(p) ==
    LET r == tx[p]
    IN  /\ r # Idle /\ r.op = "status"
        /\ IF shrimp # "deleted"
           THEN /\ shrimp' = IF r.changed THEN r.to ELSE shrimp
                /\ End(p)
                /\ UNCHANGED <<images, object>>
           ELSE Fail(p)

\* The process dies or loses its database: nothing of the request remains but
\* what R2 has already done.
Crash(p) ==
    /\ tx[p] # Idle
    /\ End(p)
    /\ UNCHANGED <<shrimp, images, object>>

Step(p) == \/ BeginAdd(p) \/ CommitAdd(p)
           \/ BeginEdit(p) \/ CommitEdit(p)
           \/ BeginRemove(p) \/ BeginDelete(p)
           \/ DeleteObjects(p) \/ StorageFails(p)
           \/ CommitRemove(p) \/ CommitDelete(p)
           \/ BeginStatus(p) \/ CommitStatus(p)
           \/ Crash(p)

Next == \/ \E k \in Keys : Presign(k) \/ PutObject(k)
        \/ \E p \in Procs : Step(p)

Spec == Init /\ [][Next]_vars
-----------------------------------------------------------------------------
(***************************************************************************)
(* Properties.                                                             *)
(***************************************************************************)
\* An object whose images the owner has removed is gone from the bucket, unless
\* it went with the whole shrimp: whatever fails or overlaps, R2 comes first.
RemovedImagesLeaveNoObject ==
    shrimp # "deleted" =>
        \A i \in Ids :
            /\ images[i].state = "removed"
            /\ \A j \in Shown : images[j].key # images[i].key
            => object[images[i].key] = "gone"

\* The limit is decided by what each request loaded: it is overrun by the
\* overlapping uploads, and by no more than those.
OverrunIsBounded == Cardinality(Shown) <= MaxImages + Cardinality(Procs) - 1

\* Images never outlive their shrimp.
ImagesNeedShrimp == shrimp = "deleted" => Shown = {}

\* An image that is added while nothing else happens is shown in the slot that
\* was asked for (or the last), alone, and the others keep their order.
AddTakesItsSlot ==
    [][\A p \in Procs :
         LET r == tx[p]
         IN  r # Idle /\ r.op = "add" /\ ~r.raced /\ Shown' # Shown =>
               /\ \A i, j \in Shown' : i # j => images'[i].slot # images'[j].slot
               /\ \A i, j \in Shown : Before(i, j) <=> Before(i, j)'
               /\ \E i \in Shown' \ Shown : images'[i].slot = r.slot]_vars

\* "Only inactive shrimp can be deleted." (shrimp_service.py:461): a shrimp that
\* is on sale goes only with a deletion that another request has overlapped.
OnlyRacesDeleteActive ==
    [][shrimp = "active" /\ shrimp' = "deleted" =>
         \E p \in Procs : /\ tx[p] # Idle /\ tx'[p] = Idle
                          /\ tx[p].op = "delete" /\ tx[p].raced]_vars
-----------------------------------------------------------------------------
(***************************************************************************)
(* The inductive invariant behind these (CatalogSideProofs).               *)
(***************************************************************************)
Adding == {p \in Procs : tx[p] # Idle /\ tx[p].op = "add"}

\* Every upload in flight has found room, and may have found the same.
RoomIsShared ==
    /\ IsFiniteSet(Shown)
    /\ Cardinality(Shown) + Cardinality(Adding) <= MaxImages + Cardinality(Procs) - 1

\* An image keeps its key, and loses its row after its object.
ObjectsGoFirst ==
    /\ \A p \in Procs : tx[p] # Idle /\ tx[p].op = "remove" =>
          /\ images[tx[p].image].state \in {"shown", "removed"}
          /\ images[tx[p].image].key = tx[p].key
          /\ tx[p].at = "commit" => object[tx[p].key] = "gone"
    /\ shrimp # "deleted" =>
          \A i \in Ids : images[i].state = "removed" => object[images[i].key] = "gone"

\* What an add or a deletion that nobody overlapped has loaded is still so.
LoneCopies ==
    \A p \in Procs :
        LET r == tx[p]
        IN  r # Idle /\ r.op \in {"add", "delete"} /\ ~r.raced =>
              /\ Active = {p}
              /\ r.op = "delete" => Deletable
              /\ r.op = "add" =>
                    r.moves = [i \in {j \in Shown : Renumbered(j, r.slot) # images[j].slot}
                                 |-> Renumbered(i, r.slot)]

IndInv == TypeOK /\ ImagesNeedShrimp /\ RoomIsShared /\ ObjectsGoFirst /\ LoneCopies
=============================================================================
