---------------------------- MODULE ShrimpCatalog ----------------------------
(***************************************************************************)
(* The owner's entries of the catalog (shrimp_service.py): creation with a *)
(* slug of its own, partial updates, status and deletion.                  *)
(*                                                                         *)
(* A request probes one candidate slug after the other, each in a query of *)
(* its own, and writes at its commit; the unique index on shrimp.slug has  *)
(* the last word.  A slug is a sequence: base <<"red">> has the candidates *)
(* <<"red">>, <<"red", 2>>, <<"red", 3>>..., and <<"red", 2>> may be asked *)
(* for as a base itself.  catalog_status stands for the other columns: all *)
(* of them are written when the request names them and they differ.        *)
(***************************************************************************)
EXTENDS Naturals, FiniteSets, Sequences

CONSTANTS
    Ids,     \* shrimp.id, each used once
    Bases,   \* normalized slugs that owners ask for
    Procs,   \* requests in flight
    None,    \* a row that is not there yet
    Deleted, \* a row that was
    Absent   \* a field the request does not name

VARIABLES
    shrimp,   \* the table
    tx,       \* the request each process handles
    alone,    \* processes whose request no other has overlapped (history)
    failed    \* one of these ended in an internal error (history)

vars == <<shrimp, tx, alone, failed>>
-----------------------------------------------------------------------------
Columns == {"slug", "catalog_status"}
CatalogStatus == {"active", "inactive"}

\* Assumed by the module that gives the constants their values.
CatalogAssumption ==
    /\ Cardinality({None, Deleted, Absent}) = 3
    /\ Absent \notin CatalogStatus
    /\ IsFiniteSet(Ids)
    /\ \A base \in Bases : /\ Len(base) \in Nat
                           /\ base = [i \in 1..Len(base) |-> base[i]]

Suffixes == 1..(Cardinality(Ids) + 1)

Candidate(base, n) == IF n = 1 THEN base ELSE Append(base, n)

IsRow(row) == DOMAIN row = Columns /\ row.catalog_status \in CatalogStatus
NoRow == {None, Deleted}
Present(i) == shrimp[i] \notin NoRow

\* ShrimpUpdate.
Payload == [slug : Bases \cup {Absent},
            catalog_status : CatalogStatus \cup {Absent}]

Idle == [at |-> "idle"]

\* A request: what it asks for, the row it has loaded (none for a creation) and
\* the suffix of the candidate it is at.
Begin(p, r) ==
    /\ tx[p] = Idle
    /\ tx' = [tx EXCEPT ![p] = r]
    /\ alone' = IF \A q \in Procs : tx[q] = Idle THEN {p} ELSE {}
    /\ UNCHANGED failed

Go(p, r) == tx' = [tx EXCEPT ![p] = r] /\ UNCHANGED <<alone, failed>>
Leave(p) == tx' = [tx EXCEPT ![p] = Idle] /\ alone' = alone \ {p}
End(p) == Leave(p) /\ UNCHANGED failed
Fail(p) == Leave(p) /\ failed' = (failed \/ p \in alone) /\ UNCHANGED shrimp

At(p, step) == tx[p].at = step

TypeOK ==
    /\ shrimp = [i \in Ids |-> shrimp[i]]
    /\ \A i \in Ids : Present(i) => IsRow(shrimp[i])
    /\ tx = [p \in Procs |-> tx[p]]
    /\ \A p \in Procs :
          LET r == tx[p]
          IN  /\ r = Idle \/ r.at \in {"create", "update", "write", "delete"}
              /\ r # Idle => r.id \in Ids
              /\ r.at \in {"create", "update", "write"} =>
                    /\ DOMAIN r.payload = Columns
                    /\ r.payload.catalog_status \in CatalogStatus \cup {Absent}
                    /\ r.loaded = None => r.payload.catalog_status # Absent
              /\ r.at \in {"create", "update"} =>
                    /\ r.n \in Nat \ {0} /\ r.payload.slug \in Bases
                    /\ r = [at |-> r.at, id |-> r.id, loaded |-> r.loaded, n |-> r.n,
                            payload |-> r.payload]
    /\ alone \subseteq Procs /\ failed \in BOOLEAN

Init == /\ shrimp = [i \in Ids |-> None]
        /\ tx = [p \in Procs |-> Idle]
        /\ alone = {} /\ failed = FALSE
-----------------------------------------------------------------------------
(***************************************************************************)
(* create_unique_shrimp_slug.                                              *)
(***************************************************************************)
\* Mutant of TakenBy: current_shrimp_id is not passed on.
TakenByAny(slug, me) == \E i \in Ids : Present(i) /\ shrimp[i].slug = slug

\* The entry that has the slug is another one than current_shrimp_id.
TakenBy(slug, me) == \E i \in Ids \ {me} : Present(i) /\ shrimp[i].slug = slug

\* One turn of the loop: the next candidate, or the slug is found.
Probe(p) ==
    LET r == tx[p]
        candidate == Candidate(r.payload.slug, r.n)
    IN  /\ r.at \in {"create", "update"}
        /\ Go(p, IF TakenBy(candidate, r.id)
                 THEN [r EXCEPT !.n = r.n + 1]
                 ELSE [at |-> "write", id |-> r.id, loaded |-> r.loaded,
                       base |-> r.payload.slug,
                       payload |-> [r.payload EXCEPT !.slug = candidate]])
        /\ UNCHANGED shrimp
-----------------------------------------------------------------------------
(***************************************************************************)
(* The requests.  A creation is an update of a row without columns.        *)
(***************************************************************************)
CreateShrimp(p) ==
    /\ \E i \in Ids, base \in Bases, status \in CatalogStatus :
         /\ shrimp[i] = None
         /\ \A q \in Procs : ~At(q, "idle") => tx[q].id # i
         /\ Begin(p, [at |-> "create", id |-> i, loaded |-> None, n |-> 1,
                      payload |-> [slug |-> base, catalog_status |-> status]])
    /\ UNCHANGED shrimp

UpdateShrimp(p) ==
    /\ \E i \in Ids, payload \in Payload :
         /\ Present(i)
         /\ Begin(p, IF payload.slug = Absent
                     THEN [at |-> "write", id |-> i, loaded |-> shrimp[i],
                           base |-> Absent, payload |-> payload]
                     ELSE [at |-> "update", id |-> i, loaded |-> shrimp[i],
                           n |-> 1, payload |-> payload])
    /\ UNCHANGED shrimp

\* PATCH .../activate and .../deactivate.
SetStatus(p) ==
    /\ \E i \in Ids, status \in CatalogStatus :
         /\ Present(i)
         /\ Begin(p, [at |-> "write", id |-> i, loaded |-> shrimp[i], base |-> Absent,
                      payload |-> [c \in Columns |->
                                     IF c = "catalog_status" THEN status ELSE Absent]])
    /\ UNCHANGED shrimp

DeleteShrimp(p) ==
    /\ \E i \in Ids : /\ Present(i) /\ shrimp[i].catalog_status = "inactive"
                      /\ Begin(p, [at |-> "delete", id |-> i])
    /\ UNCHANGED shrimp

\* The flush writes the columns that the request has changed in its copy.
Written(r) == {c \in Columns : /\ r.payload[c] # Absent
                               /\ r.payload[c] # r.loaded[c]}

\* What the request's copy holds in a column.
Copy(r, c) == IF r.payload[c] = Absent THEN r.loaded[c] ELSE r.payload[c]

\* The unique index on shrimp.slug.
ClashesWith(slug, me) == \E i \in Ids \ {me} : Present(i) /\ shrimp[i].slug = slug

CommitCreate(p) ==
    LET r == tx[p]
    IN  /\ At(p, "write") /\ r.loaded = None
        /\ IF ClashesWith(r.payload.slug, r.id)
           THEN Fail(p)
           ELSE /\ shrimp' = [shrimp EXCEPT ![r.id] = r.payload]
                /\ End(p)

\* The row of an UPDATE is gone, or its new slug is another's.
Rejected(r) ==
    \/ ~Present(r.id)
    \/ "slug" \in Written(r) /\ ClashesWith(Copy(r, "slug"), r.id)

CommitUpdate(p) ==
    LET r == tx[p]
    IN  /\ At(p, "write") /\ r.loaded # None
        /\ \/ /\ Written(r) = {}
              /\ End(p) /\ UNCHANGED shrimp
           \/ /\ Written(r) # {} /\ Rejected(r)
              /\ Fail(p)
           \/ /\ Written(r) # {} /\ ~Rejected(r)
              /\ shrimp' = [shrimp EXCEPT ![r.id] =
                   [c \in Columns |-> IF c \in Written(r) THEN Copy(r, c)
                                      ELSE shrimp[r.id][c]]]
              /\ End(p)

CommitDelete(p) ==
    /\ At(p, "delete")
    /\ shrimp' = [shrimp EXCEPT ![tx[p].id] = Deleted]
    /\ End(p)

Crash(p) == tx[p] # Idle /\ End(p) /\ UNCHANGED shrimp

Step(p) == \/ CreateShrimp(p) \/ UpdateShrimp(p) \/ SetStatus(p) \/ DeleteShrimp(p)
           \/ Probe(p)
           \/ CommitCreate(p) \/ CommitUpdate(p) \/ CommitDelete(p)
           \/ Crash(p)

Next == \E p \in Procs : Step(p)

Spec == Init /\ [][Next]_vars
-----------------------------------------------------------------------------
(***************************************************************************)
(* Properties.                                                             *)
(***************************************************************************)
\* Two entries never share a slug, whichever probes went stale in between.
SlugsAreUnique ==
    \A i, j \in Ids : Present(i) /\ Present(j) /\ shrimp[i].slug = shrimp[j].slug
                        => i = j

\* A request that no other overlaps succeeds, whatever slugs are taken.
OnlyRacesFail == ~failed

FirstFree(base, me) ==
    LET others == {shrimp[i].slug : i \in {j \in Ids \ {me} : Present(j)}}
        free == {n \in Suffixes : Candidate(base, n) \notin others}
    IN  Candidate(base, CHOOSE n \in free : \A k \in free : n <= k)

\* A request that no other overlaps gets the first candidate that no other
\* entry has: an entry saved again with its slug, or with the base it was made
\* from, keeps it.
SlugIsFirstFree ==
    \A p \in alone :
        At(p, "write") /\ tx[p].base # Absent
          => tx[p].payload.slug = FirstFree(tx[p].base, tx[p].id)

\* Two updates of one entry that name different columns both take effect: a
\* column changes only in the commit of a request that named it.
OtherColumnsKept ==
    [][\A i \in Ids : Present(i) /\ shrimp'[i] \notin NoRow =>
         \A c \in Columns : shrimp'[i][c] # shrimp[i][c] =>
            \E p \in Procs : /\ At(p, "write") /\ tx'[p] = Idle
                             /\ tx[p].id = i /\ tx[p].payload[c] # Absent]_vars
-----------------------------------------------------------------------------
(***************************************************************************)
(* The inductive invariant behind these (CatalogSideProofs).               *)
(***************************************************************************)
\* Nobody else knows of an entry that is being created.
CreatesAreFresh ==
    \A p \in Procs :
        tx[p].at \in {"create", "update", "write"} /\ tx[p].loaded = None =>
          /\ shrimp[tx[p].id] = None
          /\ \A q \in Procs \ {p} : tx[q] # Idle => tx[q].id # tx[p].id

\* A request alone finds its entry as it was, and its slug free.
LoneCopies ==
    \A p \in alone :
        LET r == tx[p]
        IN  /\ r # Idle /\ \A q \in Procs \ {p} : tx[q] = Idle
            /\ r.at \in {"create", "update", "write"} /\ r.loaded # None => Present(r.id)
            /\ r.at \in {"create", "update"} =>
                  \A k \in 1..(r.n - 1) : TakenBy(Candidate(r.payload.slug, k), r.id)
            /\ r.at = "write" /\ (r.loaded = None \/ r.payload.slug # Absent) =>
                  ~TakenBy(r.payload.slug, r.id)

IndInv == /\ TypeOK /\ SlugsAreUnique /\ CreatesAreFresh
          /\ LoneCopies /\ OnlyRacesFail /\ SlugIsFirstFree
=============================================================================
