---------------------------- MODULE MCCatalogSide ----------------------------
(***************************************************************************)
(* What owners do to the catalog, for TLC: entries and their slugs, the    *)
(* variants and care parameters of one entry, its images.  In each         *)
(* behaviour one component, chosen at the start, handles requests, and the *)
(* tables of the others stay empty.                                        *)
(***************************************************************************)
EXTENDS Naturals, FiniteSets, Sequences, TLC

CONSTANTS
    None, Deleted, Absent,
    Procs,
    Ids, Bases,                          \* ShrimpCatalog
    Variants, Prices, Limits, MaxStock,  \* ShrimpParts
    Keys, MaxImages, MaxSlot, LastImage  \* ShrimpImages

VARIABLES
    component,
    entries, catalogTx, catalogAlone, catalogFailed,
    present, variants, care, partsTx, partsAlone, partsFailed,
    shrimp, images, object, imagesTx

CatalogVars == <<entries, catalogTx, catalogAlone, catalogFailed>>
PartsVars == <<present, variants, care, partsTx, partsAlone, partsFailed>>
ImagesVars == <<shrimp, images, object, imagesTx>>

Catalog == INSTANCE ShrimpCatalog WITH
    shrimp <- entries, tx <- catalogTx,
    alone <- catalogAlone, failed <- catalogFailed
Parts == INSTANCE ShrimpParts WITH
    tx <- partsTx, alone <- partsAlone, failed <- partsFailed
Images == INSTANCE ShrimpImages WITH
    Ids <- 1..LastImage, tx <- imagesTx

ASSUME CatalogAssumption == Catalog!CatalogAssumption
ASSUME PartsAssumption == Parts!PartsAssumption
ASSUME ImagesAssumption == Images!ImagesAssumption /\ LastImage \in Nat

\* A value of Bases: two slugs of which one is the second candidate of the other.
RedAndRed2 == {<<"red">>, <<"red", 2>>}

Init ==
    /\ component \in {"catalog", "parts", "images"}
    /\ Catalog!Init /\ Parts!Init /\ Images!Init
    /\ component # "images" => shrimp = "active"

CatalogStep == /\ component = "catalog" /\ Catalog!Next
               /\ UNCHANGED <<component, PartsVars, ImagesVars>>

PartsStep == /\ component = "parts" /\ Parts!Next
             /\ UNCHANGED <<component, CatalogVars, ImagesVars>>

ImagesStep == /\ component = "images" /\ Images!Next
              /\ UNCHANGED <<component, CatalogVars, PartsVars>>

Next == CatalogStep \/ PartsStep \/ ImagesStep

vars == <<component, CatalogVars, PartsVars, ImagesVars>>

Spec == Init /\ [][Next]_vars

\* Keys may be Prices, Limits and a part of Ids too: a component uses what it
\* needs of them.
Symmetry == Permutations(Variants) \cup Permutations(Keys) \cup Permutations(Procs)

\* Bound of the run: requests on entries or images overlap only while a row is
\* left unused, and on entries only where everything is called red; one request
\* at a time also meets the last rows, and red-2 as a name.
Asked(r) == IF r.at \in {"create", "update"} THEN r.payload.slug
            ELSE IF r.at = "write" THEN r.base ELSE Absent
OverlapBound ==
    /\ Cardinality({p \in Procs : catalogTx[p] # Catalog!Idle}) > 1 =>
          /\ \E i \in Ids : entries[i] = None
          /\ \A p \in Procs : Asked(catalogTx[p]) # <<"red", 2>>
          /\ \A i \in Ids : Catalog!Present(i) => Len(entries[i].slug) <= 2
    /\ Cardinality(Images!Active) > 1 =>
          \E i \in 1..LastImage : images[i] = Images!Unused
-----------------------------------------------------------------------------
(***************************************************************************)
(* Properties.                                                             *)
(***************************************************************************)
\* The tables hold what their columns may; no two entries share a slug; an
\* entry that is deleted leaves no variants, care parameters or images; and what
\* the requests in flight rely on is still so.
TablesAreConsistent ==
    /\ component = "catalog" => Catalog!IndInv
    /\ component = "parts" => Parts!IndInv
    /\ component = "images" => Images!IndInv

\* A request without others in its way does not fail, whatever slugs and parts
\* are there, and its entry gets the first slug that is free
\* (create_unique_shrimp_slug, upsert_shrimp_care_parameter).
RequestsAloneSucceed ==
    Catalog!OnlyRacesFail /\ Parts!OnlyRacesFail /\ Catalog!SlugIsFirstFree

\* A shrimp on sale is deleted only by a request that another one overlaps
\* (delete_inactive_shrimp_catalog_item).
OnlyRacesDeleteActive == Images!OnlyRacesDeleteActive

\* An edit leaves alone what it does not name, whatever committed since it was
\* loaded: other owners' columns, limits, and the stock that orders took.
EditsUndoNothing ==
    Catalog!OtherColumnsKept /\ Parts!SalesSurviveEdits /\ Parts!LimitsAreKept

\* An image that is removed leaves no object in R2 (remove_shrimp_image).
RemovedImagesLeaveNoObject == Images!RemovedImagesLeaveNoObject

\* The image limit is overrun by uploads that overlap, and by no more than those
\* (add_shrimp_image).
OverrunIsBounded == Images!OverrunIsBounded

\* An image added by itself takes its slot and the others keep their order.
AddTakesItsSlot == Images!AddTakesItsSlot
=============================================================================
