---------------------------- MODULE ShrimpListing ----------------------------
(***************************************************************************)
(* The catalog as customers read it: apply_shrimp_filters, the pages of    *)
(* list_shrimp, what a list item shows (shrimp_service.py) and the filter  *)
(* options (options_service.py), while the owner changes the entries.      *)
(*                                                                         *)
(* The table is the sequence of entries, newest first, which is the order  *)
(* the list is sorted in.  grade stands for the columns whose filter is    *)
(* split (rarity too), color for those compared with one value as it is    *)
(* (line and the traits too), species for itself.  Search by name, images  *)
(* and descriptions are left out.                                          *)
(***************************************************************************)
EXTENDS Integers, FiniteSets, Sequences, SequencesExt, Lists

CONSTANTS
    Entries,   \* the contents an entry can have: a subset of Entry
    Queries,   \* the filters customers combine: a subset of Query
    Words,     \* words without commas or outer spaces, not empty
    Grades,    \* texts of grades, in the column and in the filter: a subset of Text
    Species,   \* texts of species, not empty
    Like,      \* the species that begin with a text, as ILIKE finds them
    Colors, MaxPrice, MaxStock,
    MaxRows,   \* bounds the table
    Limit,     \* the page size
    None       \* a filter or a column that is not there

VARIABLES
    table,    \* the entries, newest first
    query,    \* the filters of the customer who turns the pages
    offset,   \* how far he has come
    seen,     \* the ids he was shown
    start,    \* the ids in his list when he began (history)
    changed   \* what owners have done since (history)

reader == <<query, offset, seen, start, changed>>
vars == <<table, reader>>
-----------------------------------------------------------------------------
Variant == [price : 0..MaxPrice, stock_quantity : 0..MaxStock, is_active : BOOLEAN]

\* A free text as its commas and spaces cut it: the pieces between the commas, each
\* a word, or None, with or without spaces around it.
Piece == [word : Words \cup {None}, padded : BOOLEAN]
Text == Seq(Piece) \ {<<>>}

\* The text that is one word, and the empty text.
Plain(word) == <<[word |-> word, padded |-> FALSE]>>
Empty == Plain(None)

Entry == [catalog_status : {"active", "inactive"}, species : Species \cup {None},
          grade : Grades \cup {None}, colors : SUBSET Colors, variants : SUBSET Variant]

Query == [species : Species \cup {None}, grade : Grades \cup {None},
          color : Colors \cup {None},
          min_price : (0..MaxPrice) \cup {None}, max_price : (0..MaxPrice) \cup {None},
          in_stock : BOOLEAN \cup {None}]

\* Assumed by the module that gives the constants their values.
ListingAssumption ==
    /\ Entries \subseteq Entry
    /\ Queries \subseteq Query
    /\ MaxPrice \in Nat /\ MaxStock \in Nat /\ MaxRows \in Nat /\ Limit \in Nat \ {0}
    /\ Grades \subseteq Text /\ None \notin Words
    /\ Like \in [Species -> SUBSET Species]
    /\ None \notin Text /\ None \notin Species \cup Colors
    /\ None \notin 0..MaxPrice /\ None \notin BOOLEAN

Ids == 1..MaxRows
-----------------------------------------------------------------------------
(***************************************************************************)
(* apply_shrimp_filters: one variant has to pass all of its filters, and   *)
(* none is looked at when there are no such filters.                       *)
(***************************************************************************)
\* Mutant of VariantPasses: variants that are off sale count too.
AnyVariantPasses(v, q) ==
    /\ q.min_price = None \/ v.price >= q.min_price
    /\ q.max_price = None \/ v.price <= q.max_price
    /\ q.in_stock = None \/ (q.in_stock <=> v.stock_quantity > 0)

VariantPasses(v, q) ==
    /\ v.is_active
    /\ q.min_price = None \/ v.price >= q.min_price
    /\ q.max_price = None \/ v.price <= q.max_price
    /\ q.in_stock = None \/ (q.in_stock <=> v.stock_quantity > 0)

FiltersVariants(q) ==
    ~(q.min_price = None /\ q.max_price = None /\ q.in_stock = None)

\* The words between the commas, without the spaces around them.
split_csv_filter(value) ==
    IF value = None THEN {}
    ELSE {Plain(piece.word) : piece \in {p \in ToSet(value) : p.word # None}}

\* The filters of the public list: entries that are not active stay out.
Passes(e, q) ==
    /\ e.catalog_status = "active"
    /\ q.species = None \/ e.species \in Like[q.species]
    /\ LET grades == split_csv_filter(q.grade) IN grades = {} \/ e.grade \in grades
    /\ q.color = None \/ q.color \in e.colors
    /\ FiltersVariants(q) => \E v \in e.variants : VariantPasses(v, q)

Matches(rows, q) == Chosen(rows, {n \in DOMAIN rows : Passes(rows[n].entry, q)})

\* Mutant of Page: OFFSET counts from one.
LatePage(rows, from) ==
    SubSeq(rows, from + 2, Min({from + 1 + Limit, Len(rows)}))

\* LIMIT and OFFSET.
Page(rows, from) ==
    SubSeq(rows, from + 1, Min({from + Limit, Len(rows)}))
-----------------------------------------------------------------------------
(***************************************************************************)
(* to_shrimp_list_item_response: prices and stock of the active variants.  *)
(***************************************************************************)
ActiveVariants(e) == {v \in e.variants : v.is_active}

IsAvailable(e) == \E v \in ActiveVariants(e) : v.stock_quantity > 0

MinPrice(e) == IF ActiveVariants(e) = {} THEN None
               ELSE Min({v.price : v \in ActiveVariants(e)})

\* get_catalog_filter_options: what the entries that pass the filters offer, texts
\* as they are in the column.
FilterOptions(rows, q) ==
    LET passing == {r.entry : r \in ToSet(Matches(rows, q))}
    IN  [species |-> {e.species : e \in passing} \ {None},
         grades |-> {e.grade : e \in passing} \ {None, Empty},
         colors |-> UNION {e.colors : e \in passing},
         availability |-> {IF IsAvailable(e) THEN "in-stock" ELSE "out-of-stock" :
                             e \in passing}]

NoFilters == [species |-> None, grade |-> None, color |-> None, min_price |-> None,
              max_price |-> None, in_stock |-> None]

\* get_catalog_options of the public route: the distinct values of active entries.
CatalogOptions(rows) ==
    LET active == {r \in ToSet(rows) : r.entry.catalog_status = "active"}
    IN  [grades |-> {r.entry.grade : r \in active} \ {None, Empty},
         colors |-> UNION {r.entry.colors : r \in active}]
-----------------------------------------------------------------------------
(***************************************************************************)
(* The owner's changes and the customer who turns the pages.               *)
(***************************************************************************)
Init == /\ table = <<>>
        /\ query \in Queries /\ offset = 0 /\ seen = <<>> /\ start = {} /\ changed = {}

IdsOf(rows) == {r.id : r \in ToSet(rows)}

\* An entry has the time of its flush and is seen once it is committed, so it
\* need not be the first.
Publish ==
    /\ \E i \in Ids \ IdsOf(table), e \in Entries, n \in 1..Len(table) + 1 :
         /\ i \notin start
         /\ table' = InsertAt(table, n, [id |-> i, entry |-> e])
    /\ changed' = changed \cup {"published"}
    /\ UNCHANGED <<query, offset, seen, start>>

Edit ==
    /\ \E n \in 1..Len(table), e \in Entries :
         table' = [table EXCEPT ![n].entry = e]
    /\ changed' = changed \cup {"edited"}
    /\ UNCHANGED <<query, offset, seen, start>>

Withdraw ==
    /\ \E n \in 1..Len(table) :
         /\ table[n].entry.catalog_status = "inactive"
         /\ table' = RemoveAt(table, n)
    /\ changed' = changed \cup {"withdrawn"}
    /\ UNCHANGED <<query, offset, seen, start>>

Search ==
    /\ query' \in Queries
    /\ offset' = 0 /\ seen' = <<>> /\ changed' = {}
    /\ start' = IdsOf(Matches(table, query'))
    /\ UNCHANGED table

NextPage ==
    LET page == Page(Matches(table, query), offset)
    IN  /\ page # <<>>
        /\ seen' = seen \o [n \in 1..Len(page) |-> page[n].id]
        /\ offset' = offset + Limit
        /\ UNCHANGED <<table, query, start, changed>>

Next == Publish \/ Edit \/ Withdraw \/ Search \/ NextPage

Spec == Init /\ [][Next]_vars
-----------------------------------------------------------------------------
(***************************************************************************)
(* Properties.                                                             *)
(***************************************************************************)
TypeOK ==
    /\ table \in Seq([id : Ids, entry : Entries])
    /\ query \in Queries
    /\ offset \in Nat
    /\ seen \in Seq(Ids)
    /\ start \subseteq Ids
    /\ changed \subseteq {"published", "edited", "withdrawn"}

AtEnd == start # {} /\ Page(Matches(table, query), offset) = <<>>

\* Turned page by page while nobody changes the catalog, the list shows every
\* entry that passes the filters once, in its order.
PagesMakeTheList ==
    AtEnd /\ changed = {} =>
        seen = [n \in 1..Len(Matches(table, query)) |-> Matches(table, query)[n].id]

\* Entries published meanwhile push others down to later pages: some are shown
\* twice, but none that was in the list is missed.
PublishingHidesNothing == AtEnd /\ changed \subseteq {"published"} => start \subseteq ToSet(seen)

\* The filters run in SQL and the figures of an item are computed in Python:
\* what is listed as in stock shows as available, and what is listed below a
\* price shows a price below it.
ListAgreesWithItems ==
    \A r \in ToSet(Matches(table, query)) :
        /\ query.in_stock = TRUE => IsAvailable(r.entry)
        /\ query.max_price # None =>
             MinPrice(r.entry) # None /\ MinPrice(r.entry) <= query.max_price

\* A grade is offered as it is in the column and split when it comes back as a
\* filter: what it then asks for is offered too, or it asks for nothing.  A grade
\* of one word asks for itself.
AsksForOffered(grade, grades) ==
    LET asked == split_csv_filter(grade) IN asked = {} \/ asked \cap grades # {}

\* Whatever filters are set, choosing a color that is offered leaves something in
\* the list; so does a grade or a species if what it asks for is offered, and "in
\* stock" when it is offered and no filter on variants is set yet.  (A grade with a
\* comma or outer spaces may ask for others than itself, a species with a backslash
\* for none.)
OfferedFiltersFind ==
    LET offered == FilterOptions(table, query)
    IN  /\ \A g \in offered.grades : AsksForOffered(g, offered.grades) =>
              Matches(table, [query EXCEPT !.grade = g]) # <<>>
        /\ \A s \in offered.species : Like[s] \cap offered.species # {} =>
              Matches(table, [query EXCEPT !.species = s]) # <<>>
        /\ \A c \in offered.colors : Matches(table, [query EXCEPT !.color = c]) # <<>>
        /\ "in-stock" \in offered.availability /\ ~FiltersVariants(query) =>
             Matches(table, [query EXCEPT !.in_stock = TRUE]) # <<>>

\* The options of the catalog as a whole lead to entries too: each color, and just
\* those grades that ask for one that is offered, or for nothing.
CatalogOptionsFind ==
    LET offered == CatalogOptions(table)
    IN  /\ \A g \in offered.grades :
              Matches(table, [NoFilters EXCEPT !.grade = g]) # <<>>
                  <=> AsksForOffered(g, offered.grades)
        /\ \A c \in offered.colors : Matches(table, [NoFilters EXCEPT !.color = c]) # <<>>

(***************************************************************************)
(* The inductive invariant.                                                *)
(***************************************************************************)
Passing == {n \in DOMAIN table : Passes(table[n].entry, query)}

\* What has been shown is the list up to here, while nobody changes it.
ShownInOrder ==
    LET list == Matches(table, query)
    IN  changed = {} => seen = [n \in 1..Min({offset, Len(list)}) |-> list[n].id]

\* While entries are only published, what was in the list is, and has been shown
\* when it stands where the reader has been.
ShownOrAhead ==
    changed \subseteq {"published"} =>
        \A i \in start : \E n \in Passing :
            /\ table[n].id = i
            /\ Rank(Passing, n) < offset => i \in ToSet(seen)

IndInv ==
    /\ TypeOK
    /\ \A m, n \in DOMAIN table : table[m].id = table[n].id => m = n
    /\ ShownInOrder /\ ShownOrAhead
=============================================================================
