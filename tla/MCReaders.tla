------------------------------ MODULE MCReaders ------------------------------
(***************************************************************************)
(* What is read while it changes, for TLC: the catalog with its filters    *)
(* and pages, the pages of orders, the notifications of the staff and the  *)
(* dashboard.  The catalog has two instances: all filters over few         *)
(* entries, and pages of one over more.  In each behaviour one component,  *)
(* chosen at the start, runs; the data of the others stay as they begin.   *)
(***************************************************************************)
EXTENDS Integers, FiniteSets, Sequences

CONSTANTS
    None,
    Words, Grades, Species, Like, Colors,            \* ShrimpListing
    MaxPrice, MaxStock,
    Entries, Queries, MaxRows, Limit,                \* with all filters
    PagedEntries, PagedQueries, PagedRows,           \* and page by page
    PageSize,                                        \* the pages of one, and of the others
    Orders, Statuses, MaxLeft,                       \* OrderPages
    Sales, Pages, RoleOf, MaxTries,                  \* Notifications
    LastDay, DayLength, Days, MaxLedger              \* RevenueAnalytics

VARIABLES
    component,
    table, query, offset, seen, start, changed,
    pagedTable, pagedQuery, pagedOffset, pagedSeen, pagedStart, pagedChanged,
    made, status, filter, ordersOffset, next, rows, total, ordersSeen, ordersStart, left,
    handler, notes, read, loaded, page, published,
    now, ledger, request

FiltersVars == <<table, query, offset, seen, start, changed>>
PagesVars == <<pagedTable, pagedQuery, pagedOffset, pagedSeen, pagedStart, pagedChanged>>
OrdersVars == <<made, status, filter, ordersOffset, next, rows, total, ordersSeen,
                ordersStart, left>>
NotificationsVars == <<handler, notes, read, loaded, page, published>>
DashboardVars == <<now, ledger, request>>
-----------------------------------------------------------------------------
(***************************************************************************)
(* The values of constants that a configuration file cannot hold.          *)
(***************************************************************************)
V(price, stock, active) ==
    [price |-> price, stock_quantity |-> stock, is_active |-> active]

\* Grades as texts: "S", "SS", "S, SS" and "SS " (see Text in ShrimpListing).
Cut(word, padded) == [word |-> word, padded |-> padded]
Grade == <<Cut("S", FALSE)>>
FineGrade == <<Cut("SS", FALSE)>>
BothGrades == <<Cut("S", FALSE), Cut("SS", TRUE)>>
PaddedGrade == <<Cut("SS", TRUE)>>
FewGrades == {Grade, FineGrade, BothGrades, PaddedGrade}

\* "Caridina%" finds both, "Caridina sp.%" one.
BeginsWith == [s \in Species |-> IF s = "Caridina" THEN Species ELSE {s}]

E(status_, species, grade, colors, variants) ==
    [catalog_status |-> status_, species |-> species, grade |-> grade,
     colors |-> colors, variants |-> variants]

TwoEntries ==
    { E("active", "Caridina", Grade, {"red"}, {V(1, 1, TRUE)}),
      E("inactive", None, FineGrade, {"blue"}, {V(2, 1, TRUE)}) }

\* One entry of each sort: on sale, sold out in one variant, its stock in a
\* variant that is off sale, without variants, not active.
SomeEntries ==
    TwoEntries \cup
    { E("active", "Caridina sp.", PaddedGrade, {"red", "blue"}, {V(1, 0, TRUE), V(2, 1, TRUE)}),
      E("active", "Caridina", None, {"blue"}, {V(1, 0, TRUE), V(2, 1, FALSE)}),
      E("active", None, BothGrades, {}, {}) }

FewQueries ==
    [species : {None}, grade : {None, Grade}, color : {None}, min_price : {None},
     max_price : {None}, in_stock : {None}]

\* Every combination of the filters on variants, with one of the others or none.
SomeQueries ==
    {q \in [species : {"Caridina", None}, grade : {None, Grade, BothGrades},
            color : {"red", None}, min_price : {2, None}, max_price : {1, None},
            in_stock : {TRUE, FALSE, None}] :
        Cardinality({f \in {"species", "grade", "color"} : q[f] # None}) <= 1}

EveryoneIsOwner == [p \in Pages |-> "owner"]

\* The clocks change twice.
Changing == [d \in 0..LastDay |-> IF d = 1 THEN 3 ELSE IF d = 3 THEN 1 ELSE 2]
-----------------------------------------------------------------------------
Filters == INSTANCE ShrimpListing
Paged == INSTANCE ShrimpListing WITH
    Entries <- PagedEntries, Queries <- PagedQueries, MaxRows <- PagedRows,
    Limit <- PageSize, table <- pagedTable, query <- pagedQuery, offset <- pagedOffset,
    seen <- pagedSeen, start <- pagedStart, changed <- pagedChanged
OrderList == INSTANCE OrderPages WITH
    Limit <- PageSize, offset <- ordersOffset, seen <- ordersSeen, start <- ordersStart
Notifications == INSTANCE Notifications
Dashboard == INSTANCE RevenueAnalytics

ASSUME FiltersAssumption == Filters!ListingAssumption
ASSUME PagedAssumption == Paged!ListingAssumption
ASSUME OrderListAssumption == OrderList!PagesAssumption
ASSUME StaffAssumption == Notifications!NotificationsAssumption
ASSUME DashboardAssumption == Dashboard!AnalyticsAssumption

Init ==
    /\ component \in {"filters", "pages", "orders", "notifications", "dashboard"}
    /\ Filters!Init /\ Paged!Init /\ OrderList!Init /\ Notifications!Init /\ Dashboard!Init
    /\ component # "filters" => query = Filters!NoFilters
    /\ component # "pages" => pagedQuery = Paged!NoFilters

FiltersStep ==
    /\ component = "filters" /\ Filters!Next
    /\ UNCHANGED <<component, PagesVars, OrdersVars, NotificationsVars, DashboardVars>>

PagesStep ==
    /\ component = "pages" /\ Paged!Next
    /\ UNCHANGED <<component, FiltersVars, OrdersVars, NotificationsVars, DashboardVars>>

OrdersStep ==
    /\ component = "orders" /\ OrderList!Next
    /\ UNCHANGED <<component, FiltersVars, PagesVars, NotificationsVars, DashboardVars>>

NotificationsStep ==
    /\ component = "notifications" /\ Notifications!Next
    /\ UNCHANGED <<component, FiltersVars, PagesVars, OrdersVars, DashboardVars>>

DashboardStep ==
    /\ component = "dashboard" /\ Dashboard!Next
    /\ UNCHANGED <<component, FiltersVars, PagesVars, OrdersVars, NotificationsVars>>

Next == FiltersStep \/ PagesStep \/ OrdersStep \/ NotificationsStep \/ DashboardStep

vars == <<component, FiltersVars, PagesVars, OrdersVars, NotificationsVars, DashboardVars>>

Spec == Init /\ [][Next]_vars
-----------------------------------------------------------------------------
(***************************************************************************)
(* Properties.                                                             *)
(***************************************************************************)
\* The types of every component, and what its requests in flight rely on: the
\* inductive invariants of the proofs.  An order lost between two pages is paid for
\* by one that left; what was shown is in order; a note is published before it is
\* committed and a page that listens has it; a cursor stands where its reading does.
TypesOK ==
    /\ component = "filters" => Filters!TypeOK
    /\ component = "pages" => Paged!IndInv
    /\ component = "orders" => OrderList!IndInv
    /\ component = "notifications" => Notifications!IndInv
    /\ component = "dashboard" => Dashboard!IndInv

\* Whatever filters are set, the list agrees with the figures of its items, and a
\* filter that is offered leads to entries: a color always, a grade or a species if what
\* it asks for once it comes back is offered (apply_shrimp_filters, split_csv_filter,
\* to_shrimp_list_item_response, get_catalog_filter_options, get_catalog_options).
FiltersAgree ==
    component = "filters" =>
        Filters!ListAgreesWithItems /\ Filters!OfferedFiltersFind /\ Filters!CatalogOptionsFind

\* Page by page the list shows what it holds, and publishing hides none of it
\* (list_shrimp_catalog_items).
PagesShowTheList == Paged!PagesMakeTheList /\ Paged!PublishingHidesNothing

\* The pages of orders miss no more than what leaves the list, and the total
\* covers the rows (list_customer_orders, list_owner_orders).
OrdersAreShown == OrderList!NothingSkipped /\ OrderList!TotalCoversRows

\* A page that listens knows of each unread note of its role, but for those that were
\* published before it came and committed after it listed (owner_notifications.py,
\* realtime.py).
NothingMissed == Notifications!NothingMissed

\* A dashboard covers the local days it says, transaction by transaction, and
\* its chart adds up to its totals (stripe_analytics_service.py).
DashboardCoversItsDays ==
    component = "dashboard" =>
        Dashboard!PagesGoDown /\ Dashboard!PeriodIsLocalDays /\ Dashboard!SeriesAddsUp
=============================================================================
