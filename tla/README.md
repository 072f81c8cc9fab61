# Verification of the Tony Shrimp API

TLA+ modules, TLC configurations and TLAPS proofs for the Tony Shrimp API, a
FastAPI shop backend on PostgreSQL, Redis and Stripe. Paths below are relative to
`src/src/app/`.

## 1. The system

| Component | State | Operations | Interacts with | Module |
|---|---|---|---|---|
| Order service (`services/order`) | `orders`, `order_items`, `order_status_events` | checkout, continue payment, customer cancel, owner status change, lists | decrements and returns variant stock; opens Stripe sessions | `OrderService`, `StockLocks`, `OrderPages` |
| Payment service (`services/payment`) | `payment_events`, order rows | the Stripe webhook and its handlers: completed, expired, failed attempt, refunded | changes the same order rows; writes notifications | `PaymentService` |
| Order repository (`repositories/order`) | – | guarded `UPDATE`s (`..._once`, decrement), ORM flush | used by both services | `OrderStore`, `StockLocks` |
| Variants and care parameters (`services/catalog/owner_service`) | `shrimp_variants`, `care_parameters` | create, edit, delete a variant; put the care parameters | checkout reads and decrements the same rows | `ShrimpParts` |
| Catalog (`services/catalog/shrimp_service`, `options_service`) | `shrimp` | create, edit, status, delete; filtered lists and the options offered | decides what may be ordered | `ShrimpCatalog`, `ShrimpListing` |
| Images and uploads (`owner_service`, `services/upload`) | `shrimp_images`, objects in R2 | presign, add, edit, remove; deletion with the shrimp | R2 is called inside requests | `ShrimpImages` |
| Notifications (`services/notification`, `core/realtime`) | `notifications`, Redis channel, websockets | create, publish, list, mark read | written in the payment transaction | `Notifications` |
| Sign-in (`services/auth`) | one-time codes in Redis, `sessions` | request and verify a code, refresh, logout | guards every route | `SignIn` |
| Users (`services/user/owner_user_service`) | `users` | activate, deactivate, role, delete | sign-in, orders | `Accounts` |
| Profile (`services/user/profile_service`) | `user_profiles` | read (and create), edit | the user's row | `Profile` |
| Address book (`services/user/address_service`) | `user_addresses` | create, update, delete, set default | checkout copies an address | `AddressBook` |
| Analytics (`services/analytics`) | – | the owner's dashboard, read from Stripe and `orders` | – | `RevenueAnalytics` |
| E-mail, encryption, configuration, migrations | – | formatting and I/O | – | – |

Requests share nothing but the database, Redis and Stripe. Each request has one
database session (`db/session.py`); nothing is locked by reading (except the
`payment_events` row, `FOR UPDATE`), so two requests that load the same order act on
what they loaded while the row changes under them.

### What is hard

- an order's row is written by four requests and four webhooks, each deciding by a
  row it loaded earlier;
- three statuses (order, payment, reservation) and the stock have to agree, although
  they are written by different statements;
- webhooks are repeated, reordered and concurrent, and the sessions they speak of may
  be replaced, lapsed, or belong to an order that was never committed;
- a request can die between any two statements, also after Stripe has acted for it;
- only Stripe's expiry event ends an abandoned reservation.

- a default address, a free slug, a first profile are found by one statement and made
  by another, and only an index of the database stands between two requests;
- Redis and R2 take no part in the database's transactions: a code is used up, an
  object deleted, a note published, before the commit that goes with it;
- lists are read page by page, by offset or cursor, while their tables change.

`PROJECT.json` lists the hazards at their lines, with the properties that cover them.

### What makes each component correct

- orders and payments: a reservation ends once, in a sale or a release; nothing paid,
  failed, refunded or cancelled is still reserved; every sale is announced once; an
  order with processed payments has the record of one of them (of a second paid session
  the code keeps nothing); a paid order has its stock or is flagged;
- stock: never negative, and neither created nor lost by orders;
- progress: reservations end and events are processed;
- notifications: a page that listens knows of every unread note of its role, except one
  that was published before it came and committed after it listed;
- address book: at most one default address, handed on when it is deleted;
- images: as many as may be, each in the slot asked for, and no object left behind;
- sign-in: wrong codes are counted, a code signs in once, a revoked session stays so;
- accounts: an admin remains; customers with orders remain; profiles keep what an edit
  did not name;
- catalog: slugs are unique and stable; filters and figures agree, and an offered option
  leads to entries, so far as it comes back as what it was;
- lists: a reader who turns the pages misses no more than what leaves the list;
- dashboard: figures are of the local days they are shown for.

## 2. Modules

```
OrderStore          tables, guarded updates, flush, transactions
  StripeCheckout    Stripe's sessions and events (external)
    OrderService    checkout, continue, cancel, owner status
    PaymentService  the webhook handlers
      OrderSystem   both, the owner's catalog changes, aborts; properties
        MCOrderSystem        instances for TLC
        OrderSystemProofs    theorems: reservations, refinement
        PaymentProofs        theorems: payments, on top of those
StockReservation    what the shop promises about stock (abstract)
  MCStockReservation, StockReservationProofs
StockLocks          the same stock, row by row under locks; implements StockReservation
  StockLocksProofs
AddressBook         default addresses, statement by statement
  AddressBookProofs

MCUserSide          SignIn, Accounts, AddressBook, Profile
  UserSideProofs    with AddressBookProofs
MCCatalogSide       ShrimpCatalog, ShrimpParts, ShrimpImages
  CatalogSideProofs
MCReaders           ShrimpListing, OrderPages, Notifications, RevenueAnalytics
  ReadersProofs     theorems: all four
Lists               parts and sums of sequences, for those that read lists
MCProgress          StockLocks, AddressBook, Profile, with their fairness
```

The four modules at the end instantiate the components of one side of the system and
check them in one run. Their variable `component` is chosen at the start and only that
component steps; the variables of the others keep their initial values. The state space
is the union of those of the components, not their product. Interleavings of requests
to different components are therefore explored only as far as a component's module has
the other's steps: where two touch the same rows, it does (see below).
A property of such a module is a property of one component, or the conjunction of
like properties of several: its parts are stated and explained in the components.
Their constants stand for those of the components under the same names, so that their
theorems are as general as the components' (`UserSideProofs`, `CatalogSideProofs`,
`ReadersProofs`).

`OrderSystem` instantiates `StockReservation` with `stock`, the variants that are not
deleted, the reservation status of each order and its items, and implements it.
`StockLocks` implements it too, at the other grain: `OrderSystem` has every request and
webhook of an order and one-step commits, `StockLocks` has only what touches stock and
every statement of it. Together they justify the one-step commits of `OrderSystem`.
The other modules meet the order flow and each other in single steps: orders change the
stock in `ShrimpParts`, a first order keeps an account in `Accounts`, a sale's webhook
makes the notes of `Notifications`, a user's deletion takes the sessions in `SignIn`
and the row in `Profile`, a shrimp's deletion the rows of `ShrimpParts` and
`ShrimpImages`.

### State of the order flow

`stock`, `catalog`, `orders`, `items`, `timeline`, `notified` and `processed` are the
tables (a row per key; columns no property depends on are left out). Absent rows are
`reservation = "none"`. A column `session` stands for `stripe_checkout_session_id`,
URL and expiry together, which the code always writes together, except that the
completed webhook writes the id alone, when the order no longer can continue payment.
`intent` is `stripe_payment_intent_id`; each session has one PaymentIntent and carries
its identity. `timeline` is the set of payment-related messages of an order (a status
event is written once per commit; how often one repeats is not asked). `catalog[v]`
joins variant `is_active`, the shrimp's `catalog_status` and its contact-only grade:
the three have the same effect on checkout. `db[p]` is the state of request `p`: what
it is doing and the order object it loaded. `sessions` and `emitted` are Stripe's.

### Steps of the order flow

PostgreSQL runs at READ COMMITTED. An `UPDATE` locks its row until the transaction
ends, and its `WHERE` is evaluated on the latest committed row. So all that a request
writes to an order takes effect as if at one instant, between its first `UPDATE` and
its commit, while everything it read before may be stale. Each operation is therefore
two steps: `Begin...` loads the order and makes the checks the code makes on it;
`Commit...` performs every write and commits, with what was loaded in `db[p].row`.
Where the code looks again (`db.refresh` in `handle_checkout_completed`) there is a
third step, `RefreshCompleted`. A guarded update acts on the current row
(`ReleaseOnce`, `ConsumeOnce`); an assignment through the ORM writes only the columns
whose value differs from the loaded one (`Flush`). Locks on several rows, and the
deadlocks they allow, are inside a commit step; `AbortRequest` stands for every way a
transaction may fail.

The stock check of a checkout, its decrement and the insertion of the order are one
transaction; the Stripe session is created inside it, so `LoseCheckout` loses the
transaction and keeps the session. `continue` creates its session (`BeginContinue`)
before it commits (`CommitContinue`), and may be aborted between.

The `payment_events` row is inserted before the order is read and is committed
together with `processed_at` and all else the handler wrote. So an event is either
absent or processed, and a second delivery waits at the unique key (`InFlight`) and
then finds it processed. The branch for an event that exists unprocessed can only be
taken by such a waiting delivery when the first rolled back, which the model shows as
a delivery after the abort. An event whose order does not exist is not
`Deliverable`: its insert fails on the foreign key at every attempt.

A session lives at least 30 minutes (`get_checkout_expires_at`), so the request that
created it has ended before it lapses (`PassExpiry`); this is the one timing
assumption. Stripe expires a session only after it has lapsed, accepts payments until
then, and reports refunds made in its dashboard.

### The other modules

All of them follow the same reading of the code: a request loads what it decides by,
and writes at its commit only the columns in which its copy differs from what was
loaded; an `UPDATE` whose row has gone raises `StaleDataError`, a `DELETE` only warns.

- `StockLocks`. `txn[t]` is the transaction of a request: the variants it still has to
  update (`todo`), those it has updated (`taken`). A variant that has too few units is
  skipped without waiting, one that has enough is waited for and looked at again when
  its lock is free (READ COMMITTED). The checkout keeps its locks while Stripe answers.
  `BreakDeadlock` undoes a transaction of a cycle of waiting ones, `Abort` any.
- `AddressBook`. `rows` is committed, `new` the version a transaction has written,
  `lock` who holds the row; the partial unique index on `is_default` makes a writer
  wait for whoever may commit or undo a default row, and deadlocks are broken.
- `OrderPages`. `made` is the order of `created_at`, newest first, which is set long
  before the order is committed, so orders also enter a list between those already
  shown. `left` counts how often an order has left the list since it was opened.
- `Lists`. A `WHERE` on a sorted table is a set of positions, and the list is `Chosen`
  by them; sums go from left to right. Proofs count positions, so these are written for
  them in place of `SelectSeq` and `FoldSeq`.
- `ShrimpListing`. Filters as SQL writes them, figures as Python computes them, options
  as `options_service` collects them, and the pages of the list. `grade` (and `rarity`)
  is a free text in the column and a comma-separated one in the filter: a `Text` is the
  sequence of its pieces between commas, each a word or none, with or without spaces
  around it, and `split_csv_filter` takes the words. What `ILIKE` finds for a species is
  the constant `Like`, any relation whatever.
- `ShrimpCatalog`. A request probes candidate slugs one query after the other; slugs
  are sequences, so that `red` numbered 2 and an entry called `red-2` are one slug.
- `ShrimpParts`. Variants and care parameters; `Absent` in a payload is a field that
  was not sent.
- `ShrimpImages`. Rows, objects, and the presigned uploads of a client in between; R2
  fails, answers, or the process dies after it has acted.
- `SignIn`. Each command on Redis is a step; keys expire between any two.
- `Accounts`. Who acts is loaded before whom he acts on; both may change after.
- `Profile`. The row is created by the first request that reads it.
- `Notifications`. A page's websocket is accepted, then subscribed, then forwards; its
  list is a request of its own. A note carries the delivery that made it; `before` is
  what was published when a page subscribed, so that only its list can show it.
- `RevenueAnalytics`. Time in units of which a local day has more or fewer
  (`DayLength`), a ledger that grows while it is read by cursor.

What the models made visible, stated by no property as the code's promise or stated
only as what overlapping requests can break: two uploads that loaded the same images
both pass the limit of four (`OverrunIsBounded` says by how much); a shrimp or an
account that is activated while its deletion is on its way is deleted, although the
message says only inactive ones can be; the 502 that the image routes prepare for a
failure of R2 is not reached, because `services/upload.py` defines its two deletions
twice and the later definitions (157-174) raise nothing the routes look for; owners may
be told of a paid order by a delivery that is rolled back afterwards, and again by the
next; a code is used up in Redis before the session commits, and a wrong attempt writes
back the record it read over a code that was set in between; the
reply to an image upload lacks the new image; R2's partial failures are not looked at,
which leaves objects of a deleted shrimp in the bucket;
an activation and a deactivation that overlap can leave `deactivated_at` out of step;
a `PUT` of care parameters without `care_level` resets it to `beginner`; an owner who
sets the stock to the value he loaded writes nothing; `availability` offers
"out-of-stock" for entries without active variants, which `in_stock=false` does not
list; an entry with one variant sold out is found by both stock filters; a grade or
rarity with a comma or outer spaces is offered as it is and, chosen as a filter, split
and stripped, so that it finds other entries or none, and a species with a backslash is
offered and not found; of a second session paid for a sold order nothing is kept
(`OnePaymentIsRecorded` says that another payment is); a `role`
filter of unknown roles filters nothing; marking a note that was pushed and is not
committed yet answers 404; two edits of a profile that overlap can leave a mixture of
both when one of them names a value it has just loaded; a list of one status, turned
by offset while orders leave that status, skips one order for each.

### Abstract specification

`StockReservation` knows free and held units only: an order reserves all of its units
at once, and they are later sold or given back, once. The owner sets free units and
delists variants. `Total(v)` adds free and held units by counting them as a set.

## 3. Checks

| Run | Instance | Shows |
|---|---|---|
| `Payment.cfg` | 1 order, 3 sessions, 2 requests; completed and expired webhooks; owner ships or cancels | `ReservedIsPending`, `CancelledHoldsNoReservation`, `NotifiedOncePerSale`, `OnePaymentIsRecorded`, `ReservationCanStillEnd` |
| `Refund.cfg` | 1 order, 2 sessions, 2 requests, all four webhooks; owner cancels | `PaidIsBackedOrFlagged`, `RefundedWasPaid`, and `IndInv` and `PaymentInv`, the invariants the proofs use |
| `Stock.cfg` | 2 orders, 2 variants, 2 sessions; the owner edits, hides and deletes one variant | `TypeOK`, `ReservationSpec` (implements `StockReservation`), `StockConserved` |
| `Liveness.cfg` | 1 order, 2 sessions, fair | `ReservationsEnd`, `EventsSettle` |
| `StockReservation.cfg` | 3 orders, 2 variants, quantities up to 2 | `TypeOK`, `UnitsConserved` of the abstract specification |
| `UserSide.cfg` | 2 requests; 2 codes, 2 addresses of users and 2 sessions, 2 attempts; 2 accounts; 3 postal addresses; 2 values of a profile | `AtMostOneDefault`, `TablesAreConsistent`, `AttemptsAreCounted`, `CodesSignInOnce`, `AnAdminRemains`, `StaleCopiesUndoNothing`, `OnlyRacesHurt` |
| `CatalogSide.cfg` | 2 requests on 3 entries called `red` or `red-2`, on 2 variants, or on 4 images (limit 2) | `TablesAreConsistent`, `RequestsAloneSucceed`, `RemovedImagesLeaveNoObject`, `OverrunIsBounded`, `OnlyRacesDeleteActive`, `EditsUndoNothing`, `AddTakesItsSlot` |
| `Readers.cfg` | 2 entries of 5 sorts, of grades with one word, with two and with spaces, under every combination of the filters on variants with one of species, grade and color; 3 entries in pages of 1; 3 orders; 1 sale with 3 deliveries and 2 pages of the staff; 5 days of three lengths with 3 transactions | `TypesOK`, `FiltersAgree`, `PagesShowTheList`, `OrdersAreShown`, `NothingMissed`, `DashboardCoversItsDays`, and no deadlock |
| `Progress.cfg` | 2 requests, fair: 2 orders of 2 variants in both orders, 2 addresses, 1 value of a profile | `LocksInv`, `ReservationSpec`, `AllRequestsEnd`, `AskingSucceeds` |
| `CancelRace.cfg` | 1 order | violated: `OnlyPendingOrdersCancelled` |
| `ContinueRace.cfg` | 1 order | violated: `OnlyContinuableOrdersGetUrl` |
| `OrphanEvent.cfg` | 1 order | violated: `EventsNameExistingOrders` |

What the composed properties say of which component:

| Property | Parts |
|---|---|
| `TablesAreConsistent` (users) | the inductive invariant of each component: types; a session has its account; customers with orders stay; an admin remains and `deactivated_at` follows the status until requests overlap; default rows exclude each other; what requests in flight have loaded |
| `StaleCopiesUndoNothing` | a revoked session stays so; a profile keeps what an edit did not name |
| `OnlyRacesHurt` | without overlap no active user is deleted, no change of addresses fails, and a deleted default address has an heir |
| `TablesAreConsistent` (catalog) | the inductive invariant of each component: types; slugs are unique; variants, care parameters and images need their shrimp; uploads share the room there is; an object goes before its row; what requests in flight have loaded |
| `RequestsAloneSucceed` | without overlap nothing fails, and a new slug is the first free candidate |
| `EditsUndoNothing` | columns of an entry, the units that orders took, and care limits outlive edits that do not name them |
| `TypesOK` (readers) | the inductive invariant of each component: types; every order lost between two pages is paid for by one that left; what was shown is in order; notes are published first and reach the pages that listen; a cursor stands where its reading does |
| `FiltersAgree` | lists agree with the figures of their items; an offered color leads to entries, an offered grade just when it asks for an offered one, an offered species when its pattern finds one |
| `PagesShowTheList` | pages make up the list; publishing hides nothing from a reader |
| `OrdersAreShown` | pages skip no more orders than leave the list; the total covers the rows |
| `DashboardCoversItsDays` | the cursor goes down without gap or repetition; the period is local days; the series adds up |
| `AllRequestsEnd` | requests for stock and for addresses end |

Properties that are named like `OnlyRacesFail`, or say "until two requests overlap",
state what holds of requests that nobody overlaps and name what overlapping ones can
break; the rest holds whatever overlaps. They do not catch the races they exclude: the
code has those, and the notes of the hazards in `PROJECT.json` say which.

The violated runs show where the code does something else than one of its own
messages says. A cancellation that checked the order before a payment's webhook
committed is committed after it and overwrites its PAID with FAILED and CANCELLED; the
sold stock stays consumed (`cancel_customer_order` drops the result of the release). A
payment URL is handed out for an order settled while Stripe was being asked. A
webhook about an order that was never committed fails for ever with "Stripe payment
event could not be loaded."

### Bounds

Rows of different orders meet only in stock, so one order suffices for the payment
properties, and two for stock. Three sessions let one order have a lapsed, a current
and a racing session. Two requests at a time give every pairwise race, and each read
step can be followed by any number of completed requests of the other. `MaxStock` and
`MaxQuantity` are 1 or 2: a last unit, and a unit more. `Kinds`, `OwnerStatuses` and
`Editable` switch off parts of the environment that the properties of a run do not
depend on; together the runs switch on all of them. Sessions are never reused, so they
also bound the number of continuations. Deadlock is not checked where
the system rightly rests: with every session expired and every event processed, or
with every id and code used up. `Readers.cfg` checks it.

In the other modules two requests at a time give every race of a pair; a third never
decides by anything the two cannot have done, since what a request relies on is one
copy of its rows. Lists need three entries with pages of one: something before, on and
after the page. Limits are scaled down (2 or 3 images of the code's 4, 2 attempts of 5)
so that they are reached and passed. Three entries reach `red`, `red-2` and `red-2-2`
or `red-3`. In `CatalogSide.cfg` two requests on entries or images overlap only while a
row is left unused, and on entries only where all are called `red` (`OverlapBound`, the
one constraint of a run; a single request meets the rest). Four image rows let two
uploads fill the limit of two and pass it by one, and leave a row with which they could
pass it by two; longer lists of images are left to the proof. `MaxTries` bounds the
deliveries of a webhook, `MaxLedger` what Stripe records, `MaxLeft` how often orders
leave a list, `MaxRows` what is published; past them nothing new happens. The theorems
about the readers hold for every value of these bounds. Ids and uploaded objects are not
reused, which bounds creations. `Days = 2` spans a change of the clocks in either
period. The proofs of `StockLocks` and `AddressBook` hold for any number of requests, so
a cycle of three is covered there.

Symmetry is used in safety runs, over the sets of model values whose elements the
constants do not tell apart (variants only where none is named in `Editable`), never
where a run checks liveness. In the composed runs several components use one set of
model values, which keeps the number of permutations down.

### Fairness

Requests end, by commit or abort (weak fairness). The clock passes every expiry and
Stripe then closes the session (weak). Stripe repeats a webhook until it is answered
with success, and a handler is not aborted every time (strong fairness on the
deliveries, the refresh and the handlers' commits: a delivery or a handler can be
disabled by others and enabled again). Nobody has to pay, cancel, continue, refund or
edit.

Requests that wait for rows or index entries get them in turn, and PostgreSQL breaks
deadlocks (`StockLocks`, `AddressBook`: strong fairness on the statements, since a row
may be taken and given back many times while one waits). A page of a profile asks again
after a failure (weak); nobody has to log in, edit or place an order. `MCProgress`
states the fairness of the three components for their steps in the composition.

`EventsSettle` asks nothing of events whose order does not exist: those never
settle (see `OrphanEvent.cfg`).

## 4. Proofs

No theorem bounds the number of requests in flight, rows, sessions or deliveries; only
what a proof counts is assumed finite. The assumptions, all named and evaluated by TLC:

| Assumption | Says | Why the code justifies it |
|---|---|---|
| `OrdersAssumption`, `SessionsAssumption`, `LocksAssumption`, `ProcsAssumption`, `SignInAssumption`, `NoneIsNotBoolean` | "no row", "no session" and the like are none of the values they stand beside; finitely many orders; limits are numbers, at least 1 attempt | `NULL` is no value; ids are UUIDs; `config.py` |
| `BoundsAssumption`, `KindsAssumption`, `OwnerStatusesAssumption`, `EditableAssumption`, `ReservationAssumption` | the switches of the environment have their types | – |
| `AdminAssumption` | there is an admin at the start | `scripts/create_user.py` |
| `CatalogAssumption` | finitely many entries, slugs are finite sequences, marks are apart | – |
| `PartsAssumption` | marks of absent rows and fields are no values | – |
| `ImagesAssumption` | image ids are numbers in the order of creation; a limit of at least 1; finitely many requests, at least 1 | `created_at` orders images of one slot |
| `FiltersAssumption`, `PagedAssumption`, `OrderListAssumption` | pages have at least one row; "no filter" is no grade, color, price or status; grades are texts, `Like` relates species; finitely many orders | `limit` is `Query(ge=1)`; `NULL` is no value |
| `StaffAssumption` | a page has one role as long as it is open; a webhook is delivered at least once | the first is an assumption only: `dependencies.py` reads the role from the database at each request, the websocket when it connects |
| `DashboardAssumption` | local days have a positive length, whatever it is; a period has at least a day, a page of Stripe's at least a transaction | `zoneinfo`; `period.py` knows 7 and 30 days, Stripe is asked for 100 |

### The order flow (`OrderSystemProofs`, `PaymentProofs`)

- `TypeCorrect`: `Spec => []TypeOK`. Needs `SessionsKnown` beside it: a webhook's order
  is an order only because Stripe reports on sessions that were created for one.
- `Inductive`: `Spec => []IndInv`. `ReservedIsPending` is not inductive: the owner's
  handler decides by a loaded row, and would cancel a reserved order without releasing
  if that row could show a settled reservation while the real one is open. The
  strengthening is what snapshots may be relied on for (`SnapshotOK`): a reservation
  once settled never changes, so a row loaded as settled is still right about it, and a
  row loaded as reserved was unpaid. `RequestsOK` adds what follows for each request in
  flight (a checkout's order does not exist yet; a late payment's is released; a
  refund's is settled), `CheckoutsApart` that no two checkouts insert one order, and
  `RowsOK` that an order without a row has no payment. Every commit goes through one
  lemma, `RowProgress`.
- `ReservationsAwaitPayment`, `CancellationsRelease`: `[]ReservedIsPending` and
  `[]CancelledHoldsNoReservation`, from `Inductive`.
- `Implements`: `Spec => ReservationSpec`. Checkout maps to `Reserve`, the commits that
  release to `Release` or, when they come late, to a stutter, the completed webhook to
  `Consume`, the owner's edits to `Restock` and `Delist`; all else is a stutter.
- `StockIsConserved`: `Spec => StockConserved`. The abstract specification conserves
  units (`Conservation`), the order flow implements it, and the theorem of the abstract
  module is used through the instance, under the refinement mapping.
- `PaymentsAreConsistent`: `Spec => []PaymentInv`, and from it `SalesAreAnnouncedOnce`,
  `PaidOrdersNameAPayment`, `ReservationsCanEnd`, `PaidOrdersAreBacked` and
  `RefundsFollowPayments`. That an order with processed payments names one of
  them is kept only because a paid or sold order has a PaymentIntent, which is that of
  such a payment (`PaymentsRecorded`), and because of what Stripe's events are true
  about for good (`EventsAreTrue`: a session is complete or expired, never both), because a webhook in flight was sent and
  is about its session's order (`WebhooksOK`), and because a session that a continuation
  is about to store is nobody else's and nobody has seen it (`ContinuesOK`), so that no
  expiry of it can have been used up. A step is looked at three times: what it does to
  Stripe's side (`StripeMoves`), to the row, timeline and notes of one order
  (`RowPaid`), and to the processed events (`EventsOK`). The last uses that rows only
  progress: a timeline grows, a settled reservation stays, and the session of a reserved
  order changes only to one in `ContinuesOK`.

### Stock (`StockReservationProofs`, `StockLocksProofs`)

- `Typing` and `Conservation`: the abstract specification never oversells and conserves
  units.
- `LocksAreSufficient` (`Spec => []LocksInv`) and `LocksImplement`
  (`Spec => ReservationSpec`), for any carts over any variants. `LocksInv` says of each
  transaction what its commit relies on although it was looked at earlier: the rows it
  has updated are locked by it and still listed, with units enough for it; what it wants
  is in `taken` or still in `todo`; an order it has claimed is still reserved, and no two
  checkouts insert one order. A step of one transaction keeps that of all others
  (`OthersKeep`, `OthersKeepAtEnd`) because it changes only rows it has locked. Then a
  commit of a checkout is `Reserve`, of a release or sale `Release` or `Consume`, and the
  rest stutters.

### Users (`AddressBookProofs`, `UserSideProofs`)

What holds only of requests that do not overlap is proved by an invariant about the one
request in flight: until a second arrives, what it has loaded is what is there.

- `BookIsConsistent` (`Spec => []IndInv`) and `OneDefault`
  (`Spec => []AtMostOneDefault`). That no two committed rows are the default is not
  inductive: a transaction may hold an uncommitted default row, which must exclude every
  row that is default now or that another transaction may still commit or restore
  (`PendingDefaultIsAlone`).
- `RacesAreKnown` (`Spec => []RaceInv`), `FailuresAreRaces` (`Spec => OnlyRacesFail`) and
  `DefaultIsKept` (`Spec => DefaultIsHandedOn`). A request nobody has overlapped holds
  every lock there is, so it waits for nobody, sees the committed rows and its own, and
  `LoneStep` says for each of its statements what the ones before have left: the old
  defaults are unset before the new one is set, and the index has nothing to object to.
- `AccountsAreConsistent` with `SomebodyCanManage` (`[]AnAdminRemains`) and
  `OnlyOverlapsDeleteActive`. An actor who is let in is active and stays so until
  another request acts; whom he may manage (`assert_can_manage_user`) is never the last
  active admin other than himself, so each plan leaves an admin (`PlanHolds`).
- `SignInIsConsistent` with `AttemptsRunOut`, `CodesAreUsedUp` and `LogoutsLast`. The
  count of answers given (`tries`) is bounded by the attempts that Redis holds or that
  the verification in flight is about to write back; a code that has signed in is out of
  Redis before its session is made.
- `ProfileIsTyped`, `ProfileKeepsTheRest`.
- `UserTablesAreConsistent`, `StaleCopiesAreHarmless` and `OverlapsAreToBlame` state
  these of the composition: in a behaviour of `MCUserSide` each component makes its own
  steps or none (`EachComponent`).

### The catalog (`CatalogSideProofs`)

- `EntriesAreConsistent`: slugs are unique because the index turns the second writer
  down (`ClashesWith`); `SlugIsFirstFree` needs that the candidates a lone request has
  probed are still taken (`LoneCopies`) and that a free candidate exists among
  `Cardinality(Ids) + 1` (by counting: candidates of one base are distinct).
  `UpdatesKeepOtherColumns` from the row that the commit writes.
- `PartsAreConsistent`, `SalesAreKept`, `LimitsStay`. Two creations never insert one
  variant (`InsertsAreFresh`), so a row comes into being once and every later commit is a
  merge, which keeps the columns it does not name.
- `ImagesAreConsistent`. `OverrunIsBounded` is not inductive: an upload in flight has
  found room that others may fill. Images shown and uploads in flight together number
  at most `MaxImages + Cardinality(Procs) - 1` (`RoomIsShared`), since an upload that
  begins is one of the requests and found fewer than `MaxImages` shown.
  `ObjectsGoFirst`: a removal deletes the object it loaded, an image never changes its
  key, so no object is there when the row goes. `SaleOutlivesLoneDeletions`: the status
  a lone deletion has loaded is still the status. `AddsKeepTheOrder`: the order of a
  list is by slot, then by id; the slots a lone upload gives out are the ranks of the
  others with a gap at the slot asked for, and ranks grow with the order.
- `CatalogTablesAreConsistent`, `LoneRequestsSucceed`, `ObjectsGoWithTheirImages`,
  `TheLimitIsNearlyKept`, `OnlyOverlapsDeleteWhatIsOnSale`, `StaleEditsAreHarmless` and
  `AddedImagesTakeTheirSlot` state these of the composition.

### The readers (`ReadersProofs`)

These are about sequences of any length, and most of what they need looks like induction
over data. The library's rules of induction cannot be used (their parameter is an
operator), so the module starts with one that can, `Induction`: a set of numbers that
has 0, and with each number the next, has all of them. It follows from counting alone:
if `n` were left out, adding 1 would map the members up to `n` one to one to those
members other than 0, which are one fewer. From it and from
cardinalities come the lemmas about `Lists`: the element chosen kth has k - 1 before it
(`ChosenIs`, `RanksGrow`), removing or inserting a position moves what is behind it
(`RemovedIs`, `InsertedIs`), and a sum over boxes is the sum of what is in them
(`BoxesAddUp`).

- `NotesReachPages`, `NoNoteIsMissed` (`[]NothingMissed`). What a page knows is not
  inductive in committed notes: a note may be committed that was published while nobody
  looked. The invariant is about every published note (`PagesKnow`), and that a note is
  published before it is committed (`PublishedFirst`).
- `PagesSkipNothing`, `OrderPagesAreShown` (`[]OrdersAreShown`). An order is `Lost` when
  it has not been shown and fewer orders are ahead of it than the pages have covered.
  There are never more of those than orders that have left: an order that comes puts
  the others further behind, one that leaves lets at most one cross the line
  (`LeavingCostsOne`), and a page shows all between its ends (`ReadRowsIsSafe`). At the
  end of the list nothing is ahead of the reader, so what was not shown is lost.
- `PagesAreShown`, `CatalogIsShown` (`[]PagesShowTheList`). What was shown is the list up
  to the offset, until it changes (`ShownInOrder`); while entries are only published,
  what was in the list stands ahead or was shown (`ShownOrAhead`).
- `FilteredTypes`, `ListsAgreeWithFilters` (`[]FiltersAgree`). The filters and figures of
  any entry agree, from the types alone: a filter is passed by a variant, which is what
  the figures are the least and the sum of. What is offered comes from an entry that
  passes the filters, and what an offered grade or species asks for, if it is offered
  too, is that of such an entry, which passes them with the option set. Conversely a
  grade that is found asks for one that is offered, since it never asks for no grade or
  the empty one (`WordsAreAsked`). `Words` and `Like` are any.
- `LedgerIsRead`, `DaysAreCovered` (`[]DashboardCoversItsDays`). The ledger only grows at
  its head, so what a cursor has passed stays passed (`LedgerGrows`), and what has been
  read is all from the period's end down to it (`ReadSoFar`). Midnights are sums of
  lengths of days and grow (`MidnightsAre`), so each time has one local date
  (`DatesAre`), and each transaction of a period falls in one box of the chart
  (`ChartAddsUp`).
- `ReadersAreTyped` and the five theorems above about `MCReaders` combine them as in the
  other compositions (`EachReader`).

### What stays with TLC

- Liveness (`ReservationsEnd`, `EventsSettle`, `AllRequestsEnd`, `AskingSucceeds`):
  TLAPS does not reason about the fairness of these actions (`ENABLED`).
- That the instances are faithful where the modules meet in single steps (section 2).

## 5. Not modelled

Amounts, texts and payloads (no property depends on them); views of a single row;
HTTP status mapping except where a reply is a property; search by text; Google
Analytics and the dashboard's other sums, which are read like the revenue; the database
and Stripe parts of a dashboard are not one snapshot, and nothing says they are. The
layout and delivery of mail, the cipher, tokens and hashes are external: a code or token
is right or wrong, a ciphertext never repeats. The suburb lookups call a service and
keep nothing. Configuration and migrations have no behaviour of their own: the
constraints are read from the models, but for the partial unique index on default
addresses, which only migration `6d8ef918ce6f` creates. Partly modelled components and
the reasons are in `PROJECT.json`; hazards without a property have a note there.

## 6. Plan

1. An abstract specification of sign-in (a code is asked for, mailed, and exchanged once
   for a session) and the refinement by `SignIn` of what it promises without overlap.
2. `StockLocks` with the rows of the webhooks (`payment_events`, `orders`), so that the
   commits of `PaymentService` are justified as those of checkout are.
