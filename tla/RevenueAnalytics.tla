--------------------------- MODULE RevenueAnalytics ---------------------------
(***************************************************************************)
(* The revenue part of the owner's dashboard: the period in local days     *)
(* (period.py) and the balance transactions read from Stripe page by page  *)
(* and summed up, as a whole and by day (stripe_analytics_service.py,      *)
(* dashboard_service.py), while Stripe records new ones.                   *)
(*                                                                         *)
(* Time is counted in small units; a local day has as many of them as      *)
(* DayLength says, which differ where the clocks change.  Refunds, payment *)
(* intents and disputes are read through the same pages; their sums, the   *)
(* rounding of money and the counts of orders are left out.                *)
(***************************************************************************)
EXTENDS Integers, Sequences, FiniteSets, SequencesExt, Lists

CONSTANTS
    LastDay,     \* bounds the days that are modelled
    DayLength,   \* units of time in each local day
    Days,        \* the days of a period: 7 or 30
    PageSize,    \* of a page of Stripe's list: 100
    MaxLedger    \* bounds the transactions

Dates == 0..LastDay

\* Assumed by the module that gives the constants their values.
AnalyticsAssumption ==
    /\ LastDay \in Nat /\ Days \in Nat \ {0} /\ PageSize \in Nat \ {0}
    /\ MaxLedger \in Nat
    /\ DayLength \in [Dates -> Nat \ {0}]

VARIABLES
    now,      \* the current time
    ledger,   \* Stripe's balance transactions, newest first
    request   \* a request for the dashboard

vars == <<now, ledger, request>>
-----------------------------------------------------------------------------
(***************************************************************************)
(* Local days.                                                             *)
(***************************************************************************)
Midnight[d \in 0..LastDay + 1] == IF d = 0 THEN 0 ELSE Midnight[d - 1] + DayLength[d - 1]

Date(t) == CHOOSE d \in Dates : Midnight[d] <= t /\ t < Midnight[d + 1]

\* Mutant of DaysBefore: days are subtracted after the conversion to UTC, where
\* they all have the length of the first.
UtcDaysBefore(d, n) == Midnight[d] - n * DayLength[0]

\* The local time is moved back and converted to UTC afterwards.
DaysBefore(d, n) == Midnight[d - n]

\* build_analytics_period on a day, which counts to its end
CurrentTo(today) == Midnight[today + 1]
CurrentFrom(today) == DaysBefore(today + 1, Days)
PreviousFrom(today) == DaysBefore(today + 1, 2 * Days)

\* iter_local_dates
SeriesDates(from, to) == Date(from)..Date(to - 1)
-----------------------------------------------------------------------------
(***************************************************************************)
(* Balance transactions and what they add to the figures.                  *)
(***************************************************************************)
\* other: of another type or currency
Kinds == {"charge", "refund", "other"}

Transaction == [id : 1..MaxLedger, created : Nat, kind : Kinds]

\* A refund lowers the net, and the others count for nothing.
Amounts ==
    [charge  |-> [gross |-> 10, fees |-> 3, net |-> 7],
     refund  |-> [gross |-> 0, fees |-> 1, net |-> -11],
     other   |-> [gross |-> 0, fees |-> 0, net |-> 0]]

Figures == {"gross", "fees", "net"}

\* aggregate_revenue_from_balance_transactions
Revenue(seq) ==
    [f \in Figures |-> SumOf([n \in 1..Len(seq) |-> Amounts[seq[n].kind][f]])]

\* aggregate_revenue_series: each transaction adds to the point of its date.
RevenueSeries(seq, from, to) ==
    [d \in SeriesDates(from, to) |->
       [f \in Figures |->
          SumOf([n \in 1..Len(seq) |->
                   IF Date(seq[n].created) = d THEN Amounts[seq[n].kind][f] ELSE 0])]]
-----------------------------------------------------------------------------
(***************************************************************************)
(* Stripe's list.                                                          *)
(***************************************************************************)
Within(from, to) ==
    Chosen(ledger, {n \in DOMAIN ledger : from <= ledger[n].created /\ ledger[n].created < to})

\* starting_after: what comes behind the last one read.
After(list, read) ==
    IF read = <<>> THEN list
    ELSE Chosen(list, {n \in DOMAIN list : list[n].id < Last(read).id})

\* paginate_stripe_list: what is read after one page more, and whether it is the last.
PageAfter(list, read) ==
    LET rest == After(list, read)
    IN  [read |-> read \o SubSeq(rest, 1, Min({PageSize, Len(rest)})), last |-> Len(rest) <= PageSize]
-----------------------------------------------------------------------------
Idle == [phase |-> "idle", today |-> 0, current |-> <<>>, previous |-> <<>>, known |-> {}]

Init == now = 0 /\ ledger = <<>> /\ request = Idle

Tick == /\ now + 1 < Midnight[LastDay + 1]
        /\ now' = now + 1
        /\ UNCHANGED <<ledger, request>>

Record ==
    /\ Len(ledger) < MaxLedger
    /\ \E k \in Kinds :
         ledger' = <<[id |-> Len(ledger) + 1, created |-> now, kind |-> k]>> \o ledger
    /\ UNCHANGED <<now, request>>

AskedOn == Date(now)

\* The period is made first.  The days before the first that is modelled are of
\* no interest.
Ask ==
    /\ request.phase = "idle"
    /\ AskedOn + 1 >= 2 * Days
    /\ request' = [Idle EXCEPT !.phase = "current", !.today = AskedOn,
                               !.known = ToSet(ledger)]
    /\ UNCHANGED <<now, ledger>>

ReadCurrent ==
    LET today == request.today
        page == PageAfter(Within(CurrentFrom(today), CurrentTo(today)), request.current)
    IN  /\ request.phase = "current"
        /\ request' = [request EXCEPT !.current = page.read,
                         !.phase = IF page.last THEN "previous" ELSE "current"]
        /\ UNCHANGED <<now, ledger>>

ReadPrevious ==
    LET today == request.today
        page == PageAfter(Within(PreviousFrom(today), CurrentFrom(today)), request.previous)
    IN  /\ request.phase = "previous"
        /\ request' = [request EXCEPT !.previous = page.read,
                         !.phase = IF page.last THEN "done" ELSE "previous"]
        /\ UNCHANGED <<now, ledger>>

\* The dashboard is answered, or Stripe fails and the answer is 503.
Answer == request.phase = "done" /\ request' = Idle /\ UNCHANGED <<now, ledger>>

Fail == request.phase \in {"current", "previous"} /\ request' = Idle /\ UNCHANGED <<now, ledger>>

Next == Tick \/ Record \/ Ask \/ ReadCurrent \/ ReadPrevious \/ Answer \/ Fail

Spec == Init /\ [][Next]_vars
-----------------------------------------------------------------------------
(***************************************************************************)
(* Properties.                                                             *)
(***************************************************************************)
TypeOK ==
    /\ now \in Nat
    /\ ledger \in Seq(Transaction)
    /\ request \in [phase : {"idle", "current", "previous", "done"}, today : Dates,
                    current : Seq(Transaction), previous : Seq(Transaction),
                    known : SUBSET Transaction]
    /\ request.known \subseteq ToSet(ledger)

Done == request.phase = "done"

DatesFrom(d) == d..d + Days - 1

\* The cursor goes down the list whatever is added at its top, so no transaction
\* is read twice and the pages come to an end.
PagesGoDown ==
    \A read \in {request.current, request.previous} :
      \A m, n \in DOMAIN read : m < n => read[n].id < read[m].id

\* The figures of a dashboard are of the local days it says, also across a change
\* of the clocks: what was recorded on one of the days by the time of the request
\* is read, and nothing of another day is.
PeriodIsLocalDays ==
    Done =>
      \A p \in {<<request.current, request.today + 1 - Days>>,
                <<request.previous, request.today + 1 - 2 * Days>>} :
        /\ \A x \in ToSet(p[1]) : Date(x.created) \in DatesFrom(p[2])
        /\ \A x \in request.known : Date(x.created) \in DatesFrom(p[2]) => x \in ToSet(p[1])

\* The chart has a point for each day, and its points add up to the totals above
\* it.
SeriesAddsUp ==
    Done =>
      LET series == RevenueSeries(request.current, CurrentFrom(request.today),
                                  CurrentTo(request.today))
          first == request.today + 1 - Days
      IN  /\ DOMAIN series = DatesFrom(first)
          /\ \A f \in Figures :
               SumOf([n \in 1..Days |-> series[first + n - 1][f]])
                 = Revenue(request.current)[f]

(***************************************************************************)
(* The inductive invariant.                                                *)
(***************************************************************************)
LedgerGrows ==
    /\ now < Midnight[LastDay + 1] /\ Len(ledger) <= MaxLedger
    /\ \A n \in DOMAIN ledger : ledger[n].id = Len(ledger) + 1 - n /\ ledger[n].created <= now

\* What is read is of the period and goes down, and what is known of it has been read
\* or comes behind.
ReadSoFar(read, from, to, complete) ==
    /\ \A m, n \in DOMAIN read : m < n => read[n].id < read[m].id
    /\ \A x \in ToSet(read) : from <= x.created /\ x.created < to
    /\ \A x \in request.known : from <= x.created /\ x.created < to =>
         \/ x \in ToSet(read)
         \/ ~complete /\ (read = <<>> \/ x.id < Last(read).id)

RequestReads ==
    LET today == request.today
    IN  request.phase # "idle" =>
          /\ today + 1 >= 2 * Days
          /\ ReadSoFar(request.current, CurrentFrom(today), CurrentTo(today),
                       request.phase # "current")
          /\ ReadSoFar(request.previous, PreviousFrom(today), CurrentFrom(today), Done)

IndInv ==
    /\ TypeOK /\ LedgerGrows /\ RequestReads
    /\ request.phase = "idle" => request = Idle
=============================================================================
