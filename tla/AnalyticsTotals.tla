-------------------------- MODULE AnalyticsTotals --------------------------
(***************************************************************************)
(* What the analytics count: the queries over the confirmed receipts of    *)
(* one owner, while receipts are confirmed, reopened and deleted.  A name  *)
(* is its place in the order of names.  SQL leaves open what an ORDER BY   *)
(* leaves open: a query has a set of answers.                              *)
(***************************************************************************)
EXTENDS AnalyticsPeriods, FiniteSets, FiniteSetsExt, SequencesExt

CONSTANTS
    Receipts,         \* what receipt_id may be
    Instants,         \* the times of purchase looked at
    ItemLists,        \* the items of a receipt: sequences of Item
    Amounts,          \* total_amount, which need not be the sum of the items
    Stores,           \* names of stores, or None
    Uncategorized,    \* the place of "no category" among the categories
    WeekDays,         \* days in a week; day 0 is a Monday
    QueryZones,       \* bound: the zones in which receipts are counted
    MaxLimit          \* bound on the limit asked for

\* A category is the place of its name; product is its name as _clean_name
\* and lower make it from the normalized or the raw name.
Item == [category : Nat \cup {None}, product : Nat, price : Nat]

ASSUME TotalsConstants ==
    /\ Instants \subseteq Datetimes
    /\ ItemLists \subseteq Seq(Item)
    /\ Amounts \subseteq Nat
    /\ Stores \subseteq Nat \cup {None}
    /\ Uncategorized \in Nat
    /\ QueryZones \subseteq Zones
    /\ WeekDays \in Nat \ {0}
    /\ MaxLimit \in Nat \ {0}
    /\ None \notin Nat \cup ResolvedAnalyticsPeriod

VARIABLE rows         \* the table receipts with its items

totalsVars == <<vars, rows>>

Row == [ confirmed : BOOLEAN,
         at : Instants, store : Stores, items : ItemLists, total : Amounts ]

TotalsTypeOK == rows \in UNION {[ids -> Row] : ids \in SUBSET Receipts}

TotalsInit == Init /\ rows = <<>>

-----------------------------------------------------------------------------
Total(r) == rows[r].total

\* slip: the first instant after the period counts too
FiltersClosed(p) ==
    {r \in DOMAIN rows : rows[r].confirmed
                         /\ p.start <= rows[r].at /\ rows[r].at <= p.end}

\* _filters: status, confirmed_at and the time of purchase.
Filters(p) ==
    {r \in DOMAIN rows : rows[r].confirmed
                         /\ Within(rows[r].at, p.start, p.end)}

\* The lines of a join of the selected receipts with their items.
Lines(p) ==
    UNION { {[receipt |-> r, n |-> n, item |-> rows[r].items[n]] :
                n \in DOMAIN rows[r].items} : r \in Filters(p) }

\* sum and count(distinct receipt_id) of every group of lines.
GroupBy(Key(_), lines, Amount(_)) ==
    { LET group == {l \in lines : Key(l) = key}
      IN  [ name |-> key,
            amount |-> MapThenSumSet(Amount, group),
            purchases |-> Cardinality({l.receipt : l \in group}) ] :
      key \in {Key(l) : l \in lines} }

\* The orders of a result in which no row comes after one it precedes.
OrderBy(Precedes(_, _), result) ==
    {s \in SetToSeqs(result) :
        \A i, j \in DOMAIN s : i < j => ~Precedes(s[j], s[i])}

Limited(answers, limit) ==
    {SubSeq(s, 1, Least(limit, Len(s))) : s \in answers}

\* asc() with NULL last
NameBefore(a, b) == a # None /\ (b = None \/ a < b)

-----------------------------------------------------------------------------
Summary(p) ==
    [ amount |-> MapThenSumSet(Total, Filters(p)),
      purchases |-> Cardinality(Filters(p)) ]

\* slip: JOIN instead of LEFT OUTER JOIN
InnerJoined(lines) == {l \in lines : l.item.category # None}

\* Items without a category stay in the result.
Joined(lines) == lines

CategoryName(category) == IF category = None THEN Uncategorized ELSE category

CategoryBefore(a, b) ==
    \/ a.amount > b.amount
    \/ /\ a.amount = b.amount
       /\ \/ CategoryName(a.name) < CategoryName(b.name)
          \/ CategoryName(a.name) = CategoryName(b.name)
             /\ NameBefore(a.name, b.name)

Categories(p) ==
    OrderBy(CategoryBefore,
            GroupBy(LAMBDA l : l.item.category, Joined(Lines(p)),
                    LAMBDA l : l.item.price))

\* slip: products with equal totals in any order
ProductUnordered(sortBy, a, b) ==
    LET first == IF sortBy = "amount" THEN "amount" ELSE "purchases"
        second == IF sortBy = "amount" THEN "purchases" ELSE "amount"
    IN  a[first] > b[first] \/ (a[first] = b[first] /\ a[second] > b[second])

ProductBefore(sortBy, a, b) ==
    LET first == IF sortBy = "amount" THEN "amount" ELSE "purchases"
        second == IF sortBy = "amount" THEN "purchases" ELSE "amount"
    IN  \/ a[first] > b[first]
        \/ a[first] = b[first] /\ a[second] > b[second]
        \/ a[first] = b[first] /\ a[second] = b[second]
           /\ NameBefore(a.name, b.name)

Products(p, limit, sortBy) ==
    Limited(OrderBy(LAMBDA a, b : ProductBefore(sortBy, a, b),
                    GroupBy(LAMBDA l : l.item.product, Lines(p),
                            LAMBDA l : l.item.price)),
            limit)

StoreBefore(a, b) == ProductBefore("amount", a, b)

TopStores(p, limit) ==
    Limited(OrderBy(StoreBefore,
                    GroupBy(LAMBDA l : rows[l.receipt].store,
                            {[receipt |-> r] : r \in Filters(p)},
                            LAMBDA l : Total(l.receipt))),
            limit)

\* date_trunc: weeks begin on Mondays, also before date_from.
DateTrunc(groupBy, day) ==
    CASE groupBy = "day" -> day
      [] groupBy = "week" -> day - (day % WeekDays)
      [] groupBy = "month" -> FirstOfMonth(day)

\* slip: the date of the purchase in UTC
BucketOfUtc(p, groupBy, r) == DateTrunc(groupBy, Day(rows[r].at))

Bucket(p, groupBy, r) ==
    DateTrunc(groupBy, Day(Wall(p.zone, rows[r].at)))

\* generate_series from the bucket of the first day to that of the last one.
Series(p, groupBy) ==
    {day \in DateTrunc(groupBy, p.from) .. DateTrunc(groupBy, p.to) :
        DateTrunc(groupBy, day) = day}

\* The buckets with what was bought in them, which may be nothing.
Trends(p, groupBy) ==
    [day \in Series(p, groupBy) |->
        LET found == {r \in Filters(p) : Bucket(p, groupBy, r) = day}
        IN  [ amount |-> MapThenSumSet(Total, found),
              purchases |-> Cardinality(found) ]]

-----------------------------------------------------------------------------
\* slip: what was bought at the start of a part is left out
PartOpen(start, end) ==
    {r \in DOMAIN rows : rows[r].confirmed
                         /\ start < rows[r].at /\ rows[r].at < end}

\* The receipts of a part of the comparison, which one query counts twice.
Part(start, end) ==
    {r \in DOMAIN rows : rows[r].confirmed /\ Within(rows[r].at, start, end)}

MonthComparison(c) ==
    LET totals(found) == [ amount |-> MapThenSumSet(Total, found),
                           purchases |-> Cardinality(found) ]
    IN  [ current |-> totals(Part(c.currentStart, c.currentEnd)),
          previous |-> totals(Part(c.previousStart, c.previousEnd)) ]

-----------------------------------------------------------------------------
\* Receipts as the owner confirms, reopens and deletes them between two
\* requests, see ReceiptRow.
Confirm(r) ==
    /\ r \in DOMAIN rows => ~rows[r].confirmed
    /\ \E row \in [ confirmed : {TRUE}, at : Instants,
                    store : Stores, items : ItemLists, total : Amounts ] :
        rows' = [id \in DOMAIN rows \cup {r} |->
                    IF id = r THEN row ELSE rows[id]]

Reopen(r) ==
    /\ r \in DOMAIN rows
    /\ rows[r].confirmed
    /\ rows' = [rows EXCEPT ![r].confirmed = FALSE]

Delete(r) ==
    /\ r \in DOMAIN rows
    /\ rows' = [id \in DOMAIN rows \ {r} |-> rows[id]]

\* Where there is nothing to count, a request may be any; days chosen one by
\* one are all the periods there are to count in.
Ask ==
    \/ rows = <<>> /\ Next
    \/ /\ rows # <<>> /\ Idle
       /\ \E zone \in QueryZones :
            \/ \E from, to \in Days \ {EndOfDays - 1} : GetCustom(zone, from, to)
            \/ \E now \in Datetimes : GetComparison(zone, now)
    \/ rows # <<>> /\ Answer

TotalsNext ==
    \/ /\ Idle
       /\ \E r \in Receipts : Confirm(r) \/ Reopen(r) \/ Delete(r)
       /\ UNCHANGED vars
    \/ Ask /\ UNCHANGED rows

TotalsSpec == TotalsInit /\ [][TotalsNext]_totalsVars

-----------------------------------------------------------------------------
ItemsPrice(r) ==
    MapThenSumSet(LAMBDA n : rows[r].items[n].price, DOMAIN rows[r].items)

\* Every item of the period is in exactly one category, the ones without
\* included, at its price, and every category counts receipts and not lines.
CategoriesAccountForItems ==
    period # None =>
        \A answer \in Categories(period) :
            LET counted == ToSet(answer)
            IN  /\ MapThenSumSet(LAMBDA c : c.amount, counted)
                   = MapThenSumSet(ItemsPrice, Filters(period))
                /\ \A c \in counted :
                     c.purchases = Cardinality({r \in Filters(period) :
                         \E n \in DOMAIN rows[r].items :
                             rows[r].items[n].category = c.name})

\* The same data has one answer, and a longer list begins with the shorter
\* one: pages of "top" cannot contradict each other.
TopsAreDeterminate ==
    period # None =>
        /\ Cardinality(Categories(period)) = 1
        /\ \A limit \in 1 .. MaxLimit, top \in {"amount", "frequency", "stores"} :
              LET answers(n) == IF top = "stores" THEN TopStores(period, n)
                                ELSE Products(period, n, top)
              IN  \A a \in answers(limit), b \in answers(limit + 1) :
                     IsPrefix(a, b)

TrendSum(p, groupBy, field) ==
    LET points == Trends(p, groupBy)
    IN  MapThenSumSet(LAMBDA d : points[d][field], DOMAIN points)

\* The points of a trend add up to the summary of the same period.
TrendsAccountForSummary ==
    period # None =>
        \A groupBy \in {"day", "week", "month"},
           field \in {"amount", "purchases"} :
            TrendSum(period, groupBy, field) = Summary(period)[field]

\* The summaries of the days of a period add up to that of the period.
PeriodsAddUp ==
    period # None =>
        \A middle \in period.from .. period.to - 1 :
            LET parts == { Resolve(period.zone, [from |-> period.from,
                                                 to |-> middle]),
                           Resolve(period.zone, [from |-> middle + 1,
                                                 to |-> period.to]) } \ {None}
            IN  \A field \in {"amount", "purchases"} :
                   MapThenSumSet(LAMBDA part : Summary(part)[field], parts)
                   = Summary(period)[field]

\* The months compared to date and the trend by days, which another query
\* makes from another clock, tell the same: a part has at least what its whole
\* days have, and at most the day it ends in besides.
DayTrend(zone, first, last) ==
    LET p == [ zone |-> zone, from |-> first, to |-> last,
               start |-> StartOf(zone, first), end |-> EndOf(zone, last) ]
    IN  [ field \in {"amount", "purchases"} |-> TrendSum(p, "day", field) ]

ComparisonFollowsTrend ==
    comparison # None =>
        LET zone == comparison.zone
            first == FirstOfMonth(Day(Wall(zone, comparison.now)))
            previous == FirstOfMonth(first - 1)
            passed == Day(Moment(Wall(zone, comparison.now)))
            counted == MonthComparison(comparison)
            between(from, days, totals) ==
                \A field \in {"amount", "purchases"} :
                    /\ DayTrend(zone, from, from + days - 1)[field]
                       <= totals[field]
                    /\ totals[field] <= DayTrend(zone, from, from + days)[field]
        IN  /\ between(first, passed, counted.current)
            /\ MomentExists(zone, comparison.now, previous) =>
                  IF passed < DaysInMonth(previous)
                  THEN between(previous, passed, counted.previous)
                  ELSE counted.previous = DayTrend(zone, previous, first - 1)

\* The queries of the analytics, made each in its own way of the same rows,
\* do not contradict each other or themselves.
QueriesAgree ==
    /\ CategoriesAccountForItems
    /\ TopsAreDeterminate
    /\ TrendsAccountForSummary
    /\ PeriodsAddUp
    /\ ComparisonFollowsTrend
=============================================================================
