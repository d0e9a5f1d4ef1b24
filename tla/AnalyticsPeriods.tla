-------------------------- MODULE AnalyticsPeriods --------------------------
(***************************************************************************)
(* The periods of the analytics: from a choice of days, a time zone and    *)
(* the clock to the instants that a query selects by, and the months that  *)
(* are compared to date.  And where the instants come from: the date and   *)
(* time printed on a receipt, which the parser reads in its time zone.     *)
(***************************************************************************)
EXTENDS LocalTime

CONSTANTS
    Zones,            \* the time zones a request may name
    None,
    LastShort,        \* days of last_7_days
    LastLong,         \* days of last_30_days
    MaxPeriodDays     \* ANALYTICS_MAX_PERIOD_DAYS

\* No zone turns its clocks over a midnight: at one exactly it may.
ASSUME PeriodConstants ==
    /\ Zones \subseteq ZoneInfo
    /\ \A zone \in Zones, day \in FirstDay .. EndOfDays :
          Regular(zone, Midnight(day))
    /\ LastShort \in Nat \ {0}
    /\ LastLong \in Nat \ {0}
    /\ MaxPeriodDays \in Nat \ {0}

\* What was computed, until the query is made with it or the row stored.
\* None: nothing, or it was refused.
VARIABLES
    period,
    comparison,   \* the months to compare
    purchase      \* the date and time of a receipt

vars == <<period, comparison, purchase>>

Presets == {"current_month", "previous_month", "last_7_days", "last_30_days"}

ResolvedAnalyticsPeriod ==
    [zone : Zones, from : Days, to : Days, start : Datetimes, end : Datetimes]

MonthComparisonPeriods ==
    [ zone : Zones, now : Datetimes,
      currentStart : Datetimes, currentEnd : Datetimes,
      previousStart : Datetimes, previousEnd : Datetimes ]

TypeOK ==
    /\ period = None \/ period \in ResolvedAnalyticsPeriod
    /\ comparison = None \/ comparison \in MonthComparisonPeriods
    /\ purchase = None
       \/ purchase \in [zone : Zones, wall : Datetimes, at : Int]

Idle == period = None /\ comparison = None /\ purchase = None

Init == Idle

\* Instants whose local date exists: a clock outside raises OverflowError.
Clocks(zone) == {i \in Datetimes : Wall(zone, i) \in Datetimes}

-----------------------------------------------------------------------------
MonthOf(day) == [from |-> FirstOfMonth(day),
                 to |-> FirstOfMonth(day) + DaysInMonth(day) - 1]

LastDays(today, days) == [from |-> today - (days - 1), to |-> today]

\* The days of a preset; before date.min there is no month.
DaysOf(preset, today) ==
    CASE preset = "last_7_days" -> LastDays(today, LastShort)
      [] preset = "last_30_days" -> LastDays(today, LastLong)
      [] preset = "current_month" -> MonthOf(today)
      [] preset = "previous_month" ->
            IF FirstOfMonth(today) = FirstDay
            THEN [from |-> FirstDay - 1, to |-> FirstDay - 1]
            ELSE MonthOf(FirstOfMonth(today) - 1)

\* slip: the end is the midnight its last day begins with
StartOfLast(zone, day) == Instant(zone, Midnight(day), 0)

StartOf(zone, day) == Instant(zone, Midnight(day), 0)
EndOf(zone, day) == Instant(zone, Midnight(day + 1), 0)

\* The ranges of dates and datetimes, the longest period, and a day that the
\* zone skipped altogether.
Accepted(zone, days) ==
    /\ {days.from, days.to, days.to + 1} \subseteq Days
    /\ days.to - days.from + 1 <= MaxPeriodDays
    /\ {StartOf(zone, days.from), EndOf(zone, days.to)} \subseteq Datetimes
    /\ EndOf(zone, days.to) > StartOf(zone, days.from)

Resolve(zone, days) ==
    IF Accepted(zone, days)
    THEN [ zone |-> zone, from |-> days.from, to |-> days.to,
           start |-> StartOf(zone, days.from), end |-> EndOf(zone, days.to) ]
    ELSE None

\* GET /api/analytics/summary?period=...; without any choice it is the
\* current month.
GetPreset(zone, now, preset) ==
    /\ now \in Clocks(zone)
    /\ period' = Resolve(zone, DaysOf(preset, Day(Wall(zone, now))))
    /\ UNCHANGED <<comparison, purchase>>

\* ...?date_from=...&date_to=..., which the validation orders.
GetCustom(zone, from, to) ==
    /\ from <= to
    /\ period' = Resolve(zone, [from |-> from, to |-> to])
    /\ UNCHANGED <<comparison, purchase>>

-----------------------------------------------------------------------------
\* The time that has passed in the month on a wall clock.
Moment(wall) == wall - Midnight(FirstOfMonth(Day(wall)))

\* slip: the 31st of a shorter month
UntilSameDay(zone, now) ==
    Midnight(FirstOfMonth(FirstOfMonth(Day(Wall(zone, now))) - 1))
        + Moment(Wall(zone, now))

\* The wall clock until which the previous month is counted: this moment of
\* it, or its end if it has no such day.
UntilWall(zone, now) ==
    LET today == Day(Wall(zone, now))
        first == FirstOfMonth(today)
        previous == FirstOfMonth(first - 1)
    IN  IF today - first + 1 > DaysInMonth(previous)
        THEN Midnight(first)
        ELSE Midnight(previous) + Moment(Wall(zone, now))

\* Days of a part, the last one counted if it has begun.
DaysCounted(from, until) ==
    Day(until) - from + (IF TimeOfDay(until) = 0 THEN 0 ELSE 1)

\* local.time() keeps its fold; the midnight after a short month has none.
FoldOf(zone, now) ==
    LET until == UntilWall(zone, now)
    IN  IF until = Midnight(FirstOfMonth(Day(Wall(zone, now))))
        THEN 0 ELSE Fold(zone, now)

Compare(zone, now) ==
    LET today == Day(Wall(zone, now))
        first == FirstOfMonth(today)
        previous == FirstOfMonth(first - 1)
        until == UntilWall(zone, now)
        resolved == [ zone |-> zone, now |-> now,
                      currentStart |-> StartOf(zone, first),
                      currentEnd |-> now,
                      previousStart |-> StartOf(zone, previous),
                      previousEnd |-> Instant(zone, until, FoldOf(zone, now)) ]
    IN  IF /\ first > FirstDay
           /\ DaysCounted(first, Wall(zone, now)) <= MaxPeriodDays
           /\ DaysCounted(previous, until) <= MaxPeriodDays
           /\ resolved \in MonthComparisonPeriods
        THEN resolved
        ELSE None

\* GET /api/analytics/month-comparison
GetComparison(zone, now) ==
    /\ now \in Clocks(zone)
    /\ comparison' = Compare(zone, now)
    /\ UNCHANGED <<period, purchase>>

-----------------------------------------------------------------------------
\* slip: the first of two instants is taken
Shown(zone, wall) ==
    Wall(zone, Instant(zone, wall, 0)) = wall

\* Both folds give one offset, and the way to UTC and back the same time.
Unambiguous(zone, wall) ==
    /\ Instant(zone, wall, 0) = Instant(zone, wall, 1)
    /\ Wall(zone, Instant(zone, wall, 0)) = wall

\* ReceiptParser._datetime: an ambiguous time is left without a zone and is
\* not stored.
ReadDatetime(zone, wall) ==
    /\ purchase' = IF Unambiguous(zone, wall)
                   THEN [ zone |-> zone, wall |-> wall,
                          at |-> Instant(zone, wall, 0) ]
                   ELSE None
    /\ UNCHANGED <<period, comparison>>

\* Nothing is kept from one request to the next.
Answer ==
    /\ ~Idle
    /\ period' = None /\ comparison' = None /\ purchase' = None

Next ==
    \/ Answer
    \/ /\ Idle
       /\ \E zone \in Zones :
            \/ \E now \in Datetimes, preset \in Presets :
                  GetPreset(zone, now, preset)
            \/ \E from \in Days, to \in Days \ {EndOfDays - 1} :
                  GetCustom(zone, from, to)
            \/ \E now \in Datetimes : GetComparison(zone, now)
            \/ \E wall \in Datetimes : ReadDatetime(zone, wall)

Spec == Init /\ [][Next]_vars

-----------------------------------------------------------------------------
Within(i, start, end) == start <= i /\ i < end

\* An instant is selected by a period exactly if its local date is one of
\* the days of the period, whatever the zone does to its clocks meanwhile.
PeriodIsItsDays ==
    period # None =>
        \A i \in Datetimes :
            Within(i, period.start, period.end) <=>
            Within(Wall(period.zone, i), Midnight(period.from),
                   Midnight(period.to + 1))

\* The current part is what was bought this month until now; the previous one
\* what was bought in the month before until the same moment of it, or all of
\* it if it has no such day.  Only a moment the zone passed over or had twice
\* in that month is no boundary.
MomentExists(zone, now, previous) ==
    Regular(zone, Midnight(previous)
                  + Least(Moment(Wall(zone, now)),
                          Midnight(DaysInMonth(previous))))

ComparisonIsFair ==
    comparison # None =>
        LET zone == comparison.zone
            now == comparison.now
            first == FirstOfMonth(Day(Wall(zone, now)))
            previous == FirstOfMonth(first - 1)
        IN  \A i \in Clocks(zone) :
              LET month == FirstOfMonth(Day(Wall(zone, i)))
              IN  /\ Within(i, comparison.currentStart, comparison.currentEnd)
                     <=> month = first /\ i < now
                  /\ MomentExists(zone, now, previous) =>
                     ( Within(i, comparison.previousStart,
                              comparison.previousEnd)
                       <=> /\ month = previous
                           /\ Moment(Wall(zone, i)) < Moment(Wall(zone, now)) )

\* A time that is stored from a receipt is the only instant at which the
\* clocks of the zone showed what is printed.
PrintedTimeIsUnique ==
    purchase # None =>
        \A i \in Datetimes :
            Wall(purchase.zone, i) = purchase.wall <=> i = purchase.at
=============================================================================
