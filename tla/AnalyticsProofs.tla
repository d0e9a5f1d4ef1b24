-------------------------- MODULE AnalyticsProofs --------------------------
(***************************************************************************)
(* Proofs about AnalyticsPeriods and AnalyticsTotals, for every calendar,  *)
(* every set of zones that turn their clocks over no midnight, and every   *)
(* table of receipts.                                                      *)
(*                                                                         *)
(* A request leaves what it computed from its zone, its days and its       *)
(* clock, and the table has finitely many rows; so the invariant says no   *)
(* more than that, and the work is in the lemmas about zones, about the    *)
(* calendar, about sums over groups of rows and about orders.              *)
(***************************************************************************)
EXTENDS AnalyticsTotals, FoldLemmas

-----------------------------------------------------------------------------
(***************************************************************************)
(* Zones.                                                                  *)
(***************************************************************************)

\* From the instant of a regular wall clock on, and only from then on, the
\* clocks show that time or a later one.
LEMMA RegularIsBoundary ==
    ASSUME NEW zone \in ZoneInfo, NEW wall \in Int, Regular(zone, wall),
           NEW i \in Int
    PROVE  i < Instant(zone, wall, 0) <=> Wall(zone, i) < wall
BY DEF ZoneInfo, Regular, Instant, Wall, Turn, Least, Greatest

\* The folds of a regular wall clock are one instant, but for the moment a
\* repeated hour begins with.
LEMMA RegularFolds ==
    ASSUME NEW zone \in ZoneInfo, NEW wall \in Int, Regular(zone, wall),
           wall # Turn(zone, 1), NEW fold \in {0, 1}
    PROVE  Instant(zone, wall, fold) = Instant(zone, wall, 0)
BY DEF ZoneInfo, Regular, Instant, Turn, Least, Greatest

\* A time with one offset that comes back from UTC is shown at one instant.
LEMMA UnambiguousIsUnique ==
    ASSUME NEW zone \in ZoneInfo, NEW wall \in Int, Unambiguous(zone, wall),
           NEW i \in Int
    PROVE  Wall(zone, i) = wall <=> i = Instant(zone, wall, 0)
BY DEF ZoneInfo, Unambiguous, Instant, Wall, Turn, Least, Greatest

\* Clocks and instants are numbers of ticks.
LEMMA ClockTypes ==
    ASSUME NEW zone \in ZoneInfo, NEW i \in Int, NEW fold
    PROVE  Wall(zone, i) \in Int /\ Instant(zone, i, fold) \in Int
BY DEF ZoneInfo, Wall, Instant

-----------------------------------------------------------------------------
(***************************************************************************)
(* The calendar.                                                           *)
(***************************************************************************)

\* Midnights are in the order of their days.
LEMMA Midnights ==
    ASSUME NEW a \in Int, NEW b \in Int
    PROVE  /\ Midnight(a) \in Int
           /\ Midnight(a + b) = Midnight(a) + Midnight(b)
           /\ Midnight(a - b) = Midnight(a) - Midnight(b)
           /\ a < b => Midnight(a) + DayTicks <= Midnight(b)
           /\ a <= b => Midnight(a) <= Midnight(b)
<1>1. DayTicks \in Int /\ DayTicks > 0
  BY CalendarConstants
<1>2. /\ a * DayTicks \in Int
      /\ (a + b) * DayTicks = a * DayTicks + b * DayTicks
      /\ (a - b) * DayTicks = a * DayTicks - b * DayTicks
  BY <1>1
<1>3. ASSUME NEW c \in Int, NEW d \in Int, c < d
      PROVE  c * DayTicks + DayTicks <= d * DayTicks
  <2>1. (d - c - 1) * DayTicks >= 0
    BY <1>1, <1>3
  <2>2. (d - c - 1) * DayTicks = d * DayTicks - c * DayTicks - DayTicks
    BY <1>1
  <2> QED BY <1>1, <2>1, <2>2
<1>4. a < b => Midnight(a) + DayTicks <= Midnight(b)
  BY <1>3 DEF Midnight
<1>5. a <= b => Midnight(a) <= Midnight(b)
  <2>1. CASE a = b
    BY <1>2, <2>1 DEF Midnight
  <2>2. CASE a < b
    <3>1. b * DayTicks \in Int
      BY <1>1
    <3> QED BY <1>1, <1>2, <1>4, <2>2, <3>1 DEF Midnight
  <2> QED BY <2>1, <2>2
<1> QED BY <1>2, <1>4, <1>5 DEF Midnight

\* A wall clock is on a day from its midnight to the next.
LEMMA DayBounds ==
    ASSUME NEW wall \in Int
    PROVE  /\ Day(wall) \in Int
           /\ Midnight(Day(wall)) <= wall
           /\ wall < Midnight(Day(wall) + 1)
<1>1. DayTicks \in Int /\ DayTicks > 0
  BY CalendarConstants
<1>2. /\ wall \div DayTicks \in Int
      /\ DayTicks * (wall \div DayTicks) <= wall
      /\ wall < DayTicks * (wall \div DayTicks + 1)
  BY <1>1
<1>3. \A d \in Int : DayTicks * d = d * DayTicks
  BY <1>1
<1> QED BY <1>2, <1>3 DEF Day, Midnight

\* The day of a wall clock compares with a day as the wall clock does with
\* its midnight.
LEMMA DayOrder ==
    ASSUME NEW wall \in Int, NEW day \in Int
    PROVE  wall < Midnight(day) <=> Day(wall) < day
<1>1. /\ Day(wall) \in Int /\ Midnight(Day(wall)) <= wall
      /\ wall < Midnight(Day(wall) + 1)
  BY DayBounds
<1>2. CASE Day(wall) < day
  <2>1. Day(wall) + 1 <= day
    BY <1>1, <1>2
  <2>2. PICK next \in Int : next = Day(wall) + 1
    BY <1>1
  <2>3. /\ Midnight(next) <= Midnight(day)
        /\ Midnight(day) \in Int /\ Midnight(next) \in Int
    BY <2>1, <2>2, Midnights
  <2> QED BY <1>1, <1>2, <2>2, <2>3
<1>3. CASE ~(Day(wall) < day)
  <2>1. Midnight(day) <= Midnight(Day(wall))
    BY <1>1, <1>3, Midnights
  <2>2. Midnight(day) \in Int /\ Midnight(Day(wall)) \in Int
    BY <1>1, Midnights
  <2> QED BY <1>1, <1>3, <2>1, <2>2
<1> QED BY <1>2, <1>3

\* The numbers of the months.
Months == 1 .. Len(MonthStarts) - 1

\* The months begin and end on days.
LEMMA CalendarTypes ==
    /\ Len(MonthStarts) \in Nat /\ Len(MonthStarts) > 1
    /\ \A m \in 1 .. Len(MonthStarts) : MonthStarts[m] \in Nat
    /\ \A m \in Months : /\ m \in 1 .. Len(MonthStarts)
                         /\ m + 1 \in 1 .. Len(MonthStarts)
                         /\ MonthStarts[m] < MonthStarts[m + 1]
    /\ FirstDay \in Nat /\ EndOfDays \in Nat
BY CalendarConstants DEF Months, FirstDay, EndOfDays

\* A month ends before a later one begins.
LEMMA MonthsInOrder ==
    ASSUME NEW m \in Months, NEW n \in 1 .. Len(MonthStarts), m < n
    PROVE  MonthStarts[m + 1] <= MonthStarts[n]
<1> DEFINE T == {k \in 1 .. Len(MonthStarts) :
                    m < k /\ MonthStarts[k] < MonthStarts[m + 1]}
<1>1. SUFFICES ASSUME n \in T PROVE FALSE
  BY CalendarTypes
<1>2. PICK x \in T : \A y \in T : ~(y < x)
  <2>1. T \in SUBSET Nat /\ T # {}
    BY <1>1
  <2> QED BY <2>1, LeastNumber
<1>3. x # m + 1
  BY CalendarTypes
<1>4. x - 1 \in Months /\ m < x - 1
  BY <1>3, CalendarTypes DEF Months
<1>5. MonthStarts[x - 1] < MonthStarts[x]
  BY <1>4, CalendarTypes
<1>6. x - 1 \in T
  BY <1>4, <1>5, CalendarTypes
<1> QED BY <1>2, <1>6

\* Every day is in a month.
LEMMA DayHasMonth ==
    ASSUME NEW day \in Days
    PROVE  \E m \in Months : MonthStarts[m] <= day /\ day < MonthStarts[m + 1]
<1> DEFINE T == {k \in 1 .. Len(MonthStarts) : day < MonthStarts[k]}
<1>1. day \in Int /\ MonthStarts[1] <= day
      /\ day < MonthStarts[Len(MonthStarts)]
  BY CalendarTypes DEF Days, FirstDay, EndOfDays
<1>2. Len(MonthStarts) \in T
  BY <1>1, CalendarTypes
<1>3. PICK x \in T : \A y \in T : ~(y < x)
  <2>1. T \in SUBSET Nat /\ T # {}
    BY <1>2
  <2> QED BY <2>1, LeastNumber
<1>4. x # 1
  BY <1>1, CalendarTypes
<1>5. x - 1 \in Months /\ x - 1 \notin T
  BY <1>3, <1>4, CalendarTypes DEF Months
<1>6. MonthStarts[x - 1] <= day /\ day < MonthStarts[(x - 1) + 1]
  BY <1>1, <1>5, CalendarTypes
<1> QED BY <1>5, <1>6

\* The first of a month is on or before its days, and its number of days
\* leads to the next first.
LEMMA MonthBounds ==
    ASSUME NEW day \in Days
    PROVE  /\ FirstOfMonth(day) \in Nat /\ DaysInMonth(day) \in Int
           /\ FirstOfMonth(day) <= day
           /\ day < FirstOfMonth(day) + DaysInMonth(day)
           /\ FirstDay <= FirstOfMonth(day)
           /\ FirstOfMonth(day) + DaysInMonth(day) <= EndOfDays
<1> DEFINE m == Month(day)
<1>1. /\ m \in Months
      /\ MonthStarts[m] <= day /\ day < MonthStarts[m + 1]
  BY DayHasMonth DEF Month, Months
<1> HIDE DEF m
<1>2. MonthStarts[m] \in Nat /\ MonthStarts[m + 1] \in Nat
  BY <1>1, CalendarTypes
<1>3. FirstDay <= MonthStarts[m]
  <2>1. CASE m = 1
    BY <1>2, <2>1 DEF FirstDay
  <2>2. CASE m # 1
    <3>1. 1 \in Months /\ 1 < m
      BY <1>1, <2>2, CalendarTypes DEF Months
    <3>2. MonthStarts[1 + 1] <= MonthStarts[m]
      BY <1>1, <3>1, MonthsInOrder, CalendarTypes
    <3> QED BY <1>2, <3>1, <3>2, CalendarTypes DEF FirstDay
  <2> QED BY <2>1, <2>2
<1>4. MonthStarts[m + 1] <= EndOfDays
  <2>1. Len(MonthStarts) \in 1 .. Len(MonthStarts) /\ m < Len(MonthStarts)
    BY <1>1, CalendarTypes DEF Months
  <2> QED BY <1>1, <2>1, MonthsInOrder DEF EndOfDays
<1> QED BY <1>1, <1>2, <1>3, <1>4, CalendarTypes
        DEF FirstOfMonth, DaysInMonth, m

\* Two days are in one month exactly if one is among the days of the month of
\* the other.
LEMMA SameMonth ==
    ASSUME NEW a \in Days, NEW b \in Days
    PROVE  FirstOfMonth(a) = FirstOfMonth(b)
           <=> /\ FirstOfMonth(a) <= b
               /\ b < FirstOfMonth(a) + DaysInMonth(a)
<1> DEFINE m == Month(a)
           n == Month(b)
<1>1. /\ m \in Months /\ MonthStarts[m] <= a /\ a < MonthStarts[m + 1]
      /\ n \in Months /\ MonthStarts[n] <= b /\ b < MonthStarts[n + 1]
  BY DayHasMonth DEF Month, Months
<1> HIDE DEF m, n
<1>2. /\ MonthStarts[m] \in Nat /\ MonthStarts[m + 1] \in Nat
      /\ MonthStarts[n] \in Nat /\ MonthStarts[n + 1] \in Nat
      /\ a \in Int /\ b \in Int /\ m \in Int /\ n \in Int
  BY <1>1, CalendarTypes DEF Days, Months
<1>3. CASE m = n
  BY <1>1, <1>2, <1>3 DEF FirstOfMonth, DaysInMonth, m, n
<1>4. CASE m < n
  <2>1. MonthStarts[m + 1] <= MonthStarts[n]
    BY <1>1, <1>4, MonthsInOrder, CalendarTypes
  <2> QED BY <1>1, <1>2, <2>1 DEF FirstOfMonth, DaysInMonth, m, n
<1>5. CASE n < m
  <2>1. MonthStarts[n + 1] <= MonthStarts[m]
    BY <1>1, <1>5, MonthsInOrder, CalendarTypes
  <2> QED BY <1>1, <1>2, <2>1 DEF FirstOfMonth, DaysInMonth, m, n
<1> QED BY <1>2, <1>3, <1>4, <1>5

\* The month of a day begins on a day of its own, and the month before it ends
\* where it begins.
LEMMA MonthBefore ==
    ASSUME NEW day \in Days, FirstOfMonth(day) > FirstDay
    PROVE  LET first == FirstOfMonth(day)
               previous == FirstOfMonth(first - 1)
           IN  /\ first \in Days /\ first - 1 \in Days /\ previous \in Days
               /\ FirstOfMonth(first) = first
               /\ DaysInMonth(first) = DaysInMonth(day)
               /\ FirstOfMonth(previous) = previous
               /\ previous + DaysInMonth(previous) = first
<1> DEFINE m == Month(day)
           first == FirstOfMonth(day)
           n == Month(first - 1)
           previous == FirstOfMonth(first - 1)
<1>1. m \in Months /\ first = MonthStarts[m]
  BY DayHasMonth DEF Month, Months, FirstOfMonth
<1>2. /\ first \in Nat /\ first <= day /\ FirstDay <= first
      /\ day < first + DaysInMonth(day) /\ DaysInMonth(day) \in Int
      /\ day \in Int /\ day < EndOfDays
  BY MonthBounds, CalendarTypes DEF Days
<1>3. first \in Days /\ first - 1 \in Days
  BY <1>2, CalendarTypes DEF Days
<1>4. FirstOfMonth(first) = first
  BY <1>2, <1>3, SameMonth
<1>5. /\ n \in Months /\ previous = MonthStarts[n]
      /\ MonthStarts[n] <= first - 1 /\ first - 1 < MonthStarts[n + 1]
  BY <1>3, DayHasMonth DEF Month, Months, FirstOfMonth
<1>6. /\ previous \in Nat /\ previous <= first - 1 /\ FirstDay <= previous
      /\ DaysInMonth(first - 1) \in Int
      /\ first - 1 < previous + DaysInMonth(first - 1)
  BY <1>3, MonthBounds
<1>7. previous \in Days
  BY <1>2, <1>6, CalendarTypes DEF Days
<1>8. FirstOfMonth(previous) = previous
  <2>1. FirstOfMonth(first - 1) = FirstOfMonth(previous)
        <=> /\ FirstOfMonth(first - 1) <= previous
            /\ previous < FirstOfMonth(first - 1) + DaysInMonth(first - 1)
    BY <1>3, <1>7, SameMonth
  <2> HIDE DEF first
  <2>2. first \in Int
    BY <1>2
  <2> QED BY <1>6, <2>1, <2>2
\* One number for one first.
<1>9. ASSUME NEW a \in Days, NEW b \in Days, FirstOfMonth(a) = FirstOfMonth(b)
      PROVE  DaysInMonth(a) = DaysInMonth(b)
  <2> DEFINE k == Month(a)
             l == Month(b)
  <2>1. k \in Months /\ l \in Months /\ MonthStarts[k] = MonthStarts[l]
    BY <1>9, DayHasMonth DEF Month, Months, FirstOfMonth
  <2> HIDE DEF k, l
  <2>2. /\ k \in Int /\ l \in Int
        /\ k \in 1 .. Len(MonthStarts) /\ l \in 1 .. Len(MonthStarts)
        /\ MonthStarts[k] \in Nat /\ MonthStarts[k + 1] \in Nat
        /\ MonthStarts[l] \in Nat /\ MonthStarts[l + 1] \in Nat
        /\ MonthStarts[k] < MonthStarts[k + 1]
        /\ MonthStarts[l] < MonthStarts[l + 1]
    BY <2>1, CalendarTypes
  <2>3. k < l => MonthStarts[k + 1] <= MonthStarts[l]
    BY <2>1, <2>2, MonthsInOrder
  <2>4. l < k => MonthStarts[l + 1] <= MonthStarts[k]
    BY <2>1, <2>2, MonthsInOrder
  <2>5. k = l
    BY <2>1, <2>2, <2>3, <2>4
  <2> QED BY <2>5 DEF DaysInMonth, k, l
<1>10. DaysInMonth(first) = DaysInMonth(day)
  BY <1>3, <1>4, <1>9
<1>11. DaysInMonth(previous) = DaysInMonth(first - 1)
  BY <1>3, <1>7, <1>8, <1>9
<1>12. previous + DaysInMonth(first - 1) = first
  <2>1. previous + DaysInMonth(first - 1) = MonthStarts[n + 1]
    BY <1>5, CalendarTypes DEF DaysInMonth, FirstOfMonth
  <2> HIDE DEF m, n, first, previous
  <2>2. /\ m \in Int /\ n \in Int /\ m \in 1 .. Len(MonthStarts)
        /\ MonthStarts[n] \in Nat /\ MonthStarts[n + 1] \in Nat
        /\ MonthStarts[m] \in Nat /\ n + 1 \in 1 .. Len(MonthStarts)
    BY <1>1, <1>5, CalendarTypes
  <2>3. n < m
    <3>1. SUFFICES ASSUME m <= n PROVE FALSE
      BY <2>2
    <3>2. m < n => MonthStarts[m + 1] <= MonthStarts[n]
      BY <1>1, <1>5, MonthsInOrder, CalendarTypes
    <3>3. MonthStarts[m] < MonthStarts[m + 1] /\ MonthStarts[m + 1] \in Nat
      BY <1>1, CalendarTypes
    <3>4. first <= MonthStarts[n]
      <4>1. CASE m = n
        BY <1>1, <2>2, <4>1
      <4>2. CASE m < n
        BY <1>1, <2>2, <3>2, <3>3, <4>2
      <4> QED BY <2>2, <3>1, <4>1, <4>2
    <3> QED BY <1>2, <1>5, <2>2, <3>4
  <2>4. MonthStarts[n + 1] <= MonthStarts[m]
    BY <1>5, <2>2, <2>3, MonthsInOrder
  <2> QED BY <1>1, <1>2, <1>5, <2>1, <2>2, <2>4
<1> QED BY <1>3, <1>4, <1>7, <1>8, <1>10, <1>11, <1>12

-----------------------------------------------------------------------------
(***************************************************************************)
(* Zones and the calendar together.                                        *)
(***************************************************************************)

\* A clock shows a day of the calendar.
LEMMA ClockDay ==
    ASSUME NEW zone \in Zones, NEW i \in Clocks(zone)
    PROVE  /\ zone \in ZoneInfo
           /\ i \in Int /\ Wall(zone, i) \in Int
           /\ Day(Wall(zone, i)) \in Days
<1>1. /\ FirstDay \in Int /\ EndOfDays \in Int
      /\ Midnight(FirstDay) \in Int /\ Midnight(EndOfDays) \in Int
  <2>1. FirstDay \in Int /\ EndOfDays \in Int
    BY CalendarTypes
  <2> QED BY <2>1, Midnights
<1>2. /\ i \in Int /\ Wall(zone, i) \in Int
      /\ Midnight(FirstDay) <= Wall(zone, i)
      /\ Wall(zone, i) < Midnight(EndOfDays)
  BY <1>1 DEF Clocks, Datetimes
<1>3. /\ Day(Wall(zone, i)) \in Int
      /\ Wall(zone, i) < Midnight(FirstDay) <=> Day(Wall(zone, i)) < FirstDay
      /\ Wall(zone, i) < Midnight(EndOfDays) <=> Day(Wall(zone, i)) < EndOfDays
  BY <1>1, <1>2, DayBounds, DayOrder
<1>4. zone \in ZoneInfo
  BY PeriodConstants
<1> QED BY <1>1, <1>2, <1>3, <1>4 DEF Days

\* From the instant of a midnight on, and only from then on, the clocks show
\* that day or a later one.
LEMMA MidnightIsBoundary ==
    ASSUME NEW zone \in Zones, NEW day \in FirstDay .. EndOfDays, NEW i \in Int
    PROVE  /\ StartOf(zone, day) \in Int
           /\ i < StartOf(zone, day) <=> Wall(zone, i) < Midnight(day)
           /\ i < StartOf(zone, day) <=> Day(Wall(zone, i)) < day
<1>1. zone \in ZoneInfo /\ Regular(zone, Midnight(day))
  BY PeriodConstants
<1>2. day \in Int /\ Midnight(day) \in Int
  BY CalendarTypes, Midnights
<1>3. Wall(zone, i) \in Int /\ StartOf(zone, day) \in Int
  BY <1>1, <1>2, ClockTypes DEF StartOf
<1>4. i < StartOf(zone, day) <=> Wall(zone, i) < Midnight(day)
  BY <1>1, <1>2, RegularIsBoundary DEF StartOf
<1>5. Wall(zone, i) < Midnight(day) <=> Day(Wall(zone, i)) < day
  BY <1>2, <1>3, DayOrder
<1> QED BY <1>3, <1>4, <1>5

\* If a moment of the previous month is the one a repeated hour begins with,
\* now is in that hour only if the first of the month were too.
LEMMA FoldKept ==
    ASSUME NEW zone \in ZoneInfo, NEW now \in Int, NEW midnight \in Int,
           NEW until \in Int,
           Regular(zone, midnight), Regular(zone, until),
           until < midnight, midnight <= Wall(zone, now)
    PROVE  Instant(zone, until, Fold(zone, now)) = Instant(zone, until, 0)
<1>1. Fold(zone, now) \in {0, 1}
  BY DEF Fold
<1>2. CASE until # Turn(zone, 1)
  BY <1>1, <1>2, RegularFolds
<1>3. CASE until = Turn(zone, 1)
  <2>1. Fold(zone, now) # 1
    BY <1>3 DEF ZoneInfo, Regular, Wall, Turn, Fold, Least, Greatest
  <2> QED BY <1>1, <2>1
<1> QED BY <1>2, <1>3

\* The part of this month until now.
LEMMA CurrentPart ==
    ASSUME NEW zone \in Zones, NEW now \in Clocks(zone), NEW i \in Clocks(zone),
           NEW first, first = FirstOfMonth(Day(Wall(zone, now)))
    PROVE  Within(i, StartOf(zone, first), now)
           <=> FirstOfMonth(Day(Wall(zone, i))) = first /\ i < now
<1> DEFINE today == Day(Wall(zone, now))
           day == Day(Wall(zone, i))
<1>1. today \in Days /\ day \in Days /\ i \in Int /\ now \in Int
  BY ClockDay
<1> HIDE DEF today, day
<1>2. PICK next : next = first + DaysInMonth(today)
  OBVIOUS
<1>3. /\ first = FirstOfMonth(today)
      /\ first \in Nat /\ DaysInMonth(today) \in Int
      /\ first <= today /\ today < next
      /\ FirstDay <= first /\ next <= EndOfDays
  BY <1>1, <1>2, MonthBounds DEF today
<1>4. FirstOfMonth(day) = first <=> first <= day /\ day < next
  BY <1>1, <1>2, <1>3, SameMonth
<1>5. /\ today \in Int /\ day \in Int /\ next \in Int
      /\ first \in FirstDay .. EndOfDays /\ next \in FirstDay .. EndOfDays
  BY <1>1, <1>2, <1>3, CalendarTypes DEF Days
<1>6. /\ StartOf(zone, first) \in Int
      /\ i < StartOf(zone, first) <=> day < first
  BY <1>1, <1>5, MidnightIsBoundary DEF day
<1>7. /\ StartOf(zone, next) \in Int
      /\ i < StartOf(zone, next) <=> day < next
      /\ now < StartOf(zone, next) <=> today < next
  BY <1>1, <1>5, MidnightIsBoundary DEF day, today
<1>8. Within(i, StartOf(zone, first), now) <=> FirstOfMonth(day) = first /\ i < now
  BY <1>1, <1>3, <1>4, <1>5, <1>6, <1>7 DEF Within
<1> QED BY <1>8 DEF day

\* The part of the month before ends at the same moment of it, or with it.
LEMMA PreviousPartEnds ==
    ASSUME NEW zone \in Zones, NEW now \in Clocks(zone), NEW i \in Int,
           NEW first, first = FirstOfMonth(Day(Wall(zone, now))),
           NEW previous, previous = FirstOfMonth(first - 1),
           first > FirstDay,
           MomentExists(zone, now, previous),
           NEW end, end = Instant(zone, UntilWall(zone, now), FoldOf(zone, now)),
           NEW moment, moment = Moment(Wall(zone, now))
    PROVE  /\ moment \in Int /\ moment = Wall(zone, now) - Midnight(first)
           /\ end \in Int
           /\ i < end <=> /\ Wall(zone, i) < Midnight(first)
                          /\ Wall(zone, i) < Midnight(previous) + moment
<1> DEFINE today == Day(Wall(zone, now))
<1>1. /\ zone \in ZoneInfo
      /\ today \in Days /\ now \in Int
      /\ Wall(zone, now) \in Int /\ Wall(zone, i) \in Int
  BY ClockDay, ClockTypes
<1>2. /\ Midnight(today) <= Wall(zone, now)
      /\ Wall(zone, now) < Midnight(today + 1)
  BY <1>1, DayBounds
<1> HIDE DEF today
<1>3. PICK length : length = DaysInMonth(previous)
  OBVIOUS
<1>4. /\ first = FirstOfMonth(today)
      /\ first \in Days /\ previous \in Days
      /\ previous + length = first
  BY <1>1, <1>3, MonthBefore DEF today
<1>5. /\ first \in Int /\ previous \in Int /\ today \in Int
      /\ length \in Int /\ first <= today
  BY <1>1, <1>3, <1>4, MonthBounds DEF Days
<1>6. Regular(zone, Midnight(first))
  <2>1. first \in FirstDay .. EndOfDays
    BY <1>4, CalendarTypes DEF Days
  <2> QED BY <2>1, PeriodConstants
<1>7. /\ Midnight(first) \in Int /\ Midnight(previous) \in Int
      /\ Midnight(today) \in Int /\ Midnight(length) \in Int
      /\ Midnight(previous) + Midnight(length) = Midnight(first)
  BY <1>4, <1>5, Midnights
<1>8. moment = Wall(zone, now) - Midnight(first) /\ moment \in Int
  BY <1>1, <1>4, <1>7 DEF Moment, today
<1>9. Midnight(first) <= Wall(zone, now)
  <2>1. Midnight(first) <= Midnight(today)
    BY <1>5, Midnights
  <2> QED BY <1>1, <1>2, <1>7, <2>1
<1>10. PICK until : until = UntilWall(zone, now)
  OBVIOUS
<1>11. CASE today - first + 1 > length
  <2>1. until = Midnight(first) /\ FoldOf(zone, now) = 0
    BY <1>3, <1>10, <1>11 DEF UntilWall, FoldOf, today
  <2>2. /\ end \in Int
        /\ i < end <=> Wall(zone, i) < Midnight(first)
    BY <1>1, <1>6, <1>7, <1>10, <2>1, ClockTypes, RegularIsBoundary
  <2>3. Midnight(length) <= moment
    <3>1. PICK last \in Int : last = first + length
      BY <1>5
    <3>2. last <= today
      BY <1>5, <1>11, <3>1
    <3>3. Midnight(last) <= Midnight(today)
      BY <1>5, <3>1, <3>2, Midnights
    <3>4. Midnight(last) = Midnight(first) + Midnight(length)
      BY <1>5, <3>1, Midnights
    <3> QED BY <1>1, <1>2, <1>7, <1>8, <3>3, <3>4
  <2> QED BY <1>1, <1>7, <1>8, <2>2, <2>3
<1>12. CASE ~(today - first + 1 > length)
  <2>1. until = Midnight(previous) + moment
    BY <1>3, <1>10, <1>12 DEF UntilWall, today
  <2>2. moment < Midnight(length)
    <3>1. PICK last \in Int, next \in Int :
             last = first + length /\ next = today + 1
      BY <1>5
    <3>2. next <= last
      BY <1>5, <1>12, <3>1
    <3>3. Midnight(next) <= Midnight(last)
      BY <3>1, <3>2, Midnights
    <3>4. /\ Midnight(last) = Midnight(first) + Midnight(length)
          /\ Midnight(next) \in Int
      BY <1>5, <3>1, Midnights
    <3> QED BY <1>1, <1>2, <1>7, <1>8, <3>1, <3>3, <3>4
  <2>3. until \in Int /\ until < Midnight(first)
    BY <1>7, <1>8, <2>1, <2>2
  <2>4. Regular(zone, until)
    BY <1>3, <2>1, <2>2 DEF MomentExists, Least
  <2>5. FoldOf(zone, now) = Fold(zone, now)
    BY <1>4, <1>7, <1>10, <2>3 DEF FoldOf, today
  <2>6. Instant(zone, until, FoldOf(zone, now)) = Instant(zone, until, 0)
    BY <1>1, <1>7, <1>6, <1>9, <2>3, <2>4, <2>5, FoldKept
  <2>7. /\ end \in Int
        /\ i < end <=> Wall(zone, i) < until
    BY <1>1, <1>10, <2>3, <2>4, <2>6, ClockTypes, RegularIsBoundary
  <2> QED BY <1>1, <1>7, <1>8, <2>1, <2>3, <2>7
<1> QED BY <1>11, <1>12

\* The part of the month before until the same moment of it.
LEMMA PreviousPart ==
    ASSUME NEW zone \in Zones, NEW now \in Clocks(zone), NEW i \in Clocks(zone),
           NEW first, first = FirstOfMonth(Day(Wall(zone, now))),
           NEW previous, previous = FirstOfMonth(first - 1),
           first > FirstDay,
           MomentExists(zone, now, previous)
    PROVE  Within(i, StartOf(zone, previous),
                  Instant(zone, UntilWall(zone, now), FoldOf(zone, now)))
           <=> /\ FirstOfMonth(Day(Wall(zone, i))) = previous
               /\ Moment(Wall(zone, i)) < Moment(Wall(zone, now))
<1> DEFINE today == Day(Wall(zone, now))
           day == Day(Wall(zone, i))
<1>1. /\ today \in Days /\ day \in Days /\ i \in Int /\ Wall(zone, i) \in Int
  BY ClockDay
<1> HIDE DEF today, day
<1>2. /\ first = FirstOfMonth(today)
      /\ first \in Days /\ previous \in Days
      /\ FirstOfMonth(previous) = previous
      /\ previous + DaysInMonth(previous) = first
  BY <1>1, MonthBefore DEF today
<1>3. first \in Int /\ previous \in Int /\ day \in Int
  BY <1>1, <1>2 DEF Days
<1>4. FirstOfMonth(day) = previous <=> previous <= day /\ day < first
  BY <1>1, <1>2, SameMonth
<1>5. /\ StartOf(zone, previous) \in Int
      /\ i < StartOf(zone, previous) <=> day < previous
  <2>1. previous \in FirstDay .. EndOfDays
    BY <1>2, CalendarTypes DEF Days
  <2> QED BY <1>1, <2>1, MidnightIsBoundary DEF day
<1>6. /\ Midnight(previous) \in Int
      /\ Wall(zone, i) < Midnight(first) <=> day < first
  BY <1>1, <1>3, Midnights, DayOrder DEF day
<1>7. PICK moment, end :
         /\ moment = Moment(Wall(zone, now))
         /\ end = Instant(zone, UntilWall(zone, now), FoldOf(zone, now))
  OBVIOUS
<1>8. /\ moment \in Int /\ end \in Int
      /\ i < end <=> /\ Wall(zone, i) < Midnight(first)
                     /\ Wall(zone, i) < Midnight(previous) + moment
  BY <1>1, <1>7, PreviousPartEnds
<1>9. FirstOfMonth(day) = previous =>
         Moment(Wall(zone, i)) = Wall(zone, i) - Midnight(previous)
  BY DEF Moment, day
<1>10. Within(i, StartOf(zone, previous), end)
       <=> FirstOfMonth(day) = previous /\ Moment(Wall(zone, i)) < moment
  BY <1>1, <1>3, <1>4, <1>5, <1>6, <1>8, <1>9 DEF Within
<1> QED BY <1>7, <1>10 DEF day

-----------------------------------------------------------------------------
(***************************************************************************)
(* The invariant: what is held was computed from the zone, the days and    *)
(* the clock it is held with.                                              *)
(***************************************************************************)
PeriodIsResolved ==
    period # None =>
        /\ period.zone \in Zones
        /\ Accepted(period.zone, [from |-> period.from, to |-> period.to])
        /\ period = [ zone |-> period.zone,
                      from |-> period.from, to |-> period.to,
                      start |-> StartOf(period.zone, period.from),
                      end |-> EndOf(period.zone, period.to) ]

ComparisonIsComputed ==
    comparison # None =>
        /\ comparison.zone \in Zones
        /\ comparison.now \in Clocks(comparison.zone)
        /\ comparison = Compare(comparison.zone, comparison.now)

PurchaseIsRead ==
    purchase # None =>
        /\ purchase.zone \in Zones /\ purchase.wall \in Datetimes
        /\ Unambiguous(purchase.zone, purchase.wall)
        /\ purchase = [ zone |-> purchase.zone, wall |-> purchase.wall,
                        at |-> Instant(purchase.zone, purchase.wall, 0) ]

IInv == PeriodIsResolved /\ ComparisonIsComputed /\ PurchaseIsRead

\* GetPreset and GetCustom leave a resolved period.
LEMMA ResolveIsResolved ==
    ASSUME NEW zone \in Zones, NEW days, period' = Resolve(zone, days)
    PROVE  PeriodIsResolved'
BY DEF PeriodIsResolved, Resolve, Accepted

\* GetComparison leaves a computed comparison.
LEMMA CompareIsComputed ==
    ASSUME NEW zone \in Zones, NEW now \in Clocks(zone),
           comparison' = Compare(zone, now)
    PROVE  ComparisonIsComputed'
<1>1. ASSUME comparison' # None
      PROVE  comparison'.zone = zone /\ comparison'.now = now
  BY <1>1 DEF Compare
<1> QED BY <1>1 DEF ComparisonIsComputed

\* Every request and every answer keeps the invariant.
LEMMA Inductive ==
    ASSUME IInv, [Next]_vars
    PROVE  IInv'
<1>1. CASE UNCHANGED vars
  BY <1>1 DEF vars, IInv, PeriodIsResolved, ComparisonIsComputed,
              PurchaseIsRead
<1>2. CASE Answer
  BY <1>2 DEF Answer, IInv, PeriodIsResolved, ComparisonIsComputed,
              PurchaseIsRead
<1>3. ASSUME NEW zone \in Zones, NEW now \in Datetimes, NEW preset \in Presets,
             GetPreset(zone, now, preset)
      PROVE  IInv'
  <2>1. PeriodIsResolved'
    BY <1>3, ResolveIsResolved DEF GetPreset
  <2> QED BY <1>3, <2>1 DEF GetPreset, IInv, ComparisonIsComputed,
                            PurchaseIsRead
<1>4. ASSUME NEW zone \in Zones, NEW from \in Days,
             NEW to \in Days \ {EndOfDays - 1}, GetCustom(zone, from, to)
      PROVE  IInv'
  <2>1. PeriodIsResolved'
    BY <1>4, ResolveIsResolved DEF GetCustom
  <2> QED BY <1>4, <2>1 DEF GetCustom, IInv, ComparisonIsComputed,
                            PurchaseIsRead
<1>5. ASSUME NEW zone \in Zones, NEW now \in Datetimes, GetComparison(zone, now)
      PROVE  IInv'
  <2>1. ComparisonIsComputed'
    BY <1>5, CompareIsComputed DEF GetComparison
  <2> QED BY <1>5, <2>1 DEF GetComparison, IInv, PeriodIsResolved,
                            PurchaseIsRead
<1>6. ASSUME NEW zone \in Zones, NEW wall \in Datetimes,
             ReadDatetime(zone, wall)
      PROVE  IInv'
  <2>1. PurchaseIsRead'
    BY <1>6 DEF ReadDatetime, PurchaseIsRead
  <2> QED BY <1>6, <2>1 DEF ReadDatetime, IInv, PeriodIsResolved,
                            ComparisonIsComputed
<1> QED BY <1>1, <1>2, <1>3, <1>4, <1>5, <1>6 DEF Next

\* The invariant of the periods.
LEMMA Invariance == Spec => []IInv
<1>1. Init => IInv
  BY DEF Init, Idle, IInv, PeriodIsResolved, ComparisonIsComputed,
         PurchaseIsRead
<1>2. IInv /\ [Next]_vars => IInv'
  BY Inductive
<1> QED BY <1>1, <1>2, PTL DEF Spec

\* What is held is of its type: days and instants that Python's dates and
\* datetimes can hold.
THEOREM PeriodTypes == Spec => []TypeOK
<1>1. IInv => TypeOK
  <2>1. ASSUME PeriodIsResolved, period # None
        PROVE  period \in ResolvedAnalyticsPeriod
    BY <2>1 DEF PeriodIsResolved, Accepted, ResolvedAnalyticsPeriod
  <2>2. ASSUME ComparisonIsComputed, comparison # None
        PROVE  comparison \in MonthComparisonPeriods
    BY <2>2 DEF ComparisonIsComputed, Compare
  <2>3. ASSUME PurchaseIsRead, purchase # None
        PROVE  purchase \in [zone : Zones, wall : Datetimes, at : Int]
    <3>1. purchase.zone \in ZoneInfo /\ purchase.wall \in Int
      BY <2>3, PeriodConstants, CalendarTypes, Midnights
         DEF PurchaseIsRead, Datetimes
    <3>2. Instant(purchase.zone, purchase.wall, 0) \in Int
      BY <3>1, ClockTypes
    <3> QED BY <2>3, <3>2 DEF PurchaseIsRead
  <2> QED BY <2>1, <2>2, <2>3 DEF IInv, TypeOK
<1> QED BY <1>1, Invariance, PTL

\* Whatever the zone does to its clocks, a period selects exactly the instants
\* whose local date is one of its days (resolve_analytics_period).
THEOREM PeriodHasItsDays == Spec => []PeriodIsItsDays
<1>1. IInv => PeriodIsItsDays
  <2>1. SUFFICES ASSUME PeriodIsResolved, period # None, NEW i \in Datetimes
                 PROVE  Within(i, period.start, period.end)
                        <=> Within(Wall(period.zone, i),
                                   Midnight(period.from),
                                   Midnight(period.to + 1))
    BY DEF IInv, PeriodIsItsDays
  <2> DEFINE zone == period.zone
             from == period.from
             next == period.to + 1
  <2>2. /\ zone \in Zones /\ from \in Days /\ next \in Days
        /\ period.start = StartOf(zone, from)
        /\ period.end = StartOf(zone, next)
    BY <2>1 DEF PeriodIsResolved, Accepted, StartOf, EndOf
  <2>3. from \in FirstDay .. EndOfDays /\ next \in FirstDay .. EndOfDays
    BY <2>2, CalendarTypes DEF Days
  <2>4. i \in Int
    BY DEF Datetimes
  <2>5. Wall(zone, i) \in Int
    BY <2>2, <2>4, PeriodConstants, ClockTypes
  <2>6. Midnight(from) \in Int /\ Midnight(next) \in Int
    <3>1. from \in Int /\ next \in Int
      BY <2>3, CalendarTypes
    <3> QED BY <3>1, Midnights
  <2> HIDE DEF zone, from, next
  <2>7. /\ StartOf(zone, from) \in Int /\ StartOf(zone, next) \in Int
        /\ i < StartOf(zone, from) <=> Wall(zone, i) < Midnight(from)
        /\ i < StartOf(zone, next) <=> Wall(zone, i) < Midnight(next)
    BY <2>2, <2>3, <2>4, MidnightIsBoundary
  <2>8. Within(i, StartOf(zone, from), StartOf(zone, next))
        <=> Within(Wall(zone, i), Midnight(from), Midnight(next))
    BY <2>4, <2>5, <2>6, <2>7 DEF Within
  <2> QED BY <2>2, <2>8 DEF zone, from, next
<1> QED BY <1>1, Invariance, PTL

\* A time that is stored from a receipt is the only instant at which the clocks
\* of the zone showed what is printed (ReceiptParser._datetime).
THEOREM PrintedTimeHasOneInstant == Spec => []PrintedTimeIsUnique
<1>1. IInv => PrintedTimeIsUnique
  <2>1. SUFFICES ASSUME PurchaseIsRead, purchase # None, NEW i \in Datetimes
                 PROVE  Wall(purchase.zone, i) = purchase.wall
                        <=> i = purchase.at
    BY DEF IInv, PrintedTimeIsUnique
  <2>2. /\ purchase.zone \in ZoneInfo /\ purchase.wall \in Int /\ i \in Int
        /\ Unambiguous(purchase.zone, purchase.wall)
        /\ purchase.at = Instant(purchase.zone, purchase.wall, 0)
    BY <2>1, PeriodConstants DEF PurchaseIsRead, Datetimes
  <2> QED BY <2>2, UnambiguousIsUnique
<1> QED BY <1>1, Invariance, PTL

\* The months compared to date are what they are called: this month until now,
\* and the month before until the same moment of it or all of it
\* (resolve_month_comparison_periods).
THEOREM MonthsAreComparedFairly == Spec => []ComparisonIsFair
<1>1. IInv => ComparisonIsFair
  <2>1. SUFFICES
          ASSUME ComparisonIsComputed, comparison # None,
                 NEW zone, zone = comparison.zone,
                 NEW now, now = comparison.now,
                 NEW first, first = FirstOfMonth(Day(Wall(zone, now))),
                 NEW previous, previous = FirstOfMonth(first - 1),
                 NEW i \in Clocks(zone)
          PROVE
            /\ Within(i, comparison.currentStart, comparison.currentEnd)
               <=> FirstOfMonth(Day(Wall(zone, i))) = first /\ i < now
            /\ MomentExists(zone, now, previous) =>
               ( Within(i, comparison.previousStart, comparison.previousEnd)
                 <=> /\ FirstOfMonth(Day(Wall(zone, i))) = previous
                     /\ Moment(Wall(zone, i)) < Moment(Wall(zone, now)) )
    BY DEF IInv, ComparisonIsFair
  <2>2. zone \in Zones /\ now \in Clocks(zone) /\ comparison = Compare(zone, now)
    BY <2>1 DEF ComparisonIsComputed
  <2>3. /\ first > FirstDay
        /\ comparison.currentStart = StartOf(zone, first)
        /\ comparison.currentEnd = now
        /\ comparison.previousStart = StartOf(zone, previous)
        /\ comparison.previousEnd
           = Instant(zone, UntilWall(zone, now), FoldOf(zone, now))
    BY <2>1, <2>2 DEF Compare
  <2>4. Within(i, StartOf(zone, first), now)
        <=> FirstOfMonth(Day(Wall(zone, i))) = first /\ i < now
    BY <2>1, <2>2, CurrentPart
  <2>5. MomentExists(zone, now, previous) =>
          ( Within(i, StartOf(zone, previous),
                   Instant(zone, UntilWall(zone, now), FoldOf(zone, now)))
            <=> /\ FirstOfMonth(Day(Wall(zone, i))) = previous
                /\ Moment(Wall(zone, i)) < Moment(Wall(zone, now)) )
    BY <2>1, <2>2, <2>3, PreviousPart
  <2> QED BY <2>3, <2>4, <2>5
<1> QED BY <1>1, Invariance, PTL

\* A step of the queries is a request for a period or a comparison, or leaves
\* those alone: receipts may come and go.
THEOREM CountingAsksForPeriods == TotalsSpec => Spec
<1>1. TotalsInit => Init
  BY DEF TotalsInit
<1>2. ASSUME [TotalsNext]_totalsVars
      PROVE  [Next]_vars
  <2>1. CASE UNCHANGED totalsVars
    BY <2>1 DEF totalsVars
  <2>2. CASE UNCHANGED vars
    BY <2>2
  <2>3. CASE Ask
    BY <2>3, TotalsConstants DEF Ask, Next
  <2> QED BY <1>2, <2>1, <2>2, <2>3 DEF TotalsNext
<1> QED BY <1>1, <1>2, PTL DEF TotalsSpec, Spec

-----------------------------------------------------------------------------
(***************************************************************************)
(* The rows that are counted, and the sums the queries make of them.        *)
(***************************************************************************)

\* The table holds finitely many rows of receipts.
RowsAreRows == IsFiniteSet(DOMAIN rows) /\ \A r \in DOMAIN rows : rows[r] \in Row

\* Confirming, reopening and deleting keep the table a table.
LEMMA RowsStay ==
    ASSUME RowsAreRows, [TotalsNext]_totalsVars
    PROVE  RowsAreRows'
<1>1. CASE UNCHANGED rows
  BY <1>1 DEF RowsAreRows
<1>2. ASSUME NEW r \in Receipts, Confirm(r)
      PROVE  RowsAreRows'
  <2>1. PICK new \in Row : rows' = [id \in DOMAIN rows \cup {r} |->
                                      IF id = r THEN new ELSE rows[id]]
    BY <1>2 DEF Confirm, Row
  <2>2. DOMAIN rows' = DOMAIN rows \cup {r} /\ IsFiniteSet(DOMAIN rows \cup {r})
    BY <2>1, FS_AddElement DEF RowsAreRows
  <2> QED BY <2>1, <2>2 DEF RowsAreRows
<1>3. ASSUME NEW r \in Receipts, Reopen(r)
      PROVE  RowsAreRows'
  <2>1. /\ r \in DOMAIN rows
        /\ rows' = [rows EXCEPT ![r].confirmed = FALSE]
    BY <1>3 DEF Reopen
  <2>2. DOMAIN rows' = DOMAIN rows
    BY <2>1
  <2>3. rows'[r] \in Row /\ \A id \in DOMAIN rows : id # r => rows'[id] = rows[id]
    BY <2>1 DEF RowsAreRows, Row
  <2> QED BY <2>2, <2>3 DEF RowsAreRows
<1>4. ASSUME NEW r \in Receipts, Delete(r)
      PROVE  RowsAreRows'
  <2>1. rows' = [id \in DOMAIN rows \ {r} |-> rows[id]]
    BY <1>4 DEF Delete
  <2>2. DOMAIN rows' = DOMAIN rows \ {r} /\ IsFiniteSet(DOMAIN rows \ {r})
    BY <2>1, FS_RemoveElement DEF RowsAreRows
  <2> QED BY <2>1, <2>2 DEF RowsAreRows
<1> QED BY <1>1, <1>2, <1>3, <1>4 DEF TotalsNext, totalsVars

\* The invariant of the totals.
LEMMA TotalsInvariance == TotalsSpec => [](IInv /\ RowsAreRows)
<1>1. TotalsInit => RowsAreRows
  <2>1. rows = <<>> => DOMAIN rows = {}
    OBVIOUS
  <2> QED BY <2>1, FS_EmptySet DEF TotalsInit, RowsAreRows
<1>2. RowsAreRows /\ [TotalsNext]_totalsVars => RowsAreRows'
  BY RowsStay
<1> QED BY <1>1, <1>2, CountingAsksForPeriods, Invariance, PTL DEF TotalsSpec

\* What is known of a row.
LEMMA RowTypes ==
    ASSUME RowsAreRows, NEW r \in DOMAIN rows
    PROVE  /\ rows[r].at \in Datetimes /\ rows[r].at \in Int
           /\ rows[r].total \in Nat
           /\ rows[r].store \in Nat \cup {None}
           /\ rows[r].items \in Seq(Item)
<1>1. rows[r] \in Row
  BY DEF RowsAreRows
<1>2. /\ rows[r].at \in Instants /\ rows[r].total \in Amounts
      /\ rows[r].store \in Stores /\ rows[r].items \in ItemLists
  BY <1>1 DEF Row
<1>3. rows[r].at \in Datetimes
  BY <1>2, TotalsConstants
<1>4. rows[r].at \in Int
  BY <1>3 DEF Datetimes
<1>5. /\ rows[r].total \in Nat /\ rows[r].store \in Nat \cup {None}
      /\ rows[r].items \in Seq(Item)
  BY <1>2, TotalsConstants
<1> QED BY <1>3, <1>4, <1>5

\* Selected receipts are finitely many, each with a total.
LEMMA FoundAreRows ==
    ASSUME RowsAreRows, NEW S \in SUBSET DOMAIN rows
    PROVE  /\ IsFiniteSet(S) /\ Cardinality(S) \in Nat
           /\ \A r \in S : rows[r].total \in Nat
<1>1. IsFiniteSet(S)
  BY FS_Subset DEF RowsAreRows
<1> QED BY <1>1, FS_CardinalityType, RowTypes

-----------------------------------------------------------------------------
\* The sums of the queries are those of FoldLemmas.
LEMMA SumOfTotals ==
    ASSUME NEW S, IsFiniteSet(S), \A r \in S : rows[r].total \in Int
    PROVE  MapThenSumSet(Total, S) = SumOver([r \in S |-> rows[r].total], S)
<1> DEFINE F == [r \in S |-> rows[r].total]
           Of(g) == g = [s \in SUBSET S |->
                           IF s = {} THEN 0
                           ELSE Total(Choice(s)) + g[s \ {Choice(s)}]]
           h == CHOOSE g : Of(g)
<1>1. ASSUME NEW g
      PROVE  Of(g) <=> Folding(F, S, g)
  BY ChoiceTypes DEF Folding, Total
<1>2. MapThenSumSet(Total, S) = h[S]
  BY DEF MapThenSumSet, MapThenFoldSet, Choice
<1>3. \A r \in S : F[r] \in Int
  OBVIOUS
<1> HIDE DEF F, Of
<1>4. (\E g : Folding(F, S, g)) => Folding(F, S, h)
  BY <1>1
<1> QED BY <1>2, <1>3, <1>4, SumIsChosen DEF F

\* A sum over the points of a trend.
LEMMA SumOfField ==
    ASSUME NEW S, IsFiniteSet(S), NEW list, NEW field,
           \A d \in S : list[d][field] \in Int
    PROVE  MapThenSumSet(LAMBDA d : list[d][field], S)
           = SumOver([d \in S |-> list[d][field]], S)
<1> DEFINE F == [d \in S |-> list[d][field]]
           Of(g) == g = [s \in SUBSET S |->
                           IF s = {} THEN 0
                           ELSE list[Choice(s)][field] + g[s \ {Choice(s)}]]
           h == CHOOSE g : Of(g)
<1>1. ASSUME NEW g
      PROVE  Of(g) <=> Folding(F, S, g)
  BY ChoiceTypes DEF Folding
<1>2. MapThenSumSet(LAMBDA d : list[d][field], S) = h[S]
  BY DEF MapThenSumSet, MapThenFoldSet, Choice
<1>3. \A d \in S : F[d] \in Int
  OBVIOUS
<1> HIDE DEF F, Of
<1>4. (\E g : Folding(F, S, g)) => Folding(F, S, h)
  BY <1>1
<1> QED BY <1>2, <1>3, <1>4, SumIsChosen DEF F

\* What was bought in some receipts.
Bought(S) == [amount |-> MapThenSumSet(Total, S), purchases |-> Cardinality(S)]

\* What was bought is a sum of totals and a number of receipts.
LEMMA BoughtTypes ==
    ASSUME RowsAreRows, NEW S \in SUBSET DOMAIN rows
    PROVE  /\ Bought(S).amount \in Int /\ Bought(S).purchases \in Int
           /\ Bought(S).amount = SumOver([r \in DOMAIN rows |-> rows[r].total], S)
<1>1. IsFiniteSet(S) /\ Cardinality(S) \in Nat /\ \A r \in S : rows[r].total \in Int
  BY FoundAreRows
<1> DEFINE F == [r \in S |-> rows[r].total]
           G == [r \in DOMAIN rows |-> rows[r].total]
<1>2. \A r \in S : F[r] \in Int /\ F[r] = G[r]
  BY <1>1
<1> HIDE DEF F, G
<1>3. SumOver(F, S) \in Int /\ SumOver(F, S) = SumOver(G, S)
  BY <1>1, <1>2, SumType, SumEqual
<1>4. MapThenSumSet(Total, S) = SumOver(F, S)
  BY <1>1, SumOfTotals DEF F
<1> QED BY <1>1, <1>3, <1>4 DEF Bought, G

\* More receipts, no less bought.
LEMMA BoughtMore ==
    ASSUME RowsAreRows, NEW T \in SUBSET DOMAIN rows, NEW S \in SUBSET T,
           NEW field \in {"amount", "purchases"}
    PROVE  Bought(S)[field] <= Bought(T)[field]
<1> DEFINE F == [r \in DOMAIN rows |-> rows[r].total]
<1>1. IsFiniteSet(T) /\ \A r \in T : F[r] \in Nat
  BY FoundAreRows
<1>2. Bought(S).amount = SumOver(F, S) /\ Bought(T).amount = SumOver(F, T)
  BY BoughtTypes
<1> HIDE DEF F
<1>3. Bought(S).amount <= Bought(T).amount
  BY <1>1, <1>2, SumOfMore
<1>4. Bought(S).purchases <= Bought(T).purchases
  BY <1>1, FS_Subset DEF Bought
<1> QED BY <1>3, <1>4

\* Receipts selected in two parts tell in sum what they tell together.
LEMMA BoughtInTwo ==
    ASSUME RowsAreRows, NEW S \in SUBSET DOMAIN rows, NEW T \in SUBSET DOMAIN rows,
           S \intersect T = {}, NEW field \in {"amount", "purchases"}
    PROVE  Bought(S \union T)[field] = Bought(S)[field] + Bought(T)[field]
<1> DEFINE F == [r \in DOMAIN rows |-> rows[r].total]
<1>1. IsFiniteSet(S) /\ IsFiniteSet(T) /\ \A r \in S \union T : F[r] \in Int
  BY FoundAreRows
<1>2. S \union T \in SUBSET DOMAIN rows
  OBVIOUS
<1>3. /\ Bought(S).amount = SumOver(F, S) /\ Bought(T).amount = SumOver(F, T)
      /\ Bought(S \union T).amount = SumOver(F, S \union T)
  BY <1>2, BoughtTypes
<1> HIDE DEF F
<1>4. Bought(S \union T).amount = Bought(S).amount + Bought(T).amount
  BY <1>1, <1>3, SumOfUnion
<1>5. Cardinality(S \union T) = Cardinality(S) + Cardinality(T)
  <2>1. Cardinality(S \intersect T) = 0
    BY FS_EmptySet
  <2>2. Cardinality(S \union T)
        = Cardinality(S) + Cardinality(T) - Cardinality(S \intersect T)
    BY <1>1, FS_Union
  <2>3. Cardinality(S) \in Nat /\ Cardinality(T) \in Nat
    BY <1>1, FS_CardinalityType
  <2> QED BY <2>1, <2>2, <2>3
<1> QED BY <1>4, <1>5 DEF Bought

-----------------------------------------------------------------------------
\* Buckets keep the order of the days, and are named for days of theirs.
LEMMA MonthsKeepOrder ==
    ASSUME NEW a \in Days, NEW b \in Days, a <= b
    PROVE  /\ FirstOfMonth(a) \in Int
           /\ FirstOfMonth(a) <= FirstOfMonth(b)
           /\ FirstOfMonth(FirstOfMonth(a)) = FirstOfMonth(a)
<1>1. /\ FirstOfMonth(a) \in Nat /\ DaysInMonth(a) \in Int
      /\ FirstOfMonth(a) <= a /\ a < FirstOfMonth(a) + DaysInMonth(a)
      /\ FirstDay <= FirstOfMonth(a)
      /\ FirstOfMonth(b) \in Nat /\ DaysInMonth(b) \in Int
      /\ FirstOfMonth(b) <= b /\ b < FirstOfMonth(b) + DaysInMonth(b)
  BY MonthBounds
<1>2. a \in Int /\ b \in Int /\ FirstOfMonth(a) \in Days
  BY <1>1, CalendarTypes DEF Days
<1>3. FirstOfMonth(b) = FirstOfMonth(a)
      <=> FirstOfMonth(b) <= a /\ a < FirstOfMonth(b) + DaysInMonth(b)
  BY SameMonth
<1>4. FirstOfMonth(a) = FirstOfMonth(FirstOfMonth(a))
      <=> /\ FirstOfMonth(a) <= FirstOfMonth(a)
          /\ FirstOfMonth(a) < FirstOfMonth(a) + DaysInMonth(a)
  BY <1>2, SameMonth
<1> QED BY <1>1, <1>2, <1>3, <1>4

\* A later day is in no earlier week.
LEMMA WeeksKeepOrder ==
    ASSUME NEW a \in Int, NEW b \in Int, a <= b
    PROVE  /\ a - (a % WeekDays) \in Int
           /\ a - (a % WeekDays) <= b - (b % WeekDays)
           /\ (a - (a % WeekDays)) - ((a - (a % WeekDays)) % WeekDays)
              = a - (a % WeekDays)
<1>1. PICK w \in Nat \ {0} : w = WeekDays
  BY TotalsConstants
<1>2. PICK q \in Int, r \in 0 .. w - 1 : r = a % w /\ a = w * q + r
  BY <1>1
<1>3. PICK p \in Int, s \in 0 .. w - 1 : s = b % w /\ b = w * p + s
  BY <1>1
<1>4. a - (a % w) = w * q /\ b - (b % w) = w * p
  BY <1>2, <1>3
<1>5. (w * q) % w = 0
  BY <1>1
<1>6. q <= p
  <2>1. SUFFICES ASSUME p + 1 <= q PROVE FALSE
    BY <1>2, <1>3
  <2>2. (q - p - 1) * w >= 0
    BY <1>1, <2>1
  <2>3. (q - p - 1) * w = w * q - w * p - w
    BY <1>1
  <2>4. w * q \in Int /\ w * p \in Int
    BY <1>1
  <2> QED BY <1>1, <1>2, <1>3, <2>2, <2>3, <2>4
<1>7. w * q <= w * p
  <2>1. (p - q) * w >= 0
    BY <1>1, <1>6
  <2>2. (p - q) * w = w * p - w * q
    BY <1>1
  <2>3. w * q \in Int /\ w * p \in Int
    BY <1>1
  <2> QED BY <2>1, <2>2, <2>3
<1>8. w * q \in Int
  BY <1>1
<1> QED BY <1>1, <1>4, <1>5, <1>7, <1>8

Groupings == {"day", "week", "month"}

\* date_trunc keeps the order of days and its own results.
LEMMA BucketsKeepOrder ==
    ASSUME NEW groupBy \in Groupings, NEW a \in Int, NEW b \in Int, a <= b,
           groupBy = "day" \/ {a, b} \subseteq Days
    PROVE  /\ DateTrunc(groupBy, a) \in Int
           /\ DateTrunc(groupBy, a) <= DateTrunc(groupBy, b)
           /\ DateTrunc(groupBy, DateTrunc(groupBy, a)) = DateTrunc(groupBy, a)
<1>1. CASE groupBy = "day"
  BY <1>1 DEF DateTrunc
<1>2. CASE groupBy = "week"
  BY <1>2, WeeksKeepOrder DEF DateTrunc
<1>3. CASE groupBy = "month"
  BY <1>3, MonthsKeepOrder DEF DateTrunc
<1> QED BY <1>1, <1>2, <1>3 DEF Groupings

-----------------------------------------------------------------------------
\* A period of days, of which there may be none.
IsOfDays(p) ==
    /\ p.zone \in Zones
    /\ p.from \in FirstDay .. EndOfDays
    /\ p.to \in Int /\ p.to + 1 \in FirstDay .. EndOfDays
    /\ p.start = StartOf(p.zone, p.from)
    /\ p.end = EndOf(p.zone, p.to)

\* _filters selects the confirmed receipts whose local date is in the period.
LEMMA SelectedDays ==
    ASSUME RowsAreRows, NEW p, IsOfDays(p), NEW r \in DOMAIN rows
    PROVE  /\ Day(Wall(p.zone, rows[r].at)) \in Int
           /\ r \in Filters(p) <=>
                 /\ rows[r].confirmed
                 /\ p.from <= Day(Wall(p.zone, rows[r].at))
                 /\ Day(Wall(p.zone, rows[r].at)) <= p.to
<1> DEFINE i == rows[r].at
           day == Day(Wall(p.zone, i))
<1>1. i \in Int
  BY RowTypes
<1>2. /\ p.from \in Int /\ p.to \in Int
      /\ p.start = StartOf(p.zone, p.from) /\ p.end = StartOf(p.zone, p.to + 1)
  BY CalendarTypes DEF IsOfDays, StartOf, EndOf
<1>3. day \in Int
  <2>1. Wall(p.zone, i) \in Int
    BY <1>1, PeriodConstants, ClockTypes DEF IsOfDays
  <2> QED BY <2>1, DayBounds
<1> HIDE DEF i
<1>4. /\ StartOf(p.zone, p.from) \in Int
      /\ i < StartOf(p.zone, p.from) <=> day < p.from
  BY <1>1, MidnightIsBoundary DEF IsOfDays
<1>5. /\ StartOf(p.zone, p.to + 1) \in Int
      /\ i < StartOf(p.zone, p.to + 1) <=> day < p.to + 1
  BY <1>1, MidnightIsBoundary DEF IsOfDays
<1>6. Within(i, p.start, p.end) <=> p.from <= day /\ day <= p.to
  BY <1>1, <1>2, <1>3, <1>4, <1>5 DEF Within
<1>7. r \in Filters(p) <=> rows[r].confirmed /\ Within(i, p.start, p.end)
  BY DEF Filters, i
<1> QED BY <1>3, <1>6, <1>7 DEF i

\* The points of a trend add up to what was bought in its period.
LEMMA TrendAddsUp ==
    ASSUME RowsAreRows, NEW p, IsOfDays(p), NEW groupBy \in Groupings,
           groupBy = "day" \/ {p.from, p.to} \subseteq Days,
           NEW field \in {"amount", "purchases"}
    PROVE  TrendSum(p, groupBy, field) = Bought(Filters(p))[field]
<1> DEFINE S == Filters(p)
           T == Series(p, groupBy)
           key == [r \in S |-> Bucket(p, groupBy, r)]
           Found(d) == {r \in S : key[r] = d}
           points == Trends(p, groupBy)
<1>1. S \in SUBSET DOMAIN rows
  BY DEF Filters
<1>2. IsFiniteSet(S) /\ \A r \in S : rows[r].total \in Int
  BY <1>1, FoundAreRows
<1>3. ASSUME NEW a \in Int, NEW b \in Int, p.from <= a, a <= b, b <= p.to
      PROVE  /\ DateTrunc(groupBy, a) \in Int
             /\ DateTrunc(groupBy, a) <= DateTrunc(groupBy, b)
             /\ DateTrunc(groupBy, DateTrunc(groupBy, a)) = DateTrunc(groupBy, a)
  <2>1. groupBy = "day" \/ {a, b} \subseteq Days
    BY <1>3, CalendarTypes DEF Days
  <2> QED BY <1>3, <2>1, BucketsKeepOrder
<1>4. p.from \in Int /\ p.to \in Int
  BY CalendarTypes DEF IsOfDays
<1>5. ASSUME NEW r \in S
      PROVE  key[r] \in T
  <2> DEFINE day == Day(Wall(p.zone, rows[r].at))
  <2>1. day \in Int /\ p.from <= day /\ day <= p.to
    BY <1>1, SelectedDays
  <2>2. key[r] = DateTrunc(groupBy, day)
    BY DEF Bucket
  <2> HIDE DEF day, key
  <2>3. /\ DateTrunc(groupBy, p.from) \in Int /\ DateTrunc(groupBy, day) \in Int
        /\ DateTrunc(groupBy, p.to) \in Int
        /\ DateTrunc(groupBy, p.from) <= DateTrunc(groupBy, day)
        /\ DateTrunc(groupBy, day) <= DateTrunc(groupBy, p.to)
        /\ DateTrunc(groupBy, DateTrunc(groupBy, day)) = DateTrunc(groupBy, day)
    BY <1>3, <1>4, <2>1
  <2> QED BY <2>2, <2>3 DEF Series
<1>6. IsFiniteSet(T)
  <2>1. CASE p.from <= p.to
    <3>1. /\ DateTrunc(groupBy, p.from) \in Int
          /\ DateTrunc(groupBy, p.to) \in Int
      BY <1>3, <1>4, <2>1
    <3>2. IsFiniteSet(DateTrunc(groupBy, p.from) .. DateTrunc(groupBy, p.to))
      BY <3>1, FS_Interval
    <3>3. T \in SUBSET (DateTrunc(groupBy, p.from) .. DateTrunc(groupBy, p.to))
      BY DEF Series
    <3> QED BY <3>2, <3>3, FS_Subset
  <2>2. CASE p.to < p.from
    <3>1. groupBy = "day" \/ {p.to, p.from} \subseteq Days
      OBVIOUS
    <3>2. DateTrunc(groupBy, p.from) \in Int /\ DateTrunc(groupBy, p.to) \in Int
      BY <1>4, <2>2, <3>1, BucketsKeepOrder
    <3>3. IsFiniteSet(DateTrunc(groupBy, p.from) .. DateTrunc(groupBy, p.to))
      BY <3>2, FS_Interval
    <3>4. T \in SUBSET (DateTrunc(groupBy, p.from) .. DateTrunc(groupBy, p.to))
      BY DEF Series
    <3> QED BY <3>3, <3>4, FS_Subset
  <2> QED BY <1>4, <2>1, <2>2
<1>7. ASSUME NEW d \in T
      PROVE  /\ points[d] = Bought(Found(d))
             /\ Found(d) \in SUBSET DOMAIN rows
  <2>1. Found(d) = {r \in Filters(p) : Bucket(p, groupBy, r) = d}
    OBVIOUS
  <2> HIDE DEF Found
  <2> QED BY <1>1, <2>1 DEF Trends, Bought
<1>8. DOMAIN points = T
  BY DEF Trends
<1> DEFINE F == IF field = "amount" THEN [r \in DOMAIN rows |-> rows[r].total]
                ELSE [r \in DOMAIN rows |-> 1]
<1>9. ASSUME NEW U \in SUBSET DOMAIN rows
      PROVE  Bought(U)[field] \in Int /\ Bought(U)[field] = SumOver(F, U)
  <2>1. CASE field = "amount"
    BY <2>1, BoughtTypes
  <2>2. CASE field = "purchases"
    <3>1. IsFiniteSet(U) /\ \A r \in U : F[r] = 1
      BY <2>2, FoundAreRows
    <3> HIDE DEF F
    <3>2. SumOver(F, U) = Cardinality(U)
      BY <3>1, SumOfOnes
    <3> QED BY <2>2, <3>2, BoughtTypes DEF Bought
  <2> QED BY <2>1, <2>2
<1>10. \A r \in S : F[r] \in Int
  BY <1>1, <1>2
<1> HIDE DEF S, T, key, points, F
<1> DEFINE Sums == [d \in T |-> SumOver(F, {r \in S : key[r] = d})]
<1>11. SumOver(Sums, T) = SumOver(F, S)
  BY <1>2, <1>5, <1>6, <1>10, SumOfGroups
<1>12. \A d \in T : points[d][field] \in Int /\ points[d][field] = Sums[d]
  BY <1>7, <1>9
<1>13. PICK list : list = points
  OBVIOUS
<1>14. \A d \in T : list[d][field] \in Int /\ list[d][field] = Sums[d]
  BY <1>12, <1>13
<1> HIDE DEF Sums
<1>15. MapThenSumSet(LAMBDA d : list[d][field], T)
       = SumOver([d \in T |-> list[d][field]], T)
  BY <1>6, <1>14, SumOfField
<1>16. SumOver([d \in T |-> list[d][field]], T) = SumOver(Sums, T)
  <2> DEFINE G == [d \in T |-> list[d][field]]
  <2>1. \A d \in T : G[d] \in Int /\ G[d] = Sums[d]
    BY <1>14
  <2> HIDE DEF G
  <2>2. SumOver(G, T) = SumOver(Sums, T)
    BY <1>6, <2>1, SumEqual
  <2> QED BY <2>2 DEF G
<1>17. SumOver(F, S) = Bought(S)[field]
  BY <1>1, <1>9
<1>18. MapThenSumSet(LAMBDA d : list[d][field], DOMAIN list) = Bought(S)[field]
  BY <1>8, <1>11, <1>13, <1>15, <1>16, <1>17
<1> QED BY <1>13, <1>18 DEF TrendSum, points, S

\* trends and summary of a period tell the same.
LEMMA TrendsAgree ==
    ASSUME RowsAreRows, PeriodIsResolved
    PROVE  TrendsAccountForSummary
<1>1. SUFFICES ASSUME period # None, NEW groupBy \in Groupings,
                      NEW field \in {"amount", "purchases"}
               PROVE  TrendSum(period, groupBy, field) = Summary(period)[field]
  BY DEF TrendsAccountForSummary, Groupings
<1>2. IsOfDays(period) /\ {period.from, period.to} \subseteq Days
  BY <1>1, CalendarTypes DEF PeriodIsResolved, Accepted, IsOfDays, Days
<1>3. Summary(period) = Bought(Filters(period))
  BY DEF Summary, Bought
<1> QED BY <1>2, <1>3, TrendAddsUp

-----------------------------------------------------------------------------
\* A later day starts no earlier.
LEMMA StartsInOrder ==
    ASSUME NEW zone \in Zones, NEW a \in FirstDay .. EndOfDays,
           NEW b \in FirstDay .. EndOfDays, a <= b
    PROVE  StartOf(zone, a) \in Int /\ StartOf(zone, b) \in Int
           /\ StartOf(zone, a) <= StartOf(zone, b)
<1>1. 0 \in Int /\ a \in Int /\ b \in Int
  BY CalendarTypes
<1>2. PICK i \in Int : i = StartOf(zone, b)
  BY <1>1, MidnightIsBoundary
<1>3. StartOf(zone, a) \in Int
  BY <1>1, MidnightIsBoundary
<1>4. Day(Wall(zone, i)) \in Int
  <2>1. Wall(zone, i) \in Int
    BY PeriodConstants, ClockTypes
  <2> QED BY <2>1, DayBounds
<1>5. ~(i < StartOf(zone, b)) /\ (i < StartOf(zone, b) <=> Day(Wall(zone, i)) < b)
  BY <1>2, MidnightIsBoundary
<1>6. i < StartOf(zone, a) <=> Day(Wall(zone, i)) < a
  BY MidnightIsBoundary
<1> QED BY <1>1, <1>2, <1>3, <1>4, <1>5, <1>6

\* Days within a period are a period that selects their receipts, unless the
\* zone skipped them.
LEMMA PartIsResolved ==
    ASSUME RowsAreRows, NEW zone \in Zones,
           NEW first \in Days, NEW last \in Days, last + 1 \in Days,
           NEW from \in first .. last, NEW to \in from .. last,
           last - first + 1 <= MaxPeriodDays,
           StartOf(zone, first) \in Datetimes, EndOf(zone, last) \in Datetimes,
           NEW q, q = Resolve(zone, [from |-> from, to |-> to])
    PROVE  LET selected == {r \in DOMAIN rows :
                              /\ rows[r].confirmed
                              /\ from <= Day(Wall(zone, rows[r].at))
                              /\ Day(Wall(zone, rows[r].at)) <= to}
           IN  \/ q # None /\ q.from = from /\ Filters(q) = selected
               \/ q = None /\ selected = {}
<1> DEFINE selected == {r \in DOMAIN rows :
                              /\ rows[r].confirmed
                              /\ from <= Day(Wall(zone, rows[r].at))
                              /\ Day(Wall(zone, rows[r].at)) <= to}
           p == [ zone |-> zone, from |-> from, to |-> to,
                  start |-> StartOf(zone, from), end |-> EndOf(zone, to) ]
<1>1. /\ first \in Int /\ last \in Int /\ from \in Int /\ to \in Int
      /\ from \in Days /\ to \in Days /\ to + 1 \in Days
      /\ first <= from /\ from <= to /\ to <= last
      /\ to - from + 1 <= MaxPeriodDays
  BY CalendarTypes, PeriodConstants DEF Days
<1>2. /\ first \in FirstDay .. EndOfDays /\ from \in FirstDay .. EndOfDays
      /\ to + 1 \in FirstDay .. EndOfDays /\ last + 1 \in FirstDay .. EndOfDays
  BY <1>1, CalendarTypes DEF Days
<1>3. IsOfDays(p)
  BY <1>1, <1>2 DEF IsOfDays
<1>4. Filters(p) = selected
  <2>1. p.zone = zone /\ p.from = from /\ p.to = to
    OBVIOUS
  <2>2. \A r \in Filters(p) : r \in DOMAIN rows
    BY DEF Filters
  <2> HIDE DEF p
  <2>3. \A r \in DOMAIN rows :
           r \in Filters(p) <=> /\ rows[r].confirmed
                                /\ from <= Day(Wall(zone, rows[r].at))
                                /\ Day(Wall(zone, rows[r].at)) <= to
    BY <1>3, <2>1, SelectedDays
  <2> QED BY <2>2, <2>3
<1>5. /\ StartOf(zone, from) \in Datetimes /\ EndOf(zone, to) \in Datetimes
      /\ StartOf(zone, from) \in Int /\ EndOf(zone, to) \in Int
  <2>1. /\ StartOf(zone, first) \in Int /\ StartOf(zone, from) \in Int
        /\ StartOf(zone, first) <= StartOf(zone, from)
    BY <1>1, <1>2, StartsInOrder
  <2>2. from <= last + 1 /\ to + 1 <= last + 1 /\ first <= to + 1
    BY <1>1
  <2>3. /\ StartOf(zone, last + 1) \in Int
        /\ StartOf(zone, from) <= StartOf(zone, last + 1)
    BY <1>2, <2>2, StartsInOrder
  <2>4. /\ StartOf(zone, to + 1) \in Int
        /\ StartOf(zone, to + 1) <= StartOf(zone, last + 1)
    BY <1>2, <2>2, StartsInOrder
  <2>5. StartOf(zone, first) <= StartOf(zone, to + 1)
    BY <1>2, <2>2, StartsInOrder
  <2>6. /\ EndOf(zone, to) = StartOf(zone, to + 1)
        /\ EndOf(zone, last) = StartOf(zone, last + 1)
    BY DEF StartOf, EndOf
  <2>7. FirstDay \in Int /\ EndOfDays \in Int
    BY CalendarTypes
  <2>8. Midnight(FirstDay) \in Int /\ Midnight(EndOfDays) \in Int
    BY <2>7, Midnights
  <2> QED BY <2>1, <2>3, <2>4, <2>5, <2>6, <2>8 DEF Datetimes
<1>6. CASE EndOf(zone, to) > StartOf(zone, from)
  <2>1. q = p
    BY <1>1, <1>5, <1>6 DEF Resolve, Accepted
  <2>2. p \in ResolvedAnalyticsPeriod
    BY <1>1, <1>5 DEF ResolvedAnalyticsPeriod
  <2>3. q # None /\ q.from = from
    BY <2>1, <2>2, TotalsConstants
  <2> HIDE DEF p
  <2> QED BY <1>4, <2>1, <2>3
<1>7. CASE EndOf(zone, to) <= StartOf(zone, from)
  <2>1. q = None
    BY <1>5, <1>7 DEF Resolve, Accepted
  <2>2. Filters(p) = {}
    <3>1. ASSUME NEW r \in Filters(p) PROVE FALSE
      <4>1. /\ rows[r].at \in Int
            /\ StartOf(zone, from) <= rows[r].at /\ rows[r].at < EndOf(zone, to)
        BY RowTypes DEF Filters, Within
      <4> QED BY <1>5, <1>7, <4>1
    <3> QED BY <3>1
  <2> HIDE DEF p
  <2> QED BY <1>4, <2>1, <2>2
<1> QED BY <1>5, <1>6, <1>7

\* A sum over the summaries of some periods.
LEMMA SumOfSummaries ==
    ASSUME NEW S, IsFiniteSet(S), NEW field,
           \A q \in S : Summary(q)[field] \in Int
    PROVE  MapThenSumSet(LAMBDA q : Summary(q)[field], S)
           = SumOver([q \in S |-> Summary(q)[field]], S)
<1> DEFINE F == [q \in S |-> Summary(q)[field]]
           Of(g) == g = [s \in SUBSET S |->
                           IF s = {} THEN 0
                           ELSE Summary(Choice(s))[field] + g[s \ {Choice(s)}]]
           h == CHOOSE g : Of(g)
<1>1. ASSUME NEW g
      PROVE  Of(g) <=> Folding(F, S, g)
  BY ChoiceTypes DEF Folding
<1>2. MapThenSumSet(LAMBDA q : Summary(q)[field], S) = h[S]
  BY DEF MapThenSumSet, MapThenFoldSet, Choice
<1>3. \A q \in S : F[q] \in Int
  OBVIOUS
<1> HIDE DEF F, Of
<1>4. (\E g : Folding(F, S, g)) => Folding(F, S, h)
  BY <1>1
<1> QED BY <1>2, <1>3, <1>4, SumIsChosen DEF F

\* summary of two parts of a period adds up to that of the period.
LEMMA PartsAgree ==
    ASSUME RowsAreRows, PeriodIsResolved
    PROVE  PeriodsAddUp
<1>1. SUFFICES ASSUME period # None,
                      NEW middle \in period.from .. period.to - 1,
                      NEW field \in {"amount", "purchases"}
               PROVE  LET parts == { Resolve(period.zone, [from |-> period.from,
                                                           to |-> middle]),
                                     Resolve(period.zone, [from |-> middle + 1,
                                                           to |-> period.to]) }
                                   \ {None}
                      IN  MapThenSumSet(LAMBDA part : Summary(part)[field], parts)
                          = Summary(period)[field]
  BY DEF PeriodsAddUp
<1>2. PICK zone, first, last :
         zone = period.zone /\ first = period.from /\ last = period.to
  OBVIOUS
<1>3. /\ zone \in Zones /\ first \in Days /\ last \in Days /\ last + 1 \in Days
      /\ last - first + 1 <= MaxPeriodDays
      /\ StartOf(zone, first) \in Datetimes /\ EndOf(zone, last) \in Datetimes
      /\ period.start = StartOf(zone, first) /\ period.end = EndOf(zone, last)
  BY <1>1, <1>2 DEF PeriodIsResolved, Accepted
<1>4. /\ first \in Int /\ last \in Int /\ middle \in Int
      /\ first <= middle /\ middle + 1 <= last
  BY <1>1, <1>2, <1>3, CalendarTypes DEF Days
<1> DEFINE DayOf(r) == Day(Wall(zone, rows[r].at))
           A == {r \in DOMAIN rows : /\ rows[r].confirmed
                                     /\ first <= DayOf(r)
                                     /\ DayOf(r) <= middle}
           B == {r \in DOMAIN rows : /\ rows[r].confirmed
                                     /\ middle + 1 <= DayOf(r)
                                     /\ DayOf(r) <= last}
           a == Resolve(zone, [from |-> first, to |-> middle])
           b == Resolve(zone, [from |-> middle + 1, to |-> last])
<1>5. \/ a # None /\ a.from = first /\ Filters(a) = A
      \/ a = None /\ A = {}
  <2>1. first \in first .. last /\ middle \in first .. last
    BY <1>4
  <2> QED BY <1>3, <1>4, <2>1, PartIsResolved
<1>6. \/ b # None /\ b.from = middle + 1 /\ Filters(b) = B
      \/ b = None /\ B = {}
  <2>1. middle + 1 \in first .. last /\ last \in middle + 1 .. last
    BY <1>4
  <2> QED BY <1>3, <1>4, <2>1, PartIsResolved
<1>7. a # b \/ a = None
  BY <1>4, <1>5, <1>6
<1>8. IsOfDays(period)
  <2>1. first \in FirstDay .. EndOfDays /\ last + 1 \in FirstDay .. EndOfDays
    BY <1>3, CalendarTypes DEF Days
  <2> QED BY <1>2, <1>3, <1>4, <2>1 DEF IsOfDays
<1>9. /\ A \in SUBSET DOMAIN rows /\ B \in SUBSET DOMAIN rows
      /\ A \intersect B = {} /\ Filters(period) = A \union B
  <2>1. \A r \in DOMAIN rows :
           /\ DayOf(r) \in Int
           /\ r \in Filters(period) <=> /\ rows[r].confirmed
                                        /\ first <= DayOf(r) /\ DayOf(r) <= last
    BY <1>2, <1>8, SelectedDays
  <2>2. \A r \in Filters(period) : r \in DOMAIN rows
    BY DEF Filters
  <2>3. ASSUME NEW r \in DOMAIN rows
        PROVE  /\ ~(r \in A /\ r \in B)
               /\ r \in Filters(period) <=> r \in A \/ r \in B
    <3> DEFINE d == DayOf(r)
    <3>1. /\ d \in Int
          /\ r \in Filters(period) <=> rows[r].confirmed /\ first <= d /\ d <= last
      BY <2>1
    <3>2. /\ r \in A <=> rows[r].confirmed /\ first <= d /\ d <= middle
          /\ r \in B <=> rows[r].confirmed /\ middle + 1 <= d /\ d <= last
      OBVIOUS
    <3> HIDE DEF d, A, B
    <3> QED BY <1>4, <3>1, <3>2
  <2>4. A \in SUBSET DOMAIN rows /\ B \in SUBSET DOMAIN rows
    OBVIOUS
  <2> HIDE DEF A, B
  <2> QED BY <2>2, <2>3, <2>4
<1> HIDE DEF A, B, a, b
<1>10. Summary(period)[field] = Bought(A)[field] + Bought(B)[field]
  <2>1. Summary(period) = Bought(Filters(period))
    BY DEF Summary, Bought
  <2> QED BY <1>9, <2>1, BoughtInTwo
<1>11. /\ Bought(A)[field] \in Int /\ Bought(B)[field] \in Int
  BY <1>9, BoughtTypes
<1>12. Bought({})[field] = 0
  <2>1. MapThenSumSet(Total, {}) = 0
    <3>1. MapThenSumSet(Total, {}) = SumOver([r \in {} |-> rows[r].total], {})
      BY SumOfTotals, FS_EmptySet
    <3> QED BY <3>1, SumOfNone
  <2> QED BY <2>1, FS_EmptySet DEF Bought
<1>13. \/ a # None /\ Summary(a)[field] = Bought(A)[field]
       \/ a = None /\ Bought(A)[field] = 0
  BY <1>5, <1>12 DEF Summary, Bought
<1>14. \/ b # None /\ Summary(b)[field] = Bought(B)[field]
       \/ b = None /\ Bought(B)[field] = 0
  BY <1>6, <1>12 DEF Summary, Bought
<1>15. PICK x, y, parts : x = a /\ y = b /\ parts = {x, y} \ {None}
  OBVIOUS
<1>16. PICK m \in Int, n \in Int : m = Bought(A)[field] /\ n = Bought(B)[field]
  BY <1>11
<1> DEFINE F == [q \in parts |-> Summary(q)[field]]
<1>17. /\ parts \subseteq {x, y} /\ (x # y \/ x \notin parts)
       /\ x \in parts => F[x] = m
       /\ x \notin parts => m = 0
       /\ y \in parts => F[y] = n
       /\ y \notin parts => n = 0
       /\ \A q \in parts : Summary(q)[field] \in Int
  BY <1>7, <1>13, <1>14, <1>15, <1>16
<1>18. IsFiniteSet(parts) /\ SumOver(F, parts) = m + n
  <2>1. \A q \in parts : F[q] \in Int
    BY <1>17
  <2> HIDE DEF F
  <2>2. /\ IsFiniteSet(parts)
        /\ SumOver(F, parts) = (IF x \in parts THEN F[x] ELSE 0)
                               + (IF y \in parts THEN F[y] ELSE 0)
    BY <1>17, <2>1, SumOfTwo
  <2> QED BY <1>17, <2>2
<1>19. MapThenSumSet(LAMBDA q : Summary(q)[field], parts) = m + n
  BY <1>17, <1>18, SumOfSummaries
<1> QED BY <1>2, <1>10, <1>15, <1>16, <1>19 DEF a, b

-----------------------------------------------------------------------------
(***************************************************************************)
(* The comparison of months, against the trend by days.                     *)
(***************************************************************************)

Fields == {"amount", "purchases"}

\* The confirmed receipts of some days.
OfDays(zone, first, last) ==
    {r \in DOMAIN rows : /\ rows[r].confirmed
                         /\ first <= Day(Wall(zone, rows[r].at))
                         /\ Day(Wall(zone, rows[r].at)) <= last}

\* A trend by days tells what was bought on its days.
LEMMA DayTrendTells ==
    ASSUME RowsAreRows, NEW zone \in Zones, NEW first \in FirstDay .. EndOfDays,
           NEW last \in Int, last + 1 \in FirstDay .. EndOfDays
    PROVE  /\ \A field \in Fields : DayTrend(zone, first, last)[field]
                                    = Bought(OfDays(zone, first, last))[field]
           /\ DayTrend(zone, first, last) = Bought(OfDays(zone, first, last))
<1> DEFINE q == [ zone |-> zone, from |-> first, to |-> last,
                  start |-> StartOf(zone, first), end |-> EndOf(zone, last) ]
<1>1. PICK p : p = q
  OBVIOUS
<1>2. IsOfDays(p) /\ p.zone = zone /\ p.from = first /\ p.to = last
  BY <1>1 DEF IsOfDays
<1>3. DayTrend(zone, first, last) = [field \in Fields |-> TrendSum(q, "day", field)]
  BY DEF DayTrend, Fields
<1> HIDE DEF q
<1>4. ASSUME NEW field \in Fields
      PROVE  TrendSum(q, "day", field) = Bought(Filters(p))[field]
  <2>1. TrendSum(p, "day", field) = Bought(Filters(p))[field]
    <3>1. "day" \in Groupings /\ field \in {"amount", "purchases"}
      BY DEF Groupings, Fields
    <3> QED BY <1>2, <3>1, TrendAddsUp
  <2> QED BY <1>1, <2>1
<1>5. Filters(p) = OfDays(zone, first, last)
  <2>1. \A r \in Filters(p) : r \in DOMAIN rows
    BY DEF Filters
  <2>2. \A r \in OfDays(zone, first, last) : r \in DOMAIN rows
    BY DEF OfDays
  <2>3. ASSUME NEW r \in DOMAIN rows
        PROVE  r \in Filters(p) <=> r \in OfDays(zone, first, last)
    BY <1>2, SelectedDays DEF OfDays
  <2> QED BY <2>1, <2>2, <2>3
<1>6. Bought(OfDays(zone, first, last))
      = [field \in Fields |-> Bought(OfDays(zone, first, last))[field]]
  BY DEF Bought, Fields
<1> QED BY <1>3, <1>4, <1>5, <1>6

\* What is counted between two selections of receipts.
LEMMA CountedBetween ==
    ASSUME RowsAreRows, NEW S \in SUBSET DOMAIN rows,
           NEW zone \in Zones, NEW first \in FirstDay .. EndOfDays,
           NEW last \in Int, last + 1 \in FirstDay .. EndOfDays,
           NEW field \in Fields
    PROVE  /\ OfDays(zone, first, last) \subseteq S =>
                DayTrend(zone, first, last)[field] <= Bought(S)[field]
           /\ S \subseteq OfDays(zone, first, last) =>
                Bought(S)[field] <= DayTrend(zone, first, last)[field]
<1>1. PICK T : T = OfDays(zone, first, last)
  OBVIOUS
<1>2. T \in SUBSET DOMAIN rows
  BY <1>1 DEF OfDays
<1>3. DayTrend(zone, first, last)[field] = Bought(T)[field]
  BY <1>1, DayTrendTells
<1>4. T \subseteq S => Bought(T)[field] <= Bought(S)[field]
  BY <1>2, BoughtMore DEF Fields
<1>5. S \subseteq T => Bought(S)[field] <= Bought(T)[field]
  BY <1>2, BoughtMore DEF Fields
<1> QED BY <1>1, <1>3, <1>4, <1>5

\* The days of the month that have passed.
LEMMA DaysPassed ==
    ASSUME NEW wall \in Int, NEW first \in Int,
           NEW moment, moment = wall - Midnight(first)
    PROVE  /\ Day(moment) = Day(wall) - first
           /\ Day(moment) \in Int
           /\ Midnight(Day(moment)) <= moment
           /\ moment < Midnight(Day(moment) + 1)
<1>1. Midnight(first) \in Int /\ moment \in Int
  <2>1. Midnight(first) \in Int
    BY Midnights
  <2> QED BY <2>1
<1>2. PICK d \in Int, next \in Int : d = Day(moment) /\ next = d + 1
  BY <1>1, DayBounds
<1>3. Midnight(d) <= moment /\ moment < Midnight(next)
  BY <1>1, <1>2, DayBounds
<1>4. /\ Midnight(first + d) = Midnight(first) + Midnight(d)
      /\ Midnight(first + next) = Midnight(first) + Midnight(next)
      /\ Midnight(d) \in Int /\ Midnight(next) \in Int
  BY <1>2, Midnights
<1>5. Midnight(first + d) <= wall /\ wall < Midnight(first + next)
  BY <1>1, <1>3, <1>4
<1>6. PICK a \in Int, b \in Int : a = first + d /\ b = first + next
  OBVIOUS
<1>7. ~(Day(wall) < a) /\ Day(wall) < b
  <2>1. Midnight(a) \in Int /\ Midnight(a) <= wall /\ wall < Midnight(b)
    BY <1>5, <1>6, Midnights
  <2>2. ~(wall < Midnight(a))
    BY <2>1
  <2> QED BY <2>1, <2>2, DayOrder
<1>8. Day(wall) \in Int
  BY DayBounds
<1> QED BY <1>2, <1>3, <1>6, <1>7, <1>8

\* Where the local date of a receipt is before a day.
LEMMA DayOfRow ==
    ASSUME RowsAreRows, NEW zone \in Zones, NEW r \in DOMAIN rows
    PROVE  /\ rows[r].at \in Int
           /\ Wall(zone, rows[r].at) \in Int
           /\ Day(Wall(zone, rows[r].at)) \in Int
<1>1. rows[r].at \in Int
  BY RowTypes
<1>2. Wall(zone, rows[r].at) \in Int
  BY <1>1, PeriodConstants, ClockTypes
<1> QED BY <1>1, <1>2, DayBounds

\* The part of this month has its whole days and no day after today.
LEMMA CurrentFollows ==
    ASSUME RowsAreRows, NEW zone \in Zones, NEW now \in Clocks(zone),
           NEW today, today = Day(Wall(zone, now)),
           NEW first, first = FirstOfMonth(today),
           NEW S, S = Part(StartOf(zone, first), now)
    PROVE  /\ S \in SUBSET DOMAIN rows
           /\ OfDays(zone, first, today - 1) \subseteq S
           /\ S \subseteq OfDays(zone, first, today)
<1>1. now \in Int /\ today \in Days
  BY ClockDay
<1>2. /\ first \in Int /\ today \in Int /\ first <= today
      /\ first \in FirstDay .. EndOfDays /\ today \in FirstDay .. EndOfDays
      /\ today + 1 \in FirstDay .. EndOfDays
  BY <1>1, MonthBounds, CalendarTypes DEF Days
<1>3. S \in SUBSET DOMAIN rows
  BY DEF Part
<1>4. ASSUME NEW r \in DOMAIN rows, NEW day, day = Day(Wall(zone, rows[r].at))
      PROVE  /\ r \in OfDays(zone, first, today - 1) => r \in S
             /\ r \in S => r \in OfDays(zone, first, today)
  <2>1. PICK i \in Int : i = rows[r].at
    BY RowTypes
  <2>2. day \in Int
    BY <1>4, DayOfRow
  <2>3. /\ StartOf(zone, first) \in Int
        /\ i < StartOf(zone, first) <=> day < first
    BY <1>2, <1>4, <2>1, MidnightIsBoundary
  <2>4. /\ StartOf(zone, today) \in Int
        /\ i < StartOf(zone, today) <=> day < today
        /\ now < StartOf(zone, today) <=> today < today
    BY <1>1, <1>2, <1>4, <2>1, MidnightIsBoundary
  <2>5. PICK next : next = today + 1
    OBVIOUS
  <2>6. /\ StartOf(zone, next) \in Int
        /\ i < StartOf(zone, next) <=> day < next
        /\ now < StartOf(zone, next) <=> today < next
    BY <1>1, <1>2, <1>4, <2>1, <2>5, MidnightIsBoundary
  <2>7. r \in S <=> rows[r].confirmed /\ StartOf(zone, first) <= i /\ i < now
    BY <2>1 DEF Part, Within
  <2> QED BY <1>1, <1>2, <1>4, <2>2, <2>3, <2>4, <2>5, <2>6, <2>7 DEF OfDays
<1>5. /\ OfDays(zone, first, today - 1) \subseteq DOMAIN rows
  BY DEF OfDays
<1> QED BY <1>3, <1>4, <1>5

\* The first days of two months that are compared, and the days of this one
\* that have passed.
Compared(zone, now, first, previous, passed) ==
    /\ first = FirstOfMonth(Day(Wall(zone, now)))
    /\ first > FirstDay
    /\ previous = FirstOfMonth(first - 1)
    /\ passed = Day(Moment(Wall(zone, now)))

\* The part of the month before has as many whole days, or all of them.
LEMMA PreviousFollows ==
    ASSUME RowsAreRows, NEW zone \in Zones, NEW now \in Clocks(zone),
           NEW first, NEW previous, NEW passed,
           Compared(zone, now, first, previous, passed),
           MomentExists(zone, now, previous),
           NEW S, S = Part(StartOf(zone, previous),
                           Instant(zone, UntilWall(zone, now), FoldOf(zone, now)))
    PROVE  /\ S \in SUBSET DOMAIN rows
           /\ passed < DaysInMonth(previous) =>
                /\ OfDays(zone, previous, previous + passed - 1) \subseteq S
                /\ S \subseteq OfDays(zone, previous, previous + passed)
           /\ ~(passed < DaysInMonth(previous)) =>
                S = OfDays(zone, previous, first - 1)
<1>1. /\ first = FirstOfMonth(Day(Wall(zone, now)))
       /\ previous = FirstOfMonth(first - 1)
       /\ passed = Day(Moment(Wall(zone, now)))
       /\ first > FirstDay
  BY DEF Compared
<1>2. Day(Wall(zone, now)) \in Days /\ Wall(zone, now) \in Int
  BY ClockDay
<1>3. PICK length : length = DaysInMonth(previous)
  OBVIOUS
<1>4. /\ first \in Days /\ previous \in Days /\ previous + length = first
  BY <1>2, <1>3, <1>1, MonthBefore
<1>5. first \in Int /\ previous \in Int /\ length \in Int
  BY <1>3, <1>4, MonthBounds DEF Days
<1>6. PICK end, moment :
         /\ end = Instant(zone, UntilWall(zone, now), FoldOf(zone, now))
         /\ moment = Moment(Wall(zone, now))
  OBVIOUS
<1>7. /\ moment \in Int /\ moment = Wall(zone, now) - Midnight(first)
      /\ end \in Int
      /\ \A i \in Int :
            i < end <=> /\ Wall(zone, i) < Midnight(first)
                        /\ Wall(zone, i) < Midnight(previous) + moment
  <2>1. 0 \in Int
    OBVIOUS
  <2>2. ASSUME NEW i \in Int
        PROVE  /\ moment \in Int /\ moment = Wall(zone, now) - Midnight(first)
               /\ end \in Int
               /\ i < end <=> /\ Wall(zone, i) < Midnight(first)
                              /\ Wall(zone, i) < Midnight(previous) + moment
    BY <1>6, <1>1, PreviousPartEnds
  <2> QED BY <2>1, <2>2
<1>8. /\ Day(moment) \in Int
       /\ Midnight(Day(moment)) <= moment
       /\ moment < Midnight(Day(moment) + 1)
  BY <1>7, DayBounds
<1>9. PICK later \in Int : later = passed + 1
  BY <1>6, <1>8, <1>1
<1>10. passed \in Int /\ Midnight(passed) <= moment /\ moment < Midnight(later)
  BY <1>6, <1>9, <1>8, <1>1
<1>11. /\ Midnight(previous) \in Int /\ Midnight(first) \in Int
      /\ Midnight(passed) \in Int /\ Midnight(later) \in Int
      /\ Midnight(length) \in Int
      /\ Midnight(previous) + Midnight(length) = Midnight(first)
      /\ Midnight(previous + passed) = Midnight(previous) + Midnight(passed)
      /\ Midnight(previous + later) = Midnight(previous) + Midnight(later)
  <2>1. Midnight(previous + length) = Midnight(previous) + Midnight(length)
    BY <1>5, Midnights
  <2>2. /\ Midnight(previous + passed) = Midnight(previous) + Midnight(passed)
        /\ Midnight(previous + later) = Midnight(previous) + Midnight(later)
    BY <1>5, <1>9, <1>10, Midnights
  <2>3. /\ Midnight(previous) \in Int /\ Midnight(first) \in Int
        /\ Midnight(passed) \in Int /\ Midnight(later) \in Int
        /\ Midnight(length) \in Int
    BY <1>5, <1>9, <1>10, Midnights
  <2> QED BY <1>4, <2>1, <2>2, <2>3
<1>12. PICK low \in Int, high \in Int :
          low = previous + passed /\ high = previous + later
  BY <1>5, <1>10
<1>13. S \in SUBSET DOMAIN rows
  BY DEF Part
<1>14. passed < length => low < first
  BY <1>4, <1>5, <1>10, <1>12
<1>15. passed < length => Midnight(low) <= Midnight(first)
  BY <1>5, <1>14, Midnights
<1>16. ~(passed < length) => Midnight(length) <= Midnight(passed)
  BY <1>5, <1>10, Midnights
<1>17. ASSUME NEW r \in DOMAIN rows
       PROVE  LET day == Day(Wall(zone, rows[r].at))
              IN  /\ day \in Int
                  /\ passed < length =>
                       /\ rows[r].confirmed /\ previous <= day /\ day < low => r \in S
                       /\ r \in S => rows[r].confirmed /\ previous <= day /\ day < high
                  /\ ~(passed < length) =>
                       (r \in S <=> rows[r].confirmed /\ previous <= day /\ day < first)
  <2>1. PICK i, wall, day : /\ i = rows[r].at /\ wall = Wall(zone, i)
                            /\ day = Day(wall)
    OBVIOUS
  <2>2. i \in Int /\ wall \in Int /\ day \in Int
    BY <2>1, DayOfRow
  <2>3. /\ StartOf(zone, previous) \in Int
        /\ i < StartOf(zone, previous) <=> day < previous
    <3>1. previous \in FirstDay .. EndOfDays
      BY <1>4, CalendarTypes DEF Days
    <3> QED BY <2>1, <2>2, <3>1, MidnightIsBoundary
  <2>4. /\ wall < Midnight(low) <=> day < low
        /\ wall < Midnight(high) <=> day < high
        /\ wall < Midnight(first) <=> day < first
    BY <1>5, <1>12, <2>1, <2>2, DayOrder
  <2>5. r \in S <=> rows[r].confirmed /\ StartOf(zone, previous) <= i /\ i < end
    BY <1>6, <2>1 DEF Part, Within
  <2>6. i < end <=> wall < Midnight(first) /\ wall < Midnight(previous) + moment
    BY <1>7, <2>1, <2>2
  <2>7. previous <= day <=> StartOf(zone, previous) <= i
    BY <1>5, <2>2, <2>3
  <2>8. CASE passed < length
    <3>1. day < low => i < end
      BY <1>7, <1>10, <1>11, <1>12, <1>15, <2>2, <2>4, <2>6, <2>8
    <3>2. i < end => day < high
      BY <1>7, <1>10, <1>11, <1>12, <2>2, <2>4, <2>6
    <3> QED BY <2>1, <2>2, <2>5, <2>7, <2>8, <3>1, <3>2
  <2>9. CASE ~(passed < length)
    <3>1. i < end <=> day < first
      BY <1>7, <1>10, <1>11, <1>16, <2>2, <2>4, <2>6, <2>9
    <3> QED BY <2>1, <2>2, <2>5, <2>7, <2>9, <3>1
  <2> QED BY <2>8, <2>9
<1>18. CASE passed < length
  <2>1. ASSUME NEW r \in OfDays(zone, previous, previous + passed - 1)
        PROVE  r \in S
    BY <1>5, <1>10, <1>12, <1>17, <1>18 DEF OfDays
  <2>2. ASSUME NEW r \in S
        PROVE  r \in OfDays(zone, previous, previous + passed)
    BY <1>5, <1>9, <1>10, <1>12, <1>13, <1>17, <1>18 DEF OfDays
  <2> QED BY <1>3, <1>13, <1>18, <2>1, <2>2
<1>19. CASE ~(passed < length)
  <2>1. ASSUME NEW r \in OfDays(zone, previous, first - 1)
        PROVE  r \in S
    BY <1>5, <1>17, <1>19 DEF OfDays
  <2>2. ASSUME NEW r \in S
        PROVE  r \in OfDays(zone, previous, first - 1)
    BY <1>5, <1>13, <1>17, <1>19 DEF OfDays
  <2> QED BY <1>3, <1>13, <1>19, <2>1, <2>2
<1> QED BY <1>18, <1>19

\* month_comparison tells what the trends of the two months do.
LEMMA ComparisonAgrees ==
    ASSUME RowsAreRows, ComparisonIsComputed
    PROVE  ComparisonFollowsTrend
<1> DEFINE Between(zone, from, days, totals) ==
               \A field \in Fields :
                   /\ DayTrend(zone, from, from + days - 1)[field] <= totals[field]
                   /\ totals[field] <= DayTrend(zone, from, from + days)[field]
<1>1. SUFFICES
        ASSUME comparison # None,
               NEW zone, zone = comparison.zone,
               NEW now, now = comparison.now,
               NEW first, first = FirstOfMonth(Day(Wall(zone, now))),
               NEW previous, previous = FirstOfMonth(first - 1),
               NEW passed, passed = Day(Moment(Wall(zone, now)))
        PROVE  LET counted == MonthComparison(comparison)
               IN  /\ Between(zone, first, passed, counted.current)
                   /\ MomentExists(zone, now, previous) =>
                        IF passed < DaysInMonth(previous)
                        THEN Between(zone, previous, passed, counted.previous)
                        ELSE counted.previous = DayTrend(zone, previous, first - 1)
  BY DEF ComparisonFollowsTrend, Fields
<1>2. zone \in Zones /\ now \in Clocks(zone) /\ comparison = Compare(zone, now)
  BY <1>1 DEF ComparisonIsComputed
<1>3. /\ first > FirstDay
      /\ comparison.currentStart = StartOf(zone, first)
      /\ comparison.currentEnd = now
      /\ comparison.previousStart = StartOf(zone, previous)
      /\ comparison.previousEnd
         = Instant(zone, UntilWall(zone, now), FoldOf(zone, now))
  BY <1>1, <1>2 DEF Compare
<1>4. PICK S : S = Part(StartOf(zone, first), now)
  OBVIOUS
<1>5. PICK T : T = Part(StartOf(zone, previous),
                        Instant(zone, UntilWall(zone, now), FoldOf(zone, now)))
  OBVIOUS
<1>6. /\ MonthComparison(comparison).current = Bought(S)
      /\ MonthComparison(comparison).previous = Bought(T)
  BY <1>3, <1>4, <1>5 DEF MonthComparison, Bought
<1>7. PICK wall, today : wall = Wall(zone, now) /\ today = Day(wall)
  OBVIOUS
<1>8. wall \in Int /\ today \in Days
  BY <1>2, <1>7, ClockDay
<1>9. PICK length : length = DaysInMonth(previous)
  OBVIOUS
<1>10. /\ first = FirstOfMonth(today)
       /\ first \in Days /\ previous \in Days /\ previous + length = first
  BY <1>1, <1>3, <1>7, <1>8, <1>9, MonthBefore
<1>11. /\ first \in Int /\ previous \in Int /\ length \in Int /\ today \in Int
       /\ first <= today
       /\ first \in FirstDay .. EndOfDays /\ previous \in FirstDay .. EndOfDays
       /\ today \in FirstDay .. EndOfDays /\ today + 1 \in FirstDay .. EndOfDays
  BY <1>8, <1>9, <1>10, MonthBounds, CalendarTypes DEF Days
<1>12. PICK moment : moment = wall - Midnight(first)
  OBVIOUS
<1>13. moment = Moment(wall) /\ passed = Day(moment)
  BY <1>1, <1>7, <1>10, <1>12 DEF Moment
<1>14. passed = today - first /\ passed \in Int
  BY <1>7, <1>8, <1>11, <1>12, <1>13, DaysPassed
<1>15. Between(zone, first, passed, Bought(S))
  <2>1. /\ S \in SUBSET DOMAIN rows
        /\ OfDays(zone, first, today - 1) \subseteq S
        /\ S \subseteq OfDays(zone, first, today)
    BY <1>2, <1>4, <1>7, <1>10, CurrentFollows
  <2>2. PICK last : last = today - 1
    OBVIOUS
  <2>3. last \in Int /\ last + 1 = today
    BY <1>11, <2>2
  <2>4. ASSUME NEW field \in Fields
        PROVE  /\ DayTrend(zone, first, last)[field] <= Bought(S)[field]
               /\ Bought(S)[field] <= DayTrend(zone, first, today)[field]
    BY <1>2, <1>11, <2>1, <2>2, <2>3, CountedBetween
  <2>5. first + passed - 1 = last /\ first + passed = today
    BY <1>11, <1>14, <2>2
  <2> QED BY <2>4, <2>5
<1>16. ASSUME MomentExists(zone, now, previous)
       PROVE  /\ T \in SUBSET DOMAIN rows
              /\ passed < length =>
                   /\ OfDays(zone, previous, previous + passed - 1) \subseteq T
                   /\ T \subseteq OfDays(zone, previous, previous + passed)
              /\ ~(passed < length) => T = OfDays(zone, previous, first - 1)
  <2>1. /\ T \in SUBSET DOMAIN rows
        /\ passed < DaysInMonth(previous) =>
             /\ OfDays(zone, previous, previous + passed - 1) \subseteq T
             /\ T \subseteq OfDays(zone, previous, previous + passed)
        /\ ~(passed < DaysInMonth(previous)) => T = OfDays(zone, previous, first - 1)
    <3>1. Compared(zone, now, first, previous, passed)
      BY <1>1, <1>3 DEF Compared
    <3> QED BY <1>2, <1>5, <1>16, <3>1, PreviousFollows
  <2> QED BY <1>9, <2>1
<1>17. ASSUME MomentExists(zone, now, previous), passed < length
       PROVE  Between(zone, previous, passed, Bought(T))
  <2>1. PICK last, day : last = previous + passed - 1 /\ day = previous + passed
    OBVIOUS
  <2>2. /\ last \in Int /\ day \in Int
        /\ last + 1 \in FirstDay .. EndOfDays
        /\ day + 1 \in FirstDay .. EndOfDays
    <3>1. FirstDay \in Int /\ EndOfDays \in Int /\ 0 <= passed
      BY <1>11, <1>14, CalendarTypes
    <3> QED BY <1>10, <1>11, <1>14, <1>17, <2>1, <3>1
  <2>3. ASSUME NEW field \in Fields
        PROVE  /\ DayTrend(zone, previous, last)[field] <= Bought(T)[field]
               /\ Bought(T)[field] <= DayTrend(zone, previous, day)[field]
    BY <1>2, <1>11, <1>16, <1>17, <2>1, <2>2, CountedBetween
  <2> QED BY <2>1, <2>3
<1>18. ASSUME MomentExists(zone, now, previous), ~(passed < length)
       PROVE  Bought(T) = DayTrend(zone, previous, first - 1)
  <2>1. PICK last : last = first - 1
    OBVIOUS
  <2>2. last \in Int /\ last + 1 \in FirstDay .. EndOfDays
    BY <1>11, <2>1
  <2>3. DayTrend(zone, previous, last) = Bought(OfDays(zone, previous, last))
    BY <1>2, <1>11, <2>2, DayTrendTells
  <2> QED BY <1>16, <1>18, <2>1, <2>3
<1> HIDE DEF Between
<1> QED BY <1>6, <1>9, <1>15, <1>17, <1>18

-----------------------------------------------------------------------------
(***************************************************************************)
(* Sequences in an order of all that is in them: there is one.              *)
(***************************************************************************)

\* One thing comes after another in a strict order of all there is.
Ordering(R, S) ==
    /\ \A x \in S : <<x, x>> \notin R
    /\ \A x, y \in S : x # y => <<x, y>> \in R \/ <<y, x>> \in R
    /\ \A x, y, z \in S :
          <<x, y>> \in R /\ <<y, z>> \in R => <<x, z>> \in R

Sorted(R, S) ==
    {s \in SetToSeqs(S) : \A i, j \in DOMAIN s : i < j => <<s[j], s[i]>> \notin R}

Before(R, S, x) == {y \in S : <<y, x>> \in R}

\* The place of a thing is by how many come before it.
Place(R, S, x) == Cardinality(Before(R, S, x)) + 1

\* SetToSeqs has the sequences with every element at one place.
LEMMA SequencesAre ==
  ASSUME NEW S, NEW s
  PROVE  s \in SetToSeqs(S) <=>
           /\ s \in [1 .. Cardinality(S) -> S]
           /\ \A i, j \in 1 .. Cardinality(S) : s[i] = s[j] => i = j
BY DEF SetToSeqs

\* Every element is in such a sequence.
LEMMA SequencesHaveAll ==
  ASSUME NEW S, IsFiniteSet(S), NEW s \in SetToSeqs(S)
  PROVE  /\ DOMAIN s = 1 .. Cardinality(S)
         /\ \A x \in S : \E i \in DOMAIN s : s[i] = x
         /\ {s[i] : i \in DOMAIN s} = S
<1> DEFINE n == Cardinality(S)
<1>1. n \in Nat
  BY FS_CardinalityType
<1>2. s \in [1 .. n -> S] /\ \A i, j \in 1 .. n : s[i] = s[j] => i = j
  BY SequencesAre
<1>3. IsFiniteSet(1 .. n) /\ Cardinality(1 .. n) = n
  BY <1>1, FS_Interval
<1>4. s \in Injection(1 .. n, S)
  BY <1>2 DEF Injection, IsInjective
<1>5. s \in Surjection(1 .. n, S)
  BY <1>3, <1>4, FS_Injection
<1>6. \A x \in S : \E i \in 1 .. n : s[i] = x
  BY <1>5 DEF Surjection
<1> QED BY <1>2, <1>6

\* The places by an order are different, in the order, and all there are.
LEMMA Places ==
  ASSUME NEW S, IsFiniteSet(S), NEW R, Ordering(R, S)
  PROVE  /\ \A x \in S : Place(R, S, x) \in 1 .. Cardinality(S)
         /\ \A x, y \in S : <<x, y>> \in R => Place(R, S, x) < Place(R, S, y)
         /\ \A x, y \in S : Place(R, S, x) = Place(R, S, y) => x = y
<1>1. \A x \in S : /\ IsFiniteSet(Before(R, S, x)) /\ x \notin Before(R, S, x)
                   /\ Before(R, S, x) \in SUBSET S
                   /\ Cardinality(Before(R, S, x)) \in Nat
  <2> SUFFICES ASSUME NEW x \in S
               PROVE  /\ IsFiniteSet(Before(R, S, x)) /\ x \notin Before(R, S, x)
                      /\ Before(R, S, x) \in SUBSET S
                      /\ Cardinality(Before(R, S, x)) \in Nat
    OBVIOUS
  <2>1. x \notin Before(R, S, x) /\ Before(R, S, x) \in SUBSET S
    BY DEF Before, Ordering
  <2> QED BY <2>1, FS_Subset, FS_CardinalityType
<1>2. ASSUME NEW x \in S, NEW T \in SUBSET S, Before(R, S, x) \union {x} \subseteq T
      PROVE  Place(R, S, x) <= Cardinality(T)
  <2>1. Cardinality(Before(R, S, x) \union {x}) = Cardinality(Before(R, S, x)) + 1
    BY <1>1, FS_AddElement
  <2>2. IsFiniteSet(T)
    BY FS_Subset
  <2> QED BY <1>2, <2>1, <2>2, FS_Subset DEF Place
<1>3. \A x \in S : Place(R, S, x) \in 1 .. Cardinality(S)
  <2>1. Cardinality(S) \in Nat
    BY FS_CardinalityType
  <2>2. ASSUME NEW x \in S PROVE Place(R, S, x) <= Cardinality(S)
    BY <1>1, <1>2
  <2> QED BY <1>1, <2>1, <2>2 DEF Place
<1>4. ASSUME NEW x \in S, NEW y \in S, <<x, y>> \in R
      PROVE  Place(R, S, x) < Place(R, S, y)
  <2>1. Before(R, S, x) \union {x} \subseteq Before(R, S, y)
    BY <1>4 DEF Before, Ordering
  <2>2. Place(R, S, x) <= Cardinality(Before(R, S, y))
    BY <1>1, <1>2, <2>1
  <2> QED BY <1>1, <2>2 DEF Place
<1>5. ASSUME NEW x \in S, NEW y \in S, Place(R, S, x) = Place(R, S, y)
      PROVE  x = y
  <2>1. Place(R, S, x) \in Int /\ Place(R, S, y) \in Int
    BY <1>3
  <2>2. CASE <<x, y>> \in R
    BY <1>4, <1>5, <2>1, <2>2
  <2>3. CASE <<y, x>> \in R
    BY <1>4, <1>5, <2>1, <2>3
  <2> QED BY <2>2, <2>3 DEF Ordering
<1> QED BY <1>3, <1>4, <1>5

\* There is one way to put finitely many things in order.
LEMMA OneOrder ==
  ASSUME NEW S, IsFiniteSet(S), NEW R, Ordering(R, S)
  PROVE  \E s \in SetToSeqs(S) : Sorted(R, S) = {s}
<1> DEFINE n == Cardinality(S)
           place == [x \in S |-> Place(R, S, x)]
           s == [i \in 1 .. n |-> CHOOSE x \in S : place[x] = i]
<1>1. n \in Nat /\ IsFiniteSet(1 .. n) /\ Cardinality(1 .. n) = n
  BY FS_CardinalityType, FS_Interval
<1>2. /\ place \in [S -> 1 .. n]
      /\ \A x, y \in S : <<x, y>> \in R => place[x] < place[y]
      /\ \A x, y \in S : place[x] = place[y] => x = y
  BY Places
<1> HIDE DEF place
<1>3. place \in Injection(S, 1 .. n)
  BY <1>2 DEF Injection, IsInjective
<1>4. place \in Surjection(S, 1 .. n)
  BY <1>1, <1>3, FS_Injection
<1>5. \A i \in 1 .. n : s[i] \in S /\ place[s[i]] = i
  BY <1>4 DEF Surjection
<1>6. s \in [1 .. n -> S]
  BY <1>5
<1> HIDE DEF s
<1>7. s \in SetToSeqs(S)
  BY <1>5, <1>6, SequencesAre
<1>8. s \in Sorted(R, S)
  <2>1. ASSUME NEW i \in 1 .. n, NEW j \in 1 .. n, i < j, <<s[j], s[i]>> \in R
        PROVE  FALSE
    <3>1. place[s[j]] < place[s[i]]
      BY <1>2, <1>5, <2>1
    <3> QED BY <1>5, <2>1, <3>1
  <2> QED BY <1>6, <1>7, <2>1 DEF Sorted
<1>9. ASSUME NEW t \in Sorted(R, S)
      PROVE  t = s
  <2>1. /\ t \in SetToSeqs(S)
        /\ \A i, j \in DOMAIN t : i < j => <<t[j], t[i]>> \notin R
    BY DEF Sorted
  <2>2. /\ t \in [1 .. n -> S] /\ \A i, j \in 1 .. n : t[i] = t[j] => i = j
        /\ \A x \in S : \E i \in 1 .. n : t[i] = x
    <3>1. DOMAIN t = 1 .. n /\ \A x \in S : \E i \in DOMAIN t : t[i] = x
      BY <2>1, SequencesHaveAll
    <3>2. t \in [1 .. n -> S] /\ \A i, j \in 1 .. n : t[i] = t[j] => i = j
      BY <2>1, SequencesAre
    <3> QED BY <3>1, <3>2
  <2>3. ASSUME NEW i \in 1 .. n
        PROVE  t[i] = s[i]
    <3> DEFINE earlier == [j \in 1 .. i - 1 |-> t[j]]
               before == Before(R, S, t[i])
    <3>1. i - 1 \in Nat /\ 1 .. i - 1 \subseteq 1 .. n
      BY <1>1
    <3>2. ASSUME NEW j \in 1 .. n
          PROVE  <<t[j], t[i]>> \in R <=> j < i
      <4>1. CASE j = i
        BY <2>2, <4>1 DEF Ordering
      <4>2. CASE j < i
        <5>1. <<t[i], t[j]>> \notin R /\ t[i] # t[j]
          BY <2>1, <2>2, <4>2
        <5> QED BY <2>2, <4>2, <5>1 DEF Ordering
      <4>3. CASE i < j
        BY <2>1, <2>2, <4>3
      <4> QED BY <1>1, <4>1, <4>2, <4>3
    <3>3. earlier \in [1 .. i - 1 -> before]
      BY <1>1, <2>2, <3>1, <3>2 DEF Before
    <3>4. \A x \in before : \E j \in 1 .. i - 1 : earlier[j] = x
      <4>1. ASSUME NEW x \in before
            PROVE  \E j \in 1 .. i - 1 : t[j] = x
        <5>1. x \in S /\ <<x, t[i]>> \in R
          BY DEF Before
        <5>2. PICK j \in 1 .. n : t[j] = x
          BY <2>2, <5>1
        <5>3. j < i
          BY <3>2, <5>1, <5>2
        <5> QED BY <1>1, <5>2, <5>3
      <4> QED BY <4>1
    <3>5. \A j, k \in 1 .. i - 1 : earlier[j] = earlier[k] => j = k
      BY <2>2, <3>1
    <3>6. earlier \in Bijection(1 .. i - 1, before)
      BY <3>3, <3>4, <3>5 DEF Bijection, Injection, Surjection, IsInjective
    <3>7. Cardinality(before) = i - 1
      BY <3>1, <3>6, FS_CountingElements DEF ExistsBijection
    <3>8. place[t[i]] = i
      <4>1. t[i] \in S /\ i - 1 + 1 = i
        BY <2>2
      <4> QED BY <3>7, <4>1 DEF Place, place
    <3>9. t[i] \in S /\ s[i] \in S
      BY <2>2, <1>6
    <3> QED BY <1>2, <1>5, <3>8, <3>9
  <2>4. t \in [1 .. n -> S] /\ \A i \in 1 .. n : t[i] = s[i]
    BY <2>2, <2>3
  <2>5. t = [i \in 1 .. n |-> t[i]] /\ s = [i \in 1 .. n |-> s[i]]
    BY <1>6, <2>4
  <2> QED BY <2>4, <2>5
<1> QED BY <1>7, <1>8, <1>9

\* The first rows of a list begin with the first of them.
LEMMA ShorterIsPrefix ==
    ASSUME NEW S, NEW s \in Seq(S), NEW n \in Nat,
           NEW a, a = SubSeq(s, 1, Least(n, Len(s))),
           NEW b, b = SubSeq(s, 1, Least(n + 1, Len(s)))
    PROVE  IsPrefix(a, b)
<1>1. Len(s) \in Nat
  OBVIOUS
<1>2. PICK p, q : p = Least(n, Len(s)) /\ q = Least(n + 1, Len(s))
  OBVIOUS
<1>3. p \in 0 .. Len(s) /\ q \in 0 .. Len(s) /\ p <= q
  BY <1>1, <1>2 DEF Least
<1>4. a = SubSeq(s, 1, p) /\ b = SubSeq(s, 1, q)
  BY <1>2
<1>5. ASSUME NEW t \in Seq(S), NEW k \in 0 .. Len(t)
      PROVE  /\ SubSeq(t, 1, k) \in Seq(S) /\ Len(SubSeq(t, 1, k)) = k
             /\ SubSeq(t, 1, k) = [i \in 1 .. k |-> t[i]]
  BY <1>5
<1>6. /\ b \in Seq(S) /\ Len(b) = q /\ b = [i \in 1 .. q |-> s[i]]
      /\ a \in Seq(S) /\ Len(a) = p /\ a = [i \in 1 .. p |-> s[i]]
  BY <1>3, <1>4, <1>5
<1>7. /\ SubSeq(a, 1, p) = [i \in 1 .. p |-> a[i]]
      /\ SubSeq(b, 1, p) = [i \in 1 .. p |-> b[i]]
  BY <1>3, <1>5, <1>6
<1>8. [i \in 1 .. p |-> a[i]] = [i \in 1 .. p |-> b[i]]
  BY <1>3, <1>6
<1> QED BY <1>3, <1>6, <1>7, <1>8 DEF IsPrefix

-----------------------------------------------------------------------------
(***************************************************************************)
(* Lines, grouped by what an operator tells of them.                        *)
(***************************************************************************)

\* GroupBy with functions for its operators.
Group(key, lines, name) == {l \in lines : key[l] = name}

Grouped(key, lines, amount, name) ==
    [ name |-> name,
      amount |-> SumOver(amount, Group(key, lines, name)),
      purchases |-> Cardinality({l.receipt : l \in Group(key, lines, name)}) ]

Names(key, lines) == {key[l] : l \in lines}

Groups(key, lines, amount) ==
    {Grouped(key, lines, amount, name) : name \in Names(key, lines)}

\* There are finitely many groups, one for every name.
LEMMA GroupsAre ==
    ASSUME NEW lines, IsFiniteSet(lines), NEW key,
           NEW amount, \A l \in lines : amount[l] \in Int
    PROVE  /\ IsFiniteSet(Names(key, lines))
           /\ IsFiniteSet(Groups(key, lines, amount))
           /\ \A g \in Groups(key, lines, amount) :
                 /\ g.name \in Names(key, lines)
                 /\ g.amount \in Int /\ g.purchases \in Int
                 /\ g = Grouped(key, lines, amount, g.name)
           /\ \A g, h \in Groups(key, lines, amount) : g.name = h.name => g = h
<1>1. IsFiniteSet(Names(key, lines))
  BY ImageIsFinite DEF Names
<1>2. IsFiniteSet(Groups(key, lines, amount))
  <2> DEFINE f == [name \in Names(key, lines) |->
                      Grouped(key, lines, amount, name)]
             names == Names(key, lines)
  <2>1. Groups(key, lines, amount) = {f[name] : name \in names}
    BY DEF Groups
  <2> HIDE DEF f, names
  <2>2. IsFiniteSet(names)
    BY <1>1 DEF names
  <2> QED BY <2>1, <2>2, ImageIsFinite
<1>3. ASSUME NEW g \in Groups(key, lines, amount)
      PROVE  /\ g.name \in Names(key, lines)
             /\ g.amount \in Int /\ g.purchases \in Int
             /\ g = Grouped(key, lines, amount, g.name)
  <2>1. PICK name \in Names(key, lines) : g = Grouped(key, lines, amount, name)
    BY DEF Groups
  <2>2. PICK group : group = Group(key, lines, name)
    OBVIOUS
  <2>3. group \subseteq lines /\ IsFiniteSet(group)
    BY <2>2, FS_Subset DEF Group
  <2>4. SumOver(amount, group) \in Int
    BY <2>3, SumType
  <2>5. Cardinality({l.receipt : l \in group}) \in Nat
    <3> DEFINE f == [l \in group |-> l.receipt]
    <3>1. PICK T : T = {l.receipt : l \in group}
      OBVIOUS
    <3>2. T = {f[l] : l \in group}
      BY <3>1
    <3> HIDE DEF f
    <3>3. IsFiniteSet(T)
      BY <2>3, <3>2, ImageIsFinite
    <3> QED BY <3>1, <3>3, FS_CardinalityType
  <2>6. /\ g.name = name
        /\ g.amount = SumOver(amount, group)
        /\ g.purchases = Cardinality({l.receipt : l \in group})
    BY <2>1, <2>2 DEF Grouped
  <2> QED BY <2>1, <2>4, <2>5, <2>6
<1> QED BY <1>1, <1>2, <1>3

-----------------------------------------------------------------------------
\* A sum over some lines, of which the function knows more.
LEMMA SumOfPrices ==
    ASSUME NEW group, IsFiniteSet(group), \A l \in group : l.item.price \in Int
    PROVE  MapThenSumSet(LAMBDA l : l.item.price, group)
           = SumOver([l \in group |-> l.item.price], group)
<1> DEFINE F == [l \in group |-> l.item.price]
           Of(g) == g = [s \in SUBSET group |->
                           IF s = {} THEN 0
                           ELSE Choice(s).item.price + g[s \ {Choice(s)}]]
           h == CHOOSE g : Of(g)
<1>1. ASSUME NEW g
      PROVE  Of(g) <=> Folding(F, group, g)
  BY ChoiceTypes DEF Folding
<1>2. MapThenSumSet(LAMBDA l : l.item.price, group) = h[group]
  BY DEF MapThenSumSet, MapThenFoldSet, Choice
<1>3. \A l \in group : F[l] \in Int
  OBVIOUS
<1> HIDE DEF F, Of
<1>4. (\E g : Folding(F, group, g)) => Folding(F, group, h)
  BY <1>1
<1> QED BY <1>2, <1>3, <1>4, SumIsChosen DEF F

\* A sum over the receipts of some lines.
LEMMA SumOfReceipts ==
    ASSUME NEW group, IsFiniteSet(group),
           \A l \in group : rows[l.receipt].total \in Int
    PROVE  MapThenSumSet(LAMBDA l : Total(l.receipt), group)
           = SumOver([l \in group |-> rows[l.receipt].total], group)
<1> DEFINE F == [l \in group |-> rows[l.receipt].total]
           Of(g) == g = [s \in SUBSET group |->
                           IF s = {} THEN 0
                           ELSE Total(Choice(s).receipt) + g[s \ {Choice(s)}]]
           h == CHOOSE g : Of(g)
<1>1. ASSUME NEW g
      PROVE  Of(g) <=> Folding(F, group, g)
  BY ChoiceTypes DEF Folding, Total
<1>2. MapThenSumSet(LAMBDA l : Total(l.receipt), group) = h[group]
  BY DEF MapThenSumSet, MapThenFoldSet, Choice
<1>3. \A l \in group : F[l] \in Int
  OBVIOUS
<1> HIDE DEF F, Of
<1>4. (\E g : Folding(F, group, g)) => Folding(F, group, h)
  BY <1>1
<1> QED BY <1>2, <1>3, <1>4, SumIsChosen DEF F

\* The lines of a query are finitely many, of confirmed receipts of its period.
LEMMA LinesAre ==
    ASSUME RowsAreRows, NEW p
    PROVE  /\ IsFiniteSet(Filters(p)) /\ Filters(p) \subseteq DOMAIN rows
           /\ IsFiniteSet(Lines(p))
           /\ \A r \in Filters(p) : rows[r].items \in Seq(Item)
           /\ \A l : l \in Lines(p) <=>
                 \E r \in Filters(p) : \E n \in DOMAIN rows[r].items :
                    l = [receipt |-> r, n |-> n, item |-> rows[r].items[n]]
           /\ \A l \in Lines(p) :
                 /\ l.receipt \in Filters(p)
                 /\ l.n \in DOMAIN rows[l.receipt].items
                 /\ l.item = rows[l.receipt].items[l.n]
                 /\ l.item \in Item
<1> DEFINE S == Filters(p)
           LinesOf(r) == {[receipt |-> r, n |-> n, item |-> rows[r].items[n]] :
                             n \in DOMAIN rows[r].items}
<1>1. S \subseteq DOMAIN rows
  BY DEF Filters
<1>2. IsFiniteSet(S)
  BY <1>1, FoundAreRows
<1>3. \A r \in S : rows[r].items \in Seq(Item)
  BY <1>1, RowTypes
<1>4. ASSUME NEW r \in S
      PROVE  IsFiniteSet(LinesOf(r))
  <2> DEFINE D == DOMAIN rows[r].items
             f == [n \in D |-> [receipt |-> r, n |-> n, item |-> rows[r].items[n]]]
  <2>1. PICK len \in Nat : D = 1 .. len
    BY <1>3
  <2>2. IsFiniteSet(D)
    BY <2>1, FS_Interval
  <2>3. PICK T : T = LinesOf(r)
    OBVIOUS
  <2>4. T = {f[n] : n \in D}
    BY <2>3
  <2> HIDE DEF f, D
  <2>5. IsFiniteSet(T)
    BY <2>2, <2>4, ImageIsFinite
  <2> QED BY <2>3, <2>5
<1>5. IsFiniteSet({LinesOf(r) : r \in S})
  <2> DEFINE f == [r \in S |-> LinesOf(r)]
  <2>1. PICK T : T = {LinesOf(r) : r \in S}
    OBVIOUS
  <2>2. T = {f[r] : r \in S}
    BY <2>1
  <2> HIDE DEF f, S, LinesOf
  <2>3. IsFiniteSet(T)
    BY <1>2, <2>2, ImageIsFinite
  <2> QED BY <2>1, <2>3
<1>6. IsFiniteSet(UNION {LinesOf(r) : r \in S})
  <2>1. \A T \in {LinesOf(r) : r \in S} : IsFiniteSet(T)
    BY <1>4
  <2> HIDE DEF LinesOf, S
  <2> QED BY <1>5, <2>1, FS_UNION
<1>7. Lines(p) = UNION {LinesOf(r) : r \in S}
  BY DEF Lines
<1>8. ASSUME NEW l
      PROVE  l \in Lines(p) <=>
                 \E r \in S : \E n \in DOMAIN rows[r].items :
                    l = [receipt |-> r, n |-> n, item |-> rows[r].items[n]]
  BY <1>7
<1>9. ASSUME NEW l \in Lines(p)
      PROVE  /\ l.receipt \in S
             /\ l.n \in DOMAIN rows[l.receipt].items
             /\ l.item = rows[l.receipt].items[l.n]
             /\ l.item \in Item
  <2>1. PICK r \in S : \E n \in DOMAIN rows[r].items :
            l = [receipt |-> r, n |-> n, item |-> rows[r].items[n]]
    BY <1>8
  <2>2. PICK n \in DOMAIN rows[r].items :
            l = [receipt |-> r, n |-> n, item |-> rows[r].items[n]]
    BY <2>1
  <2>3. l.receipt = r /\ l.n = n /\ l.item = rows[r].items[n]
    BY <2>2
  <2>4. rows[r].items[n] \in Item
    BY <1>3, <2>2
  <2> QED BY <2>2, <2>3, <2>4
<1> HIDE DEF LinesOf
<1> QED BY <1>1, <1>2, <1>3, <1>6, <1>7, <1>8, <1>9

\* A sum over the prices of some of the lines.
LEMMA PricesInGroup ==
    ASSUME NEW lines, IsFiniteSet(lines), \A l \in lines : l.item.price \in Int,
           NEW amount, amount = [l \in lines |-> l.item.price],
           NEW group, group \subseteq lines
    PROVE  MapThenSumSet(LAMBDA l : l.item.price, group) = SumOver(amount, group)
<1> DEFINE F == [l \in group |-> l.item.price]
<1>1. /\ IsFiniteSet(group)
      /\ \A l \in group : l.item.price \in Int
      /\ \A l \in group : F[l] \in Int /\ F[l] = amount[l]
  BY FS_Subset
<1>2. MapThenSumSet(LAMBDA l : l.item.price, group) = SumOver(F, group)
  BY <1>1, SumOfPrices
<1> HIDE DEF F
<1> QED BY <1>1, <1>2, SumEqual

\* The groups of categories.
LEMMA CategoryGroups ==
    ASSUME NEW lines, IsFiniteSet(lines), \A l \in lines : l.item.price \in Int,
           NEW key, key = [l \in lines |-> l.item.category],
           NEW amount, amount = [l \in lines |-> l.item.price]
    PROVE  GroupBy(LAMBDA l : l.item.category, lines, LAMBDA l : l.item.price)
           = Groups(key, lines, amount)
<1> DEFINE R(name) == LET group == {l \in lines : l.item.category = name}
                      IN  [ name |-> name,
                            amount |-> MapThenSumSet(LAMBDA l : l.item.price, group),
                            purchases |-> Cardinality({l.receipt : l \in group}) ]
<1>1. GroupBy(LAMBDA l : l.item.category, lines, LAMBDA l : l.item.price)
      = {R(name) : name \in {l.item.category : l \in lines}}
  BY DEF GroupBy
<1>2. {l.item.category : l \in lines} = Names(key, lines)
  BY DEF Names
<1>3. ASSUME NEW name
      PROVE  R(name) = Grouped(key, lines, amount, name)
  <2>1. PICK group : group = {l \in lines : l.item.category = name}
    OBVIOUS
  <2>2. group \subseteq lines /\ group = Group(key, lines, name)
    BY <2>1 DEF Group
  <2>3. MapThenSumSet(LAMBDA l : l.item.price, group) = SumOver(amount, group)
    BY <2>2, PricesInGroup
  <2>4. R(name) = [ name |-> name,
                    amount |-> MapThenSumSet(LAMBDA l : l.item.price, group),
                    purchases |-> Cardinality({l.receipt : l \in group}) ]
    BY <2>1
  <2> QED BY <2>2, <2>3, <2>4 DEF Grouped
<1> HIDE DEF R
<1> QED BY <1>1, <1>2, <1>3 DEF Groups

\* The groups of products.
LEMMA ProductGroups ==
    ASSUME NEW lines, IsFiniteSet(lines), \A l \in lines : l.item.price \in Int,
           NEW key, key = [l \in lines |-> l.item.product],
           NEW amount, amount = [l \in lines |-> l.item.price]
    PROVE  GroupBy(LAMBDA l : l.item.product, lines, LAMBDA l : l.item.price)
           = Groups(key, lines, amount)
<1> DEFINE R(name) == LET group == {l \in lines : l.item.product = name}
                      IN  [ name |-> name,
                            amount |-> MapThenSumSet(LAMBDA l : l.item.price, group),
                            purchases |-> Cardinality({l.receipt : l \in group}) ]
<1>1. GroupBy(LAMBDA l : l.item.product, lines, LAMBDA l : l.item.price)
      = {R(name) : name \in {l.item.product : l \in lines}}
  BY DEF GroupBy
<1>2. {l.item.product : l \in lines} = Names(key, lines)
  BY DEF Names
<1>3. ASSUME NEW name
      PROVE  R(name) = Grouped(key, lines, amount, name)
  <2>1. PICK group : group = {l \in lines : l.item.product = name}
    OBVIOUS
  <2>2. group \subseteq lines /\ group = Group(key, lines, name)
    BY <2>1 DEF Group
  <2>3. MapThenSumSet(LAMBDA l : l.item.price, group) = SumOver(amount, group)
    BY <2>2, PricesInGroup
  <2>4. R(name) = [ name |-> name,
                    amount |-> MapThenSumSet(LAMBDA l : l.item.price, group),
                    purchases |-> Cardinality({l.receipt : l \in group}) ]
    BY <2>1
  <2> QED BY <2>2, <2>3, <2>4 DEF Grouped
<1> HIDE DEF R
<1> QED BY <1>1, <1>2, <1>3 DEF Groups

\* The groups of stores.
LEMMA StoreGroups ==
    ASSUME NEW lines, IsFiniteSet(lines),
           \A l \in lines : rows[l.receipt].total \in Int,
           NEW key, key = [l \in lines |-> rows[l.receipt].store],
           NEW amount, amount = [l \in lines |-> rows[l.receipt].total]
    PROVE  GroupBy(LAMBDA l : rows[l.receipt].store, lines,
                   LAMBDA l : Total(l.receipt))
           = Groups(key, lines, amount)
<1> DEFINE R(name) == LET group == {l \in lines : rows[l.receipt].store = name}
                      IN  [ name |-> name,
                            amount |-> MapThenSumSet(LAMBDA l : Total(l.receipt), group),
                            purchases |-> Cardinality({l.receipt : l \in group}) ]
<1>1. GroupBy(LAMBDA l : rows[l.receipt].store, lines, LAMBDA l : Total(l.receipt))
      = {R(name) : name \in {rows[l.receipt].store : l \in lines}}
  BY DEF GroupBy
<1>2. {rows[l.receipt].store : l \in lines} = Names(key, lines)
  BY DEF Names
<1>3. ASSUME NEW name
      PROVE  R(name) = Grouped(key, lines, amount, name)
  <2>1. PICK group : group = {l \in lines : rows[l.receipt].store = name}
    OBVIOUS
  <2>2. group \subseteq lines /\ group = Group(key, lines, name)
    BY <2>1 DEF Group
  <2> DEFINE F == [l \in group |-> rows[l.receipt].total]
  <2>3. /\ IsFiniteSet(group)
        /\ \A l \in group : rows[l.receipt].total \in Int
        /\ \A l \in group : F[l] \in Int /\ F[l] = amount[l]
    BY <2>2, FS_Subset
  <2>4. MapThenSumSet(LAMBDA l : Total(l.receipt), group) = SumOver(F, group)
    BY <2>3, SumOfReceipts
  <2>5. SumOver(F, group) = SumOver(amount, group)
    <3> HIDE DEF F
    <3> QED BY <2>3, SumEqual
  <2>6. R(name) = [ name |-> name,
                    amount |-> MapThenSumSet(LAMBDA l : Total(l.receipt), group),
                    purchases |-> Cardinality({l.receipt : l \in group}) ]
    BY <2>1
  <2> HIDE DEF F
  <2> QED BY <2>2, <2>4, <2>5, <2>6 DEF Grouped
<1> HIDE DEF R
<1> QED BY <1>1, <1>2, <1>3 DEF Groups

-----------------------------------------------------------------------------
(***************************************************************************)
(* The orders of the answers.                                               *)
(***************************************************************************)

CategoryOrder(S) == {x \in S \X S : CategoryBefore(x[1], x[2])}

ProductOrder(sortBy, S) == {x \in S \X S : ProductBefore(sortBy, x[1], x[2])}

\* A result with a row for every name.
IsResult(S) ==
    /\ IsFiniteSet(S)
    /\ \A a \in S : /\ a.name \in Nat \cup {None}
                    /\ a.amount \in Int /\ a.purchases \in Int
    /\ \A a, b \in S : a.name = b.name => a = b

\* asc().nulls_last() orders all names, the missing one included.
LEMMA NamesInOrder ==
    ASSUME NEW a \in Nat \cup {None}, NEW b \in Nat \cup {None},
           NEW c \in Nat \cup {None}
    PROVE  /\ ~NameBefore(a, a)
           /\ a = b \/ NameBefore(a, b) \/ NameBefore(b, a)
           /\ NameBefore(a, b) /\ NameBefore(b, c) => NameBefore(a, c)
<1>1. None \notin Nat
  BY TotalsConstants
<1> QED BY <1>1 DEF NameBefore

\* coalesce() gives every category a name.
LEMMA CategoryNames ==
    ASSUME NEW a \in Nat \cup {None}
    PROVE  CategoryName(a) \in Nat
BY TotalsConstants DEF CategoryName

\* The ORDER BY of categories leaves nothing open, though "no category"
\* and a category of that name share it.
LEMMA CategoriesInOrder ==
    ASSUME NEW S, IsResult(S)
    PROVE  Ordering(CategoryOrder(S), S)
<1>1. \A a, b \in S : <<a, b>> \in CategoryOrder(S) <=> CategoryBefore(a, b)
  BY DEF CategoryOrder
<1>2. ASSUME NEW a \in S, NEW b \in S, NEW c \in S
      PROVE  /\ ~CategoryBefore(a, a)
             /\ a # b => CategoryBefore(a, b) \/ CategoryBefore(b, a)
             /\ CategoryBefore(a, b) /\ CategoryBefore(b, c) => CategoryBefore(a, c)
  <2>1. /\ a.name \in Nat \cup {None} /\ a.amount \in Int
        /\ b.name \in Nat \cup {None} /\ b.amount \in Int
        /\ c.name \in Nat \cup {None} /\ c.amount \in Int
        /\ a.name = b.name => a = b
    BY DEF IsResult
  <2>2. PICK x, y, z : /\ x = CategoryName(a.name) /\ y = CategoryName(b.name)
                       /\ z = CategoryName(c.name)
    OBVIOUS
  <2>3. x \in Nat /\ y \in Nat /\ z \in Nat
    BY <2>1, <2>2, CategoryNames
  <2>4. /\ ~NameBefore(a.name, a.name)
        /\ a.name = b.name \/ NameBefore(a.name, b.name) \/ NameBefore(b.name, a.name)
        /\ NameBefore(a.name, b.name) /\ NameBefore(b.name, c.name)
             => NameBefore(a.name, c.name)
    BY <2>1, NamesInOrder
  <2> QED BY <2>1, <2>2, <2>3, <2>4 DEF CategoryBefore
<1> QED BY <1>1, <1>2 DEF Ordering

\* The ORDER BY of products leaves nothing open, by either measure.
LEMMA ProductsInOrder ==
    ASSUME NEW S, IsResult(S), NEW sortBy
    PROVE  Ordering(ProductOrder(sortBy, S), S)
<1>1. \A a, b \in S :
         <<a, b>> \in ProductOrder(sortBy, S) <=> ProductBefore(sortBy, a, b)
  BY DEF ProductOrder
<1>2. ASSUME NEW a \in S, NEW b \in S, NEW c \in S
      PROVE  /\ ~ProductBefore(sortBy, a, a)
             /\ a # b => ProductBefore(sortBy, a, b) \/ ProductBefore(sortBy, b, a)
             /\ ProductBefore(sortBy, a, b) /\ ProductBefore(sortBy, b, c)
                  => ProductBefore(sortBy, a, c)
  <2>1. /\ a.name \in Nat \cup {None} /\ a.amount \in Int /\ a.purchases \in Int
        /\ b.name \in Nat \cup {None} /\ b.amount \in Int /\ b.purchases \in Int
        /\ c.name \in Nat \cup {None} /\ c.amount \in Int /\ c.purchases \in Int
        /\ a.name = b.name => a = b
    BY DEF IsResult
  <2>2. /\ ~NameBefore(a.name, a.name)
        /\ a.name = b.name \/ NameBefore(a.name, b.name) \/ NameBefore(b.name, a.name)
        /\ NameBefore(a.name, b.name) /\ NameBefore(b.name, c.name)
             => NameBefore(a.name, c.name)
    BY <2>1, NamesInOrder
  <2>3. CASE sortBy = "amount"
    BY <2>1, <2>2, <2>3 DEF ProductBefore
  <2>4. CASE sortBy # "amount"
    BY <2>1, <2>2, <2>4 DEF ProductBefore
  <2> QED BY <2>3, <2>4
<1> QED BY <1>1, <1>2 DEF Ordering

\* There is one answer, and it has the rows of the result.
LEMMA OneOrderOfCategories ==
    ASSUME NEW S, IsResult(S)
    PROVE  \E s \in SetToSeqs(S) : OrderBy(CategoryBefore, S) = {s}
<1>1. PICK s \in SetToSeqs(S) : Sorted(CategoryOrder(S), S) = {s}
  BY CategoriesInOrder, OneOrder DEF IsResult
<1>2. OrderBy(CategoryBefore, S) = Sorted(CategoryOrder(S), S)
  <2>1. ASSUME NEW t \in SetToSeqs(S)
        PROVE  (\A i, j \in DOMAIN t : i < j => ~CategoryBefore(t[j], t[i]))
               <=> (\A i, j \in DOMAIN t :
                       i < j => <<t[j], t[i]>> \notin CategoryOrder(S))
    <3>1. \A i \in DOMAIN t : t[i] \in S
      BY SequencesAre
    <3> QED BY <3>1 DEF CategoryOrder
  <2> QED BY <2>1 DEF OrderBy, Sorted
<1> QED BY <1>1, <1>2

OrderOfProducts(sortBy, S) ==
    OrderBy(LAMBDA a, b : ProductBefore(sortBy, a, b), S)

\* There is one answer of the query for products.
LEMMA OneOrderOfProducts ==
    ASSUME NEW S, IsResult(S), NEW sortBy
    PROVE  \E s \in SetToSeqs(S) : OrderOfProducts(sortBy, S) = {s}
<1>1. PICK s \in SetToSeqs(S) : Sorted(ProductOrder(sortBy, S), S) = {s}
  BY ProductsInOrder, OneOrder DEF IsResult
<1>2. OrderOfProducts(sortBy, S) = Sorted(ProductOrder(sortBy, S), S)
  <2>1. ASSUME NEW t \in SetToSeqs(S)
        PROVE  (\A i, j \in DOMAIN t :
                   i < j => ~ProductBefore(sortBy, t[j], t[i]))
               <=> (\A i, j \in DOMAIN t :
                       i < j => <<t[j], t[i]>> \notin ProductOrder(sortBy, S))
    <3>1. \A i \in DOMAIN t : t[i] \in S
      BY SequencesAre
    <3> QED BY <3>1 DEF ProductOrder
  <2> QED BY <2>1 DEF OrderBy, OrderOfProducts, Sorted
<1> QED BY <1>1, <1>2

\* Groups by names, or by a missing one, can be put in order.
LEMMA GroupsAreResult ==
    ASSUME NEW lines, IsFiniteSet(lines),
           NEW key, \A l \in lines : key[l] \in Nat \cup {None},
           NEW amount, \A l \in lines : amount[l] \in Int
    PROVE  IsResult(Groups(key, lines, amount))
<1>1. \A name \in Names(key, lines) : name \in Nat \cup {None}
  BY DEF Names
<1>2. PICK S : S = Groups(key, lines, amount)
  OBVIOUS
<1>3. /\ IsFiniteSet(S)
      /\ \A g \in S : /\ g.name \in Names(key, lines)
                      /\ g.amount \in Int /\ g.purchases \in Int
      /\ \A g, h \in S : g.name = h.name => g = h
  BY <1>2, GroupsAre
<1> QED BY <1>1, <1>2, <1>3 DEF IsResult

\* The categories of the items of a period.
CategoryOf(p) == [l \in Lines(p) |-> l.item.category]
PriceOf(p) == [l \in Lines(p) |-> l.item.price]

\* categories has one answer, with a row for every group.
LEMMA OneAnswerOfCategories ==
    ASSUME RowsAreRows, NEW p
    PROVE  /\ IsResult(Groups(CategoryOf(p), Lines(p), PriceOf(p)))
           /\ \E s \in SetToSeqs(Groups(CategoryOf(p), Lines(p), PriceOf(p))) :
                 Categories(p) = {s}
<1>1. PICK lines, key, amount :
         lines = Lines(p) /\ key = CategoryOf(p) /\ amount = PriceOf(p)
  OBVIOUS
<1>2. /\ IsFiniteSet(lines)
      /\ \A l \in lines : l.item \in Item
  BY <1>1, LinesAre
<1>3. \A l \in lines : /\ l.item.category \in Nat \cup {None}
                       /\ l.item.price \in Int
  BY <1>2 DEF Item
<1>4. /\ key = [l \in lines |-> l.item.category]
      /\ amount = [l \in lines |-> l.item.price]
  BY <1>1 DEF CategoryOf, PriceOf
<1>5. PICK S : S = Groups(key, lines, amount)
  OBVIOUS
<1>6. IsResult(S)
  <2>1. /\ \A l \in lines : key[l] \in Nat \cup {None}
        /\ \A l \in lines : amount[l] \in Int
    BY <1>3, <1>4
  <2> QED BY <1>2, <1>5, <2>1, GroupsAreResult
<1>7. GroupBy(LAMBDA l : l.item.category, lines, LAMBDA l : l.item.price) = S
  BY <1>2, <1>3, <1>4, <1>5, CategoryGroups
<1>8. Categories(p) = OrderBy(CategoryBefore, S)
  BY <1>1, <1>7 DEF Categories, Joined
<1>9. PICK s \in SetToSeqs(S) : OrderBy(CategoryBefore, S) = {s}
  BY <1>6, OneOrderOfCategories
<1> QED BY <1>1, <1>5, <1>6, <1>8, <1>9

\* products has one list, of which a limit shows the beginning.
LEMMA OneAnswerOfProducts ==
    ASSUME RowsAreRows, NEW p, NEW sortBy
    PROVE  \E S, s : s \in Seq(S) /\ \A limit :
              Products(p, limit, sortBy) = {SubSeq(s, 1, Least(limit, Len(s)))}
<1>1. PICK lines : lines = Lines(p)
  OBVIOUS
<1>2. PICK key, amount : /\ key = [l \in lines |-> l.item.product]
                         /\ amount = [l \in lines |-> l.item.price]
  OBVIOUS
<1>3. /\ IsFiniteSet(lines)
      /\ \A l \in lines : l.item \in Item
  BY <1>1, LinesAre
<1>4. \A l \in lines : l.item.product \in Nat /\ l.item.price \in Int
  BY <1>3 DEF Item
<1>5. PICK S : S = Groups(key, lines, amount)
  OBVIOUS
<1>6. IsResult(S)
  <2>1. /\ \A l \in lines : key[l] \in Nat \cup {None}
        /\ \A l \in lines : amount[l] \in Int
    BY <1>2, <1>4
  <2> QED BY <1>3, <1>5, <2>1, GroupsAreResult
<1>7. GroupBy(LAMBDA l : l.item.product, lines, LAMBDA l : l.item.price) = S
  BY <1>2, <1>3, <1>4, <1>5, ProductGroups
<1>8. PICK s \in SetToSeqs(S) : OrderOfProducts(sortBy, S) = {s}
  BY <1>6, OneOrderOfProducts
<1>9. ASSUME NEW limit
      PROVE  Products(p, limit, sortBy) = {SubSeq(s, 1, Least(limit, Len(s)))}
  BY <1>1, <1>7, <1>8 DEF Products, OrderOfProducts, Limited
<1>10. s \in Seq(S)
  <2>1. PICK n \in Nat : n = Cardinality(S)
    BY <1>6, FS_CardinalityType DEF IsResult
  <2>2. s \in [1 .. n -> S]
    BY <1>8, <2>1, SequencesAre
  <2> QED BY <2>2
<1> QED BY <1>9, <1>10

\* stores has one list, of which a limit shows the beginning.
LEMMA OneAnswerOfStores ==
    ASSUME RowsAreRows, NEW p
    PROVE  \E S, s : s \in Seq(S) /\ \A limit :
              TopStores(p, limit) = {SubSeq(s, 1, Least(limit, Len(s)))}
<1>1. PICK lines : lines = {[receipt |-> r] : r \in Filters(p)}
  OBVIOUS
<1>2. PICK key, amount : /\ key = [l \in lines |-> rows[l.receipt].store]
                         /\ amount = [l \in lines |-> rows[l.receipt].total]
  OBVIOUS
<1>3. IsFiniteSet(Filters(p)) /\ Filters(p) \subseteq DOMAIN rows
  BY LinesAre
<1>4. IsFiniteSet(lines)
  <2> DEFINE f == [r \in Filters(p) |-> [receipt |-> r]]
             F == Filters(p)
  <2>1. lines = {f[r] : r \in F}
    BY <1>1
  <2>2. IsFiniteSet(F)
    BY <1>3
  <2> HIDE DEF f, F
  <2> QED BY <2>1, <2>2, ImageIsFinite
<1>5. \A l \in lines : /\ rows[l.receipt].total \in Int
                       /\ rows[l.receipt].store \in Nat \cup {None}
  <2>1. \A l \in lines : l.receipt \in DOMAIN rows
    BY <1>1, <1>3
  <2> QED BY <2>1, RowTypes
<1>6. PICK S : S = Groups(key, lines, amount)
  OBVIOUS
<1>7. IsResult(S)
  <2>1. /\ \A l \in lines : key[l] \in Nat \cup {None}
        /\ \A l \in lines : amount[l] \in Int
    BY <1>2, <1>5
  <2> QED BY <1>4, <1>6, <2>1, GroupsAreResult
<1>8. GroupBy(LAMBDA l : rows[l.receipt].store, lines,
              LAMBDA l : Total(l.receipt)) = S
  BY <1>2, <1>4, <1>5, <1>6, StoreGroups
<1>9. PICK s \in SetToSeqs(S) : OrderBy(StoreBefore, S) = {s}
  <2>1. PICK sortBy : sortBy = "amount"
    OBVIOUS
  <2>2. PICK s \in SetToSeqs(S) : OrderOfProducts(sortBy, S) = {s}
    BY <1>7, OneOrderOfProducts
  <2> QED BY <2>1, <2>2 DEF OrderOfProducts, OrderBy, StoreBefore
<1>10. ASSUME NEW limit
       PROVE  TopStores(p, limit) = {SubSeq(s, 1, Least(limit, Len(s)))}
  BY <1>1, <1>8, <1>9 DEF TopStores, Limited
<1>11. s \in Seq(S)
  <2>1. PICK n \in Nat : n = Cardinality(S)
    BY <1>7, FS_CardinalityType DEF IsResult
  <2>2. s \in [1 .. n -> S]
    BY <1>9, <2>1, SequencesAre
  <2> QED BY <2>2
<1> QED BY <1>10, <1>11

\* The answers of categories, products and stores are
\* determined, and a longer list begins with a shorter one.
LEMMA TopsAgree ==
    ASSUME RowsAreRows
    PROVE  TopsAreDeterminate
<1>1. Cardinality(Categories(period)) = 1
  BY OneAnswerOfCategories, FS_Singleton
<1>2. ASSUME NEW limit \in 1 .. MaxLimit, NEW sortBy,
             NEW a \in Products(period, limit, sortBy),
             NEW b \in Products(period, limit + 1, sortBy)
      PROVE  IsPrefix(a, b)
  <2>1. PICK S, s : s \in Seq(S) /\ \A n :
              Products(period, n, sortBy) = {SubSeq(s, 1, Least(n, Len(s)))}
    BY OneAnswerOfProducts
  <2>2. /\ a = SubSeq(s, 1, Least(limit, Len(s)))
        /\ b = SubSeq(s, 1, Least(limit + 1, Len(s)))
    BY <1>2, <2>1
  <2>3. limit \in Nat
    BY TotalsConstants
  <2> QED BY <2>1, <2>2, <2>3, ShorterIsPrefix
<1>3. ASSUME NEW limit \in 1 .. MaxLimit,
             NEW a \in TopStores(period, limit),
             NEW b \in TopStores(period, limit + 1)
      PROVE  IsPrefix(a, b)
  <2>1. PICK S, s : s \in Seq(S) /\ \A n :
              TopStores(period, n) = {SubSeq(s, 1, Least(n, Len(s)))}
    BY OneAnswerOfStores
  <2>2. /\ a = SubSeq(s, 1, Least(limit, Len(s)))
        /\ b = SubSeq(s, 1, Least(limit + 1, Len(s)))
    BY <1>3, <2>1
  <2>3. limit \in Nat
    BY TotalsConstants
  <2> QED BY <2>1, <2>2, <2>3, ShorterIsPrefix
<1> QED BY <1>1, <1>2, <1>3 DEF TopsAreDeterminate

-----------------------------------------------------------------------------
(***************************************************************************)
(* The categories of the items.                                             *)
(***************************************************************************)

\* A sum over the rows of an answer.
LEMMA SumOfAmounts ==
    ASSUME NEW S, IsFiniteSet(S), \A c \in S : c.amount \in Int
    PROVE  MapThenSumSet(LAMBDA c : c.amount, S)
           = SumOver([c \in S |-> c.amount], S)
<1> DEFINE F == [c \in S |-> c.amount]
           Of(g) == g = [s \in SUBSET S |->
                           IF s = {} THEN 0
                           ELSE Choice(s).amount + g[s \ {Choice(s)}]]
           h == CHOOSE g : Of(g)
<1>1. ASSUME NEW g
      PROVE  Of(g) <=> Folding(F, S, g)
  BY ChoiceTypes DEF Folding
<1>2. MapThenSumSet(LAMBDA c : c.amount, S) = h[S]
  BY DEF MapThenSumSet, MapThenFoldSet, Choice
<1>3. \A c \in S : F[c] \in Int
  OBVIOUS
<1> HIDE DEF F, Of
<1>4. (\E g : Folding(F, S, g)) => Folding(F, S, h)
  BY <1>1
<1> QED BY <1>2, <1>3, <1>4, SumIsChosen DEF F

\* The price of a receipt's items is a sum over them.
LEMMA PriceOfItems ==
    ASSUME NEW r, NEW D, D = DOMAIN rows[r].items, IsFiniteSet(D),
           \A n \in D : rows[r].items[n].price \in Int
    PROVE  ItemsPrice(r) = SumOver([n \in D |-> rows[r].items[n].price], D)
<1> DEFINE F == [n \in D |-> rows[r].items[n].price]
           Of(g) == g = [s \in SUBSET D |->
                           IF s = {} THEN 0
                           ELSE rows[r].items[Choice(s)].price
                                + g[s \ {Choice(s)}]]
           h == CHOOSE g : Of(g)
<1>1. ASSUME NEW g
      PROVE  Of(g) <=> Folding(F, D, g)
  BY ChoiceTypes DEF Folding
<1>2. ItemsPrice(r) = h[D]
  BY DEF ItemsPrice, MapThenSumSet, MapThenFoldSet, Choice
<1>3. \A n \in D : F[n] \in Int
  OBVIOUS
<1> HIDE DEF F, Of
<1>4. (\E g : Folding(F, D, g)) => Folding(F, D, h)
  BY <1>1
<1> QED BY <1>2, <1>3, <1>4, SumIsChosen DEF F

\* A sum over the items of some receipts.
LEMMA SumOfItems ==
    ASSUME NEW S, IsFiniteSet(S), \A r \in S : ItemsPrice(r) \in Int
    PROVE  MapThenSumSet(ItemsPrice, S) = SumOver([r \in S |-> ItemsPrice(r)], S)
<1> DEFINE F == [r \in S |-> ItemsPrice(r)]
           Of(g) == g = [s \in SUBSET S |->
                           IF s = {} THEN 0
                           ELSE ItemsPrice(Choice(s)) + g[s \ {Choice(s)}]]
           h == CHOOSE g : Of(g)
<1>1. ASSUME NEW g
      PROVE  Of(g) <=> Folding(F, S, g)
  BY ChoiceTypes DEF Folding
<1>2. MapThenSumSet(ItemsPrice, S) = h[S]
  BY DEF MapThenSumSet, MapThenFoldSet, Choice
<1>3. \A r \in S : F[r] \in Int
  OBVIOUS
<1> HIDE DEF F, Of
<1>4. (\E g : Folding(F, S, g)) => Folding(F, S, h)
  BY <1>1
<1> QED BY <1>2, <1>3, <1>4, SumIsChosen DEF F

-----------------------------------------------------------------------------
\* The amounts of the groups add up to those of the lines.
LEMMA GroupsAddUp ==
    ASSUME NEW lines, IsFiniteSet(lines), NEW key,
           NEW amount, \A l \in lines : amount[l] \in Int,
           NEW S, S = Groups(key, lines, amount)
    PROVE  MapThenSumSet(LAMBDA c : c.amount, S) = SumOver(amount, lines)
<1> DEFINE N == Names(key, lines)
           F == [c \in S |-> c.amount]
           row == [name \in N |-> Grouped(key, lines, amount, name)]
           Sums == [name \in N |-> SumOver(amount, {l \in lines : key[l] = name})]
<1>1. /\ IsFiniteSet(S) /\ \A c \in S : c.amount \in Int
      /\ IsFiniteSet(N)
  BY GroupsAre
<1>2. MapThenSumSet(LAMBDA c : c.amount, S) = SumOver(F, S)
  BY <1>1, SumOfAmounts
<1>3. S = {row[name] : name \in N}
  BY DEF Groups
<1>4. \A name \in N : /\ row[name].name = name /\ row[name].amount = Sums[name]
                      /\ row[name] \in S
  BY <1>3 DEF Grouped, Group
<1>5. \A name \in N : F[row[name]] = Sums[name] /\ Sums[name] \in Int
  BY <1>1, <1>4
<1>6. \A l \in lines : key[l] \in N
  BY DEF Names
<1>7. SumOver(Sums, N) = SumOver(amount, lines)
  <2> HIDE DEF N, F, row
  <2> QED BY <1>1, <1>6, SumOfGroups
<1>8. \A x, y \in N : row[x] = row[y] => x = y
  BY <1>4
<1> HIDE DEF N, F, row, Sums
<1>9. SumOver(F, S) = SumOver([name \in N |-> F[row[name]]], N)
  BY <1>1, <1>3, <1>5, <1>8, SumOfRenamed
<1>10. SumOver([name \in N |-> F[row[name]]], N) = SumOver(Sums, N)
  <2> DEFINE G == [name \in N |-> F[row[name]]]
  <2>1. \A name \in N : G[name] \in Int /\ G[name] = Sums[name]
    BY <1>5
  <2> HIDE DEF G
  <2>2. SumOver(G, N) = SumOver(Sums, N)
    BY <1>1, <2>1, SumEqual
  <2> QED BY <2>2 DEF G
<1> QED BY <1>2, <1>7, <1>9, <1>10

\* The lines of a receipt are its items.
LEMMA LinesOfReceipt ==
    ASSUME RowsAreRows, NEW p, NEW r \in Filters(p),
           NEW amount, amount = PriceOf(p),
           NEW own, own = {l \in Lines(p) : l.receipt = r}
    PROVE  ItemsPrice(r) \in Int /\ ItemsPrice(r) = SumOver(amount, own)
<1> DEFINE D == DOMAIN rows[r].items
           line == [n \in D |-> [receipt |-> r, n |-> n, item |-> rows[r].items[n]]]
           F == [n \in D |-> rows[r].items[n].price]
<1>1. rows[r].items \in Seq(Item)
  BY LinesAre
<1>2. IsFiniteSet(D) /\ \A n \in D : rows[r].items[n].price \in Int
  <2>1. PICK len \in Nat : D = 1 .. len
    BY <1>1
  <2>2. \A n \in D : rows[r].items[n] \in Item
    BY <1>1
  <2> QED BY <2>1, <2>2, FS_Interval DEF Item
<1>3. ItemsPrice(r) = SumOver(F, D)
  BY <1>2, PriceOfItems
<1>4. own = {line[n] : n \in D}
  <2>1. ASSUME NEW n \in D
        PROVE  line[n] \in own
    <3>1. line[n] = [receipt |-> r, n |-> n, item |-> rows[r].items[n]]
      OBVIOUS
    <3>2. line[n] \in Lines(p)
      BY <3>1, LinesAre
    <3> QED BY <3>1, <3>2
  <2>2. ASSUME NEW l \in own
        PROVE  \E n \in D : l = line[n]
    <3>1. l \in Lines(p) /\ l.receipt = r
      OBVIOUS
    <3>2. PICK q \in Filters(p) : \E n \in DOMAIN rows[q].items :
             l = [receipt |-> q, n |-> n, item |-> rows[q].items[n]]
      BY <3>1, LinesAre
    <3> QED BY <3>1, <3>2
  <2> HIDE DEF line
  <2> QED BY <2>1, <2>2
<1>5. \A n \in D : line[n] \in Lines(p)
  BY <1>4
<1>6. \A n \in D : amount[line[n]] = F[n] /\ F[n] \in Int
  BY <1>2, <1>5 DEF PriceOf
<1>7. \A m, n \in D : line[m] = line[n] => m = n
  <2>1. \A n \in D : line[n].n = n
    OBVIOUS
  <2> HIDE DEF line
  <2> QED BY <2>1
<1> HIDE DEF D, F, line
<1>8. SumOver(amount, own) = SumOver([n \in D |-> amount[line[n]]], D)
  <2>1. \A n \in D : amount[line[n]] \in Int
    BY <1>6
  <2>2. IsFiniteSet(D)
    BY <1>2 DEF D
  <2> QED BY <1>4, <1>7, <2>1, <2>2, SumOfRenamed
<1>9. SumOver([n \in D |-> amount[line[n]]], D) = SumOver(F, D)
  <2> DEFINE G == [n \in D |-> amount[line[n]]]
  <2>1. \A n \in D : G[n] \in Int /\ G[n] = F[n]
    BY <1>6
  <2>2. IsFiniteSet(D)
    BY <1>2 DEF D
  <2> HIDE DEF G
  <2>3. SumOver(G, D) = SumOver(F, D)
    BY <2>1, <2>2, SumEqual
  <2> QED BY <2>3 DEF G
<1>10. SumOver(F, D) \in Int
  <2>1. IsFiniteSet(D)
    BY <1>2 DEF D
  <2> QED BY <1>6, <2>1, SumType
<1> QED BY <1>3, <1>8, <1>9, <1>10

\* The items of the receipts of a period are its lines.
LEMMA ReceiptsAddUp ==
    ASSUME RowsAreRows, NEW p
    PROVE  MapThenSumSet(ItemsPrice, Filters(p)) = SumOver(PriceOf(p), Lines(p))
<1> DEFINE F == [r \in Filters(p) |-> ItemsPrice(r)]
<1>1. PICK lines, S, amount, key :
         /\ lines = Lines(p) /\ S = Filters(p) /\ amount = PriceOf(p)
         /\ key = [l \in lines |-> l.receipt]
  OBVIOUS
<1>2. /\ IsFiniteSet(lines) /\ IsFiniteSet(S)
      /\ \A l \in lines : l.receipt \in S /\ l.item \in Item
  BY <1>1, LinesAre
<1>3. \A l \in lines : key[l] \in S /\ amount[l] \in Int
  BY <1>1, <1>2 DEF PriceOf, Item
<1> DEFINE Sums == [r \in S |-> SumOver(amount, {l \in lines : key[l] = r})]
<1>4. ASSUME NEW r \in S
      PROVE  F[r] = ItemsPrice(r) /\ F[r] \in Int /\ F[r] = Sums[r]
  <2>1. PICK own : own = {l \in Lines(p) : l.receipt = r}
    OBVIOUS
  <2>2. own = {l \in lines : key[l] = r}
    BY <1>1, <2>1
  <2>3. ItemsPrice(r) \in Int /\ ItemsPrice(r) = SumOver(amount, own)
    BY <1>1, <2>1, LinesOfReceipt
  <2> QED BY <1>1, <2>2, <2>3
<1>5. MapThenSumSet(ItemsPrice, S) = SumOver(F, S)
  BY <1>1, <1>2, <1>4, SumOfItems
<1>6. SumOver(Sums, S) = SumOver(amount, lines)
  BY <1>2, <1>3, SumOfGroups
<1> HIDE DEF F, Sums
<1>7. SumOver(F, S) = SumOver(Sums, S)
  BY <1>2, <1>4, SumEqual
<1> QED BY <1>1, <1>5, <1>6, <1>7

\* categories accounts for every item of the period once, and counts the
\* receipts of a category once each.
LEMMA CategoriesAgree ==
    ASSUME RowsAreRows
    PROVE  CategoriesAccountForItems
<1>1. SUFFICES ASSUME NEW p, p = period, NEW answer \in Categories(p),
                      NEW counted, counted = ToSet(answer)
               PROVE  /\ MapThenSumSet(LAMBDA c : c.amount, counted)
                         = MapThenSumSet(ItemsPrice, Filters(p))
                      /\ \A c \in counted :
                            c.purchases = Cardinality({r \in Filters(p) :
                                \E n \in DOMAIN rows[r].items :
                                    rows[r].items[n].category = c.name})
  BY DEF CategoriesAccountForItems
<1>2. PICK lines, key, amount :
         lines = Lines(p) /\ key = CategoryOf(p) /\ amount = PriceOf(p)
  OBVIOUS
<1>3. PICK S : S = Groups(key, lines, amount)
  OBVIOUS
<1>4. counted = S
  <2>1. PICK s \in SetToSeqs(S) : Categories(p) = {s}
    BY <1>2, <1>3, OneAnswerOfCategories
  <2>2. IsFiniteSet(S)
    BY <1>2, <1>3, OneAnswerOfCategories DEF IsResult
  <2>3. {s[i] : i \in DOMAIN s} = S
    BY <2>2, SequencesHaveAll
  <2> QED BY <1>1, <2>1, <2>3 DEF ToSet
<1>5. /\ IsFiniteSet(lines)
      /\ \A l \in lines : l.item \in Item
  BY <1>2, LinesAre
<1>6. \A l \in lines : amount[l] \in Int /\ key[l] = l.item.category
  BY <1>2, <1>5 DEF PriceOf, CategoryOf, Item
<1>7. MapThenSumSet(LAMBDA c : c.amount, S) = SumOver(amount, lines)
  BY <1>3, <1>5, <1>6, GroupsAddUp
<1>8. MapThenSumSet(ItemsPrice, Filters(p)) = SumOver(amount, lines)
  BY <1>2, ReceiptsAddUp
<1>9. ASSUME NEW c \in S
      PROVE  c.purchases = Cardinality({r \in Filters(p) :
                                \E n \in DOMAIN rows[r].items :
                                    rows[r].items[n].category = c.name})
  <2>1. c = Grouped(key, lines, amount, c.name)
    BY <1>3, <1>5, <1>6, GroupsAre
  <2>2. PICK group : group = Group(key, lines, c.name)
    OBVIOUS
  <2>3. c.purchases = Cardinality({l.receipt : l \in group})
    BY <2>1, <2>2 DEF Grouped
  <2>4. \A l : l \in group <=> l \in Lines(p) /\ l.item.category = c.name
    BY <1>2, <1>6, <2>2 DEF Group
  <2>5. ASSUME NEW l \in group
        PROVE  /\ l.receipt \in Filters(p)
               /\ \E n \in DOMAIN rows[l.receipt].items :
                     rows[l.receipt].items[n].category = c.name
    BY <2>4, LinesAre
  <2>6. ASSUME NEW r \in Filters(p), NEW n \in DOMAIN rows[r].items,
               rows[r].items[n].category = c.name
        PROVE  \E l \in group : l.receipt = r
    <3>1. PICK l : l = [receipt |-> r, n |-> n, item |-> rows[r].items[n]]
      OBVIOUS
    <3>2. l \in Lines(p)
      BY <3>1, LinesAre
    <3> QED BY <2>4, <2>6, <3>1, <3>2
  <2>7. {l.receipt : l \in group}
        = {r \in Filters(p) : \E n \in DOMAIN rows[r].items :
                                 rows[r].items[n].category = c.name}
    BY <2>5, <2>6
  <2> QED BY <2>3, <2>7
<1> QED BY <1>4, <1>7, <1>8, <1>9

\* Whatever receipts the owner confirms, reopens and deletes, and in whatever
\* zone and period is asked, the queries of AnalyticsRepository tell the same
\* of the same rows: categories account for every item, lists are determined,
\* trends and parts of a period add up to its summary, and the comparison of
\* months is between the trends of their days.
THEOREM QueriesAlwaysAgree == TotalsSpec => []QueriesAgree
<1>1. IInv /\ RowsAreRows => QueriesAgree
  BY CategoriesAgree, TopsAgree, TrendsAgree, PartsAgree, ComparisonAgrees
     DEF IInv, QueriesAgree
<1> QED BY <1>1, TotalsInvariance, PTL

=============================================================================
