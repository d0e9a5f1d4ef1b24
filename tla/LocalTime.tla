------------------------------ MODULE LocalTime ------------------------------
(***************************************************************************)
(* Instants, wall clocks and the calendar, as Python's zoneinfo and        *)
(* PostgreSQL tell them.  A zone has one transition, which is all a period *)
(* or a comparison of months tells apart: the ones further away are those  *)
(* of other zones.  Time is counted in ticks, DayTicks of them in a day.   *)
(***************************************************************************)
EXTENDS Integers, Sequences

CONSTANTS
    DayTicks,
    MonthStarts   \* the first day of every month of the calendar, and its end

ASSUME CalendarConstants ==
    /\ DayTicks \in Nat \ {0}
    /\ MonthStarts \in Seq(Nat)
    /\ Len(MonthStarts) > 1
    /\ \A m \in 1 .. Len(MonthStarts) - 1 : MonthStarts[m] < MonthStarts[m + 1]

\* What utcoffset() is before and from the instant "at".
ZoneInfo == [at : Int, before : Int, after : Int]

Least(a, b) == IF a < b THEN a ELSE b
Greatest(a, b) == IF a < b THEN b ELSE a

\* What the clocks of a zone show at an instant: astimezone(zone) and, in
\* SQL, timezone(zone, ...).
Wall(zone, i) == i + (IF i < zone.at THEN zone.before ELSE zone.after)

\* Two instants may show the same wall clock; the later one has fold 1.
Fold(zone, i) ==
    IF i >= zone.at /\ i + zone.after < zone.at + zone.before THEN 1 ELSE 0

\* The wall clock from which the offset is the one after the transition.
Turn(zone, fold) ==
    zone.at + (IF fold = 0 THEN Greatest(zone.before, zone.after)
                           ELSE Least(zone.before, zone.after))

\* astimezone(UTC) of a wall clock, shown once, twice or never.
Instant(zone, wall, fold) ==
    wall - (IF wall < Turn(zone, fold) THEN zone.before ELSE zone.after)

\* A wall clock that is not passed over by the transition in either way.
Regular(zone, wall) ==
    wall <= Turn(zone, 1) \/ wall >= Turn(zone, 0)

-----------------------------------------------------------------------------
\* date.min and the day after date.max.
FirstDay == MonthStarts[1]
EndOfDays == MonthStarts[Len(MonthStarts)]

Days == FirstDay .. (EndOfDays - 1)

Midnight(day) == day * DayTicks
Day(wall) == wall \div DayTicks
TimeOfDay(wall) == wall - Midnight(Day(wall))

\* What a datetime can hold.
Datetimes == Midnight(FirstDay) .. (Midnight(EndOfDays) - 1)

Month(day) ==
    CHOOSE m \in 1 .. Len(MonthStarts) - 1 :
        MonthStarts[m] <= day /\ day < MonthStarts[m + 1]

FirstOfMonth(day) == MonthStarts[Month(day)]
DaysInMonth(day) == MonthStarts[Month(day) + 1] - MonthStarts[Month(day)]
=============================================================================
