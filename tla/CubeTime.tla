-------------------------------- MODULE CubeTime --------------------------------
(***************************************************************************)
(* Dates and durations with units (datetime.h).  A point in time is a       *)
(* number of ticks; a date pairs it with the unit that decides how it is    *)
(* compared and written, a duration is a number of units.  Units are ticks  *)
(* (for seconds, minutes and hours), days, weeks, months and years.         *)
(* The calendar is scaled down by constants: every year is alike.           *)
(***************************************************************************)
EXTENDS Integers, Sequences, SequencesExt

CONSTANTS TicksPerDay,
          DaysPerWeek,
          MonthDays,    \* lengths of the months of a year
          DaysPerMonth  \* what convert takes for the length of a month

ASSUME CalendarAssumption ==
    /\ {TicksPerDay, DaysPerWeek, DaysPerMonth} \subseteq Nat \ {0}
    /\ MonthDays \in Seq(Nat \ {0}) /\ MonthDays # <<>>

Rank == [tick |-> 1, day |-> 2, week |-> 3, month |-> 4, year |-> 5]
Units == DOMAIN Rank

Coarser(u, v) == IF Rank[u] >= Rank[v] THEN u ELSE v

Date(p, u) == [p |-> p, unit |-> u]
Duration(n, u) == [interval |-> n, unit |-> u]

\* Integer division of the code: towards zero, with the remainder of the dividend's sign.
Quot(a, b) == IF a >= 0 THEN a \div b ELSE -((-a) \div b)
Rem(a, b)  == a - b * Quot(a, b)

CeilDiv(a, b) == -((-a) \div b)

-------------------------------------------------------------------------------
\* Calendar (date::year_month_day).

Months == Len(MonthDays)

\* Days before the month m of a year, and the days of a year.
FirstOfMonth[m \in 0..Months] == IF m = 0 THEN 0 ELSE FirstOfMonth[m - 1] + MonthDays[m]
DaysPerYear == FirstOfMonth[Months]

Day(p)       == p \div TicksPerDay
Year(p)      == Day(p) \div DaysPerYear
DayOfYear(p) == Day(p) % DaysPerYear

MonthOfYear(p) ==
    CHOOSE m \in 0..(Months - 1) :
        FirstOfMonth[m] <= DayOfYear(p) /\ DayOfYear(p) < FirstOfMonth[m + 1]

\* Months are counted through the years.
Month(p) == Year(p) * Months + MonthOfYear(p)

MonthStart(m) == ((m \div Months) * DaysPerYear + FirstOfMonth[m % Months]) * TicksPerDay

-------------------------------------------------------------------------------
\* operator-: the difference in the coarser unit, of whole days, months or years.
Minus(l, r) ==
    LET u == Coarser(l.unit, r.unit)
    IN  Duration(CASE u = "tick"  -> l.p - r.p
                   [] u = "day"   -> Day(l.p) - Day(r.p)
                   [] u = "week"  -> Quot(Day(l.p) - Day(r.p), DaysPerWeek)
                   [] u = "month" -> Month(l.p) - Month(r.p)
                   [] u = "year"  -> Year(l.p) - Year(r.p), u)

\* A day of month m (of a year), or the last one if the month is shorter.
DayOfMonth(m, day) ==
    LET last == MonthDays[(m % Months) + 1] - 1
    IN  MonthStart(m) + (IF day <= last THEN day ELSE last) * TicksPerDay

\* The same day k months later.
AddMonths(p, k) ==
    DayOfMonth(Month(p) + k, Day(p - MonthStart(Month(p)))) + (p % TicksPerDay)

\* operator+
Plus(l, d) ==
    Date(CASE d.unit = "tick"  -> l.p + d.interval
           [] d.unit = "day"   -> l.p + d.interval * TicksPerDay
           [] d.unit = "week"  -> l.p + d.interval * DaysPerWeek * TicksPerDay
           [] OTHER -> AddMonths(l.p, IF d.unit = "year" THEN d.interval * Months ELSE d.interval),
         d.unit)

Times(d, k) == [d EXCEPT !.interval = @ * k]

\* operator==: dates of different units differ.
Equal(l, r) == l.unit = r.unit /\ Minus(l, r).interval = 0

\* to_string and from_string: what is below the unit of a date is not written, except for weeks.
Written(d) ==
    CASE d.unit \in {"tick", "week"} -> d.p
      [] d.unit = "day"   -> Day(d.p) * TicksPerDay
      [] d.unit = "month" -> MonthStart(Month(d.p))
      [] d.unit = "year"  -> MonthStart(Year(d.p) * Months)

\* convert, for a finer unit than u: rounded up from unit to unit; weeks are skipped.
ToDays(n)   == CeilDiv(n, TicksPerDay)
ToMonths(n) == CeilDiv(n, DaysPerMonth)
ToYears(n)  == CeilDiv(n, Months)

Convert(ticks, u) ==
    CASE u = "tick"  -> ticks
      [] u = "day"   -> ToDays(ticks)
      [] u = "month" -> ToMonths(ToDays(ticks))
      [] u = "year"  -> ToYears(ToMonths(ToDays(ticks)))

=================================================================================
