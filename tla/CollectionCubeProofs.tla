-------------------------- MODULE CollectionCubeProofs --------------------------
(***************************************************************************)
(* Proofs about ImageCollection, CubeTime, CubeView and CollectionCube, for  *)
(* any files, bands and dates, any calendar and views of any size.  First    *)
(* the calendar, dates and the cells of views; then the catalogue; then the  *)
(* inductive invariant and what follows from it for views and the            *)
(* catalogue; then what is read of a cell, and that filters and a server's   *)
(* copy of the cube do not change it; last, that what is read of a cell is   *)
(* the aggregate of the images that have a value there.                      *)
(***************************************************************************)
EXTENDS CollectionCube, ChunkGeometryProofs

-------------------------------------------------------------------------------
\* Integer division.

LEMMA DivMod ==
    ASSUME NEW a \in Int, NEW d \in Nat \ {0}
    PROVE  /\ a \div d \in Int /\ a % d \in 0..(d - 1)
           /\ a = d * (a \div d) + (a % d)
OBVIOUS

LEMMA DivModUnique ==
    ASSUME NEW d \in Nat \ {0}, NEW q \in Int, NEW r \in 0..(d - 1)
    PROVE  (d * q + r) \div d = q /\ (d * q + r) % d = r
OBVIOUS

LEMMA TimesOrder ==
    ASSUME NEW d \in Nat, NEW a \in Int, NEW b \in Int, a <= b
    PROVE  d * a <= d * b
<1>1. PICK c \in Nat : b = a + c
  <2>1. b - a \in Nat /\ b = a + (b - a)
    OBVIOUS
  <2> QED BY <2>1
<1>2. d * b = d * a + d * c /\ d * c \in Nat /\ d * a \in Int
  BY <1>1, SMT
<1> QED BY <1>2

\* d * q <= a < d * (q + 1) determines the quotient.
LEMMA DivIs ==
    ASSUME NEW a \in Int, NEW d \in Nat \ {0}, NEW q \in Int, d * q <= a, a < d * q + d
    PROVE  a \div d = q /\ a % d = a - d * q
<1>1. d * q \in Int
  OBVIOUS
<1>2. PICK r \in 0..(d - 1) : r = a - d * q
  BY <1>1
<1>3. a = d * q + r
  BY <1>1, <1>2
<1> QED BY <1>2, <1>3, DivModUnique

LEMMA DivMonotone ==
    ASSUME NEW a \in Int, NEW b \in Int, NEW d \in Nat \ {0}, a <= b
    PROVE  a \div d <= b \div d
<1> DEFINE p == a \div d
           q == b \div d
<1>1. p \in Int /\ q \in Int /\ d * p <= a /\ b < d * q + d
  BY DivMod
<1> HIDE DEF p, q
<1>2. SUFFICES ASSUME q + 1 <= p PROVE FALSE
  BY <1>1 DEF p, q
<1>3. d * (q + 1) <= d * p
  BY <1>1, <1>2, TimesOrder
<1>4. d * (q + 1) = d * q + d /\ d * q \in Int /\ d * p \in Int
  BY <1>1
<1> QED BY <1>1, <1>3, <1>4

\* Adding multiples adds to the quotient.
LEMMA DivPlus ==
    ASSUME NEW a \in Int, NEW k \in Int, NEW d \in Nat \ {0}
    PROVE  (a + k * d) \div d = a \div d + k /\ (a + k * d) % d = a % d
<1> DEFINE q == a \div d
           r == a % d
<1>1. q \in Int /\ r \in 0..(d - 1) /\ a = d * q + r
  BY DivMod
<1> HIDE DEF q, r
<1>2. a + k * d = d * (q + k) + r
  BY <1>1
<1>3. q + k \in Int
  BY <1>1
<1> QED BY <1>1, <1>2, <1>3, DivModUnique DEF q, r

-------------------------------------------------------------------------------
\* The calendar.

LEMMA Calendar ==
    /\ TicksPerDay \in Nat \ {0} /\ DaysPerWeek \in Nat \ {0}
    /\ Months \in Nat \ {0}
    /\ \A m \in 1..Months : MonthDays[m] \in Nat \ {0}
BY CalendarAssumption DEF Months

\* FirstOfMonth is defined by recursion: a function has its equation up to every month.
FirstUpTo(n, g) ==
    /\ g = [m \in 0..Months |-> g[m]]
    /\ \A m \in 0..Months : m <= n => g[m] = IF m = 0 THEN 0 ELSE g[m - 1] + MonthDays[m]

LEMMA FirstUpToAny ==
    ASSUME NEW n \in Nat
    PROVE  \E g : FirstUpTo(n, g)
<1> DEFINE B == {k \in Nat : ~ \E g : FirstUpTo(k, g)}
<1>1. SUFFICES ASSUME B # {} PROVE FALSE
  OBVIOUS
<1>2. PICK k \in B : \A l \in B : k <= l
  <2>1. B \in SUBSET Nat
    OBVIOUS
  <2> HIDE DEF B
  <2> QED BY <1>1, <2>1, LeastMember
<1>3. \E g : FirstUpTo(0, g)
  <2> DEFINE g == [m \in 0..Months |-> 0]
  <2>1. FirstUpTo(0, g)
    BY Calendar DEF FirstUpTo
  <2> QED BY <2>1
<1>4. k # 0 /\ k \in Nat
  BY <1>3
<1>5. k - 1 \in Nat /\ k - 1 \notin B
  BY <1>2, <1>4
<1>6. PICK g : FirstUpTo(k - 1, g)
  BY <1>5
<1> DEFINE h == [m \in 0..Months |-> IF m = 0 THEN 0 ELSE g[m - 1] + MonthDays[m]]
<1>7. ASSUME NEW m \in 0..Months, m <= k
      PROVE  h[m] = IF m = 0 THEN 0 ELSE h[m - 1] + MonthDays[m]
  <2>1. CASE m = 0
    BY <2>1
  <2>2. CASE m # 0
    <3>1. m - 1 \in 0..Months /\ m - 1 <= k - 1
      BY <1>7, <2>2, <1>4, Calendar
    <3>2. g[m - 1] = IF m - 1 = 0 THEN 0 ELSE g[(m - 1) - 1] + MonthDays[m - 1]
      BY <1>6, <3>1 DEF FirstUpTo
    <3>3. h[m - 1] = g[m - 1]
      BY <3>1, <3>2
    <3> QED BY <2>2, <3>3
  <2> QED BY <2>1, <2>2
<1>8. FirstUpTo(k, h)
  <2>1. h = [m \in 0..Months |-> h[m]]
    OBVIOUS
  <2> HIDE DEF h
  <2> QED BY <1>7, <2>1 DEF FirstUpTo
<1> QED BY <1>2, <1>8

LEMMA FirstOfMonthIs ==
    /\ FirstOfMonth[0] = 0
    /\ \A m \in 1..Months : FirstOfMonth[m] = FirstOfMonth[m - 1] + MonthDays[m]
<1>1. PICK g : FirstUpTo(Months, g)
  BY Calendar, FirstUpToAny
<1>2. g = [m \in 0..Months |-> IF m = 0 THEN 0 ELSE g[m - 1] + MonthDays[m]]
  <2>1. \A m \in 0..Months : m <= Months
    BY Calendar
  <2> QED BY <1>1, <2>1 DEF FirstUpTo
<1>3. FirstOfMonth = [m \in 0..Months |-> IF m = 0 THEN 0 ELSE FirstOfMonth[m - 1] + MonthDays[m]]
  BY <1>2 DEF FirstOfMonth
<1>4. 0 \in 0..Months /\ \A m \in 1..Months : m \in 0..Months /\ m # 0
  BY Calendar
<1> HIDE DEF FirstOfMonth
<1> QED BY <1>3, <1>4

\* Months follow each other.
LEMMA MonthsFollow ==
    ASSUME NEW b \in 0..Months
    PROVE  /\ FirstOfMonth[b] \in Nat
           /\ \A a \in 0..Months : a < b => FirstOfMonth[a] + MonthDays[a + 1] <= FirstOfMonth[b]
<1> DEFINE Good(n) == /\ FirstOfMonth[n] \in Nat
                      /\ \A a \in 0..Months : a < n => FirstOfMonth[a] + MonthDays[a + 1] <= FirstOfMonth[n]
           B == {n \in 0..Months : ~ Good(n)}
<1>1. SUFFICES ASSUME B # {} PROVE FALSE
  OBVIOUS
<1>2. PICK n \in B : \A l \in B : n <= l
  <2>1. B \in SUBSET Nat
    BY Calendar
  <2> HIDE DEF B
  <2> QED BY <1>1, <2>1, LeastMember
<1>3. n \in Nat /\ n <= Months /\ n \in 0..Months
  BY <1>2, Calendar
<1>4. n # 0
  <2> SUFFICES ASSUME n = 0 PROVE FALSE
    OBVIOUS
  <2>1. Good(0)
    BY FirstOfMonthIs
  <2> QED BY <2>1, <1>2
<1>5. n - 1 \in 0..Months /\ n \in 1..Months /\ Good(n - 1)
  BY <1>2, <1>3, <1>4, Calendar
<1>6. FirstOfMonth[n] = FirstOfMonth[n - 1] + MonthDays[n] /\ MonthDays[n] \in Nat
  BY <1>5, FirstOfMonthIs, Calendar
<1>7. FirstOfMonth[n] \in Nat /\ FirstOfMonth[n - 1] \in Nat
  BY <1>5, <1>6
<1>8. ASSUME NEW a \in 0..Months, a < n
      PROVE  FirstOfMonth[a] + MonthDays[a + 1] <= FirstOfMonth[n]
  <2>1. CASE a = n - 1
    BY <2>1, <1>3, <1>6, <1>7
  <2>2. CASE a # n - 1
    <3>1. a \in Nat /\ a < n - 1 /\ a + 1 \in 1..Months
      BY <2>2, <1>8, <1>3, Calendar
    <3>2. FirstOfMonth[a] + MonthDays[a + 1] <= FirstOfMonth[n - 1]
      BY <1>5, <3>1
    <3>3. a < a + 1 /\ a + 1 <= n - 1
      BY <3>1, <1>3
    <3>4. FirstOfMonth[a] + MonthDays[a + 1] \in Int
      <4>1. Good(a)
        BY <1>2, <1>3, <3>1
      <4> QED BY <4>1, <3>1, Calendar
    <3> QED BY <3>2, <3>4, <1>6, <1>7
  <2> QED BY <2>1, <2>2
<1>9. Good(n)
  BY <1>7, <1>8
<1> QED BY <1>2, <1>9

\* The whole year.
LEMMA YearDays ==
    /\ DaysPerYear \in Nat \ {0}
    /\ \A a \in 0..(Months - 1) :
        /\ FirstOfMonth[a] \in Nat /\ a + 1 \in 1..Months
        /\ FirstOfMonth[a + 1] = FirstOfMonth[a] + MonthDays[a + 1]
        /\ FirstOfMonth[a + 1] <= DaysPerYear
        /\ \A b \in 0..(Months - 1) : a < b => FirstOfMonth[a + 1] <= FirstOfMonth[b]
<1>1. DaysPerYear \in Nat
  BY MonthsFollow, Calendar DEF DaysPerYear
<1>2. ASSUME NEW a \in 0..(Months - 1)
      PROVE  /\ FirstOfMonth[a] \in Nat /\ a + 1 \in 1..Months /\ a \in 0..Months
             /\ FirstOfMonth[a + 1] = FirstOfMonth[a] + MonthDays[a + 1]
             /\ FirstOfMonth[a + 1] <= DaysPerYear
  <2>1. a \in 0..Months /\ a + 1 \in 1..Months /\ a < Months /\ Months \in 0..Months
    BY Calendar
  <2>2. FirstOfMonth[a + 1] = FirstOfMonth[(a + 1) - 1] + MonthDays[a + 1] /\ (a + 1) - 1 = a
    BY <2>1, FirstOfMonthIs
  <2>3. FirstOfMonth[a] + MonthDays[a + 1] <= DaysPerYear
    BY <2>1, MonthsFollow DEF DaysPerYear
  <2> QED BY <2>1, <2>2, <2>3, MonthsFollow
<1>3. ASSUME NEW a \in 0..(Months - 1), NEW b \in 0..(Months - 1), a < b
      PROVE  FirstOfMonth[a + 1] <= FirstOfMonth[b]
  <2>1. a \in 0..Months /\ b \in 0..Months
    BY Calendar
  <2> QED BY <1>2, <1>3, <2>1, MonthsFollow
<1>4. DaysPerYear # 0
  <2>1. 0 \in 0..(Months - 1) /\ MonthDays[1] \in Nat \ {0}
    BY Calendar
  <2>2. FirstOfMonth[1] = FirstOfMonth[0] + MonthDays[1] /\ FirstOfMonth[1] <= DaysPerYear
    BY <2>1, <1>2
  <2> QED BY <2>1, <2>2, FirstOfMonthIs, <1>1
<1> QED BY <1>1, <1>2, <1>3, <1>4

\* Every day of a year is in a month.
LEMMA MonthOfYearIs ==
    ASSUME NEW p \in Int
    PROVE  /\ Year(p) \in Int /\ Day(p) \in Int /\ MonthOfYear(p) \in 0..(Months - 1)
           /\ DayOfYear(p) \in FirstOfMonth[MonthOfYear(p)]..(FirstOfMonth[MonthOfYear(p) + 1] - 1)
           /\ Day(p) = Year(p) * DaysPerYear + DayOfYear(p)
<1>1. Day(p) \in Int
  BY Calendar, DivMod DEF Day
<1>2. /\ Year(p) \in Int /\ DayOfYear(p) \in 0..(DaysPerYear - 1)
      /\ Day(p) = DaysPerYear * Year(p) + DayOfYear(p)
  BY <1>1, YearDays, DivMod DEF Year, DayOfYear
<1> DEFINE d == DayOfYear(p)
           B == {m \in 0..(Months - 1) : d < FirstOfMonth[m + 1]}
<1>3. d \in Nat /\ d < DaysPerYear
  BY <1>2, YearDays
<1> HIDE DEF d
<1>4. Months - 1 \in B
  <2>1. Months - 1 \in 0..(Months - 1) /\ (Months - 1) + 1 = Months
    BY Calendar
  <2> QED BY <2>1, <1>3 DEF DaysPerYear
<1>5. PICK m \in B : \A l \in B : m <= l
  <2>1. B \in SUBSET Nat
    BY Calendar
  <2>2. B # {}
    BY <1>4
  <2> HIDE DEF B
  <2> QED BY <2>1, <2>2, LeastMember
<1>6. m \in 0..(Months - 1) /\ d < FirstOfMonth[m + 1] /\ m \in Nat
  BY <1>5, Calendar
<1>7. FirstOfMonth[m] <= d
  <2>1. CASE m = 0
    BY <2>1, <1>3, FirstOfMonthIs
  <2>2. CASE m # 0
    <3>1. m - 1 \in 0..(Months - 1) /\ m - 1 \notin B /\ (m - 1) + 1 = m
      BY <2>2, <1>5, <1>6, Calendar
    <3>2. ~ (d < FirstOfMonth[m])
      BY <3>1
    <3> QED BY <3>2, <1>3, <1>6, YearDays
  <2> QED BY <2>1, <2>2
<1>8. \E k \in 0..(Months - 1) : FirstOfMonth[k] <= DayOfYear(p) /\ DayOfYear(p) < FirstOfMonth[k + 1]
  BY <1>6, <1>7 DEF d
<1>9. /\ MonthOfYear(p) \in 0..(Months - 1)
      /\ FirstOfMonth[MonthOfYear(p)] <= d /\ d < FirstOfMonth[MonthOfYear(p) + 1]
  BY <1>8 DEF MonthOfYear, d
<1>10. FirstOfMonth[MonthOfYear(p)] \in Nat /\ FirstOfMonth[MonthOfYear(p) + 1] \in Nat
  <2>1. FirstOfMonth[MonthOfYear(p)] \in Nat /\ MonthOfYear(p) + 1 \in 0..Months
    BY <1>9, YearDays, Calendar
  <2> QED BY <2>1, MonthsFollow
<1>11. Day(p) = Year(p) * DaysPerYear + DayOfYear(p)
  BY <1>2, YearDays
<1> QED BY <1>1, <1>2, <1>3, <1>9, <1>10, <1>11 DEF d

\* The first day of a month, counted from the beginning of time.
FirstDay(m) == (m \div Months) * DaysPerYear + FirstOfMonth[m % Months]

LengthOf(m) == MonthDays[(m % Months) + 1]

LEMMA FirstDayType ==
    ASSUME NEW m \in Int
    PROVE  /\ m \div Months \in Int /\ m % Months \in 0..(Months - 1)
           /\ m = Months * (m \div Months) + (m % Months)
           /\ FirstDay(m) \in Int /\ LengthOf(m) \in Nat \ {0}
           /\ MonthStart(m) = FirstDay(m) * TicksPerDay
<1>1. /\ m \div Months \in Int /\ m % Months \in 0..(Months - 1)
      /\ m = Months * (m \div Months) + (m % Months)
  BY Calendar, DivMod
<1>2. FirstOfMonth[m % Months] \in Nat /\ (m % Months) + 1 \in 1..Months /\ DaysPerYear \in Nat
  BY <1>1, YearDays
<1>3. \A a, b, c \in Int : a * b + c \in Int
  BY SMT
<1>4. FirstDay(m) \in Int
  BY <1>1, <1>2, <1>3 DEF FirstDay
<1> QED BY <1>1, <1>2, <1>4, Calendar DEF LengthOf, MonthStart, FirstDay

\* The month after.
LEMMA NextMonth ==
    ASSUME NEW m \in Int
    PROVE  /\ FirstDay(m + 1) = FirstDay(m) + LengthOf(m)
           /\ FirstDay(m + 1) = (m \div Months) * DaysPerYear + FirstOfMonth[(m % Months) + 1]
<1> DEFINE y == m \div Months
           a == m % Months
<1>1. y \in Int /\ a \in 0..(Months - 1) /\ m = Months * y + a
  BY FirstDayType
<1>2. /\ FirstOfMonth[a] \in Nat /\ MonthDays[a + 1] \in Nat
      /\ FirstOfMonth[a + 1] = FirstOfMonth[a] + MonthDays[a + 1]
  BY <1>1, YearDays, Calendar
<1>3. y * DaysPerYear \in Int /\ DaysPerYear \in Nat
  BY <1>1, YearDays, SMT
<1>4. FirstDay(m) + LengthOf(m) = y * DaysPerYear + FirstOfMonth[a + 1]
  BY <1>2, <1>3 DEF FirstDay, LengthOf
<1>5. FirstDay(m + 1) = y * DaysPerYear + FirstOfMonth[a + 1]
  <2>1. CASE a + 1 < Months
    <3>1. a + 1 \in 0..(Months - 1) /\ m + 1 = Months * y + (a + 1)
      BY <1>1, <2>1, Calendar
    <3>2. (m + 1) \div Months = y /\ (m + 1) % Months = a + 1
      <4> HIDE DEF a, y
      <4> QED BY <1>1, <3>1, Calendar, DivModUnique
    <3> HIDE DEF a, y
    <3> QED BY <3>2 DEF FirstDay
  <2>2. CASE ~ (a + 1 < Months)
    <3>1. a + 1 = Months
      BY <1>1, <2>2, Calendar
    <3>2. y + 1 \in Int /\ 0 \in 0..(Months - 1) /\ m + 1 = Months * (y + 1) + 0
      <4> HIDE DEF a, y
      <4>1. Months * (y + 1) = Months * y + Months
        BY <1>1, Calendar
      <4> QED BY <1>1, <3>1, <4>1, Calendar
    <3>3. (m + 1) \div Months = y + 1 /\ (m + 1) % Months = 0
      <4> HIDE DEF a, y
      <4> QED BY <1>1, <3>2, Calendar, DivModUnique
    <3>4. FirstDay(m + 1) = (y + 1) * DaysPerYear
      <4> HIDE DEF a, y
      <4>1. (y + 1) * DaysPerYear \in Int
        BY <1>1, YearDays, SMT
      <4> QED BY <3>3, <4>1, FirstOfMonthIs DEF FirstDay
    <3>5. (y + 1) * DaysPerYear = y * DaysPerYear + DaysPerYear
      <4> HIDE DEF a, y
      <4> QED BY <1>1, YearDays
    <3> HIDE DEF a, y
    <3> QED BY <3>1, <3>4, <3>5 DEF DaysPerYear
  <2> QED BY <2>1, <2>2
<1> QED BY <1>4, <1>5

\* Months are in order.
LEMMA MonthOrder ==
    ASSUME NEW m \in Int, NEW k \in Int, m < k
    PROVE  FirstDay(m + 1) <= FirstDay(k)
<1> DEFINE y == m \div Months
           a == m % Months
           z == k \div Months
           b == k % Months
<1>1. y \in Int /\ a \in 0..(Months - 1) /\ m = Months * y + a
  BY FirstDayType
<1>2. z \in Int /\ b \in 0..(Months - 1) /\ k = Months * z + b
  BY FirstDayType
<1>3. FirstDay(m + 1) = y * DaysPerYear + FirstOfMonth[a + 1]
  BY NextMonth
<1>4. FirstDay(k) = z * DaysPerYear + FirstOfMonth[b]
  BY DEF FirstDay
<1> HIDE DEF y, a, z, b
<1>5. /\ FirstOfMonth[a + 1] \in Nat /\ FirstOfMonth[b] \in Nat /\ FirstOfMonth[a + 1] <= DaysPerYear
      /\ a < b => FirstOfMonth[a + 1] <= FirstOfMonth[b]
  <2>1. a + 1 \in 0..Months
    BY <1>1, Calendar
  <2> QED BY <2>1, <1>1, <1>2, YearDays, MonthsFollow
<1>6. DaysPerYear \in Nat /\ Months \in Nat /\ y * DaysPerYear \in Int /\ z * DaysPerYear \in Int
  BY <1>1, <1>2, YearDays, Calendar, SMT
<1>7. y <= z
  <2> SUFFICES ASSUME z + 1 <= y PROVE FALSE
    BY <1>1, <1>2
  <2>1. Months * (z + 1) <= Months * y
    BY <1>1, <1>2, <1>6, TimesOrder
  <2>2. Months * (z + 1) = Months * z + Months /\ Months * z \in Int /\ Months * y \in Int
    BY <1>1, <1>2, <1>6
  <2> QED BY <2>1, <2>2, <1>1, <1>2, <1>6
<1>8. CASE y = z
  <2>1. a < b
    BY <1>8, <1>1, <1>2, <1>6
  <2> QED BY <1>8, <2>1, <1>3, <1>4, <1>5, <1>6
<1>9. CASE y < z
  <2>1. DaysPerYear * (y + 1) <= DaysPerYear * z
    BY <1>9, <1>1, <1>2, <1>6, TimesOrder
  <2>2. /\ DaysPerYear * (y + 1) = y * DaysPerYear + DaysPerYear
        /\ DaysPerYear * z = z * DaysPerYear
    BY <1>1, <1>2, <1>6
  <2> QED BY <2>1, <2>2, <1>3, <1>4, <1>5, <1>6
<1> QED BY <1>1, <1>2, <1>7, <1>8, <1>9

\* The month of a date is the one its day is in.
LEMMA DayInMonth ==
    ASSUME NEW p \in Int
    PROVE  /\ Month(p) \in Int /\ Day(p) \in Int
           /\ FirstDay(Month(p)) <= Day(p) /\ Day(p) < FirstDay(Month(p) + 1)
           /\ Month(p) \div Months = Year(p)
<1> DEFINE y == Year(p)
           a == MonthOfYear(p)
           d == DayOfYear(p)
<1>1. /\ y \in Int /\ Day(p) \in Int /\ a \in 0..(Months - 1)
      /\ d \in FirstOfMonth[a]..(FirstOfMonth[a + 1] - 1)
      /\ Day(p) = y * DaysPerYear + d
  BY MonthOfYearIs
<1>2. Month(p) = Months * y + a
  BY <1>1, Calendar DEF Month
<1> HIDE DEF y, a, d
<1>3. Month(p) \in Int
  BY <1>1, <1>2, Calendar
<1>4. Month(p) \div Months = y /\ Month(p) % Months = a
  BY <1>1, <1>2, Calendar, DivModUnique
<1>5. FirstDay(Month(p)) = y * DaysPerYear + FirstOfMonth[a]
  BY <1>4 DEF FirstDay
<1>6. FirstDay(Month(p) + 1) = y * DaysPerYear + FirstOfMonth[a + 1]
  BY <1>3, <1>4, NextMonth
<1>7. y * DaysPerYear \in Int /\ FirstOfMonth[a] \in Nat /\ FirstOfMonth[a + 1] \in Nat
  <2>1. a + 1 \in 0..Months /\ a \in 0..Months /\ DaysPerYear \in Nat
    BY <1>1, Calendar, YearDays
  <2> QED BY <1>1, <2>1, MonthsFollow, SMT
<1> QED BY <1>1, <1>3, <1>4, <1>5, <1>6, <1>7 DEF y

LEMMA MonthIs ==
    ASSUME NEW p \in Int, NEW m \in Int, FirstDay(m) <= Day(p), Day(p) < FirstDay(m + 1)
    PROVE  Month(p) = m
<1>1. /\ Month(p) \in Int /\ Day(p) \in Int
      /\ FirstDay(Month(p)) <= Day(p) /\ Day(p) < FirstDay(Month(p) + 1)
  BY DayInMonth
<1>2. /\ FirstDay(m) \in Int /\ FirstDay(m + 1) \in Int
      /\ FirstDay(Month(p)) \in Int /\ FirstDay(Month(p) + 1) \in Int
  BY <1>1, FirstDayType
<1>3. ~ (Month(p) < m)
  <2> SUFFICES ASSUME Month(p) < m PROVE FALSE
    OBVIOUS
  <2>1. FirstDay(Month(p) + 1) <= FirstDay(m)
    BY <1>1, MonthOrder
  <2> QED BY <2>1, <1>1, <1>2
<1>4. ~ (m < Month(p))
  <2> SUFFICES ASSUME m < Month(p) PROVE FALSE
    OBVIOUS
  <2>1. FirstDay(m + 1) <= FirstDay(Month(p))
    BY <1>1, MonthOrder
  <2> QED BY <2>1, <1>1, <1>2
<1> QED BY <1>1, <1>3, <1>4

\* Later dates are in later or the same days, months and years.
LEMMA LaterMonth ==
    ASSUME NEW p \in Int, NEW q \in Int, p <= q
    PROVE  Day(p) <= Day(q) /\ Month(p) <= Month(q) /\ Year(p) <= Year(q)
<1>1. Day(p) <= Day(q)
  BY Calendar, DivMonotone DEF Day
<1>2. Month(p) <= Month(q)
  <2> SUFFICES ASSUME Month(q) < Month(p) PROVE FALSE
    BY DayInMonth
  <2>1. FirstDay(Month(q) + 1) <= FirstDay(Month(p))
    BY DayInMonth, MonthOrder
  <2>2. FirstDay(Month(q) + 1) \in Int /\ FirstDay(Month(p)) \in Int
    BY DayInMonth, FirstDayType
  <2> QED BY <1>1, <2>1, <2>2, DayInMonth
<1>3. Year(p) <= Year(q)
  BY <1>1, YearDays, DivMonotone, DayInMonth DEF Year
<1> QED BY <1>1, <1>2, <1>3

\* A number of whole days and a rest.
LEMMA DaysAndRest ==
    ASSUME NEW d \in Int, NEW r \in 0..(TicksPerDay - 1)
    PROVE  d * TicksPerDay \in Int /\ d * TicksPerDay + r \in Int /\ Day(d * TicksPerDay + r) = d
<1>1. d * TicksPerDay + r = TicksPerDay * d + r /\ d * TicksPerDay \in Int
  BY Calendar
<1> QED BY <1>1, Calendar, DivModUnique DEF Day

LEMMA TimeOfDay ==
    ASSUME NEW p \in Int
    PROVE  /\ Day(p) \in Int /\ p % TicksPerDay \in 0..(TicksPerDay - 1)
           /\ p = Day(p) * TicksPerDay + (p % TicksPerDay)
BY Calendar, DivMod DEF Day

\* The same day some months later, or the last day of that month.
LEMMA AddedMonths ==
    ASSUME NEW p \in Int, NEW k \in Int
    PROVE  /\ AddMonths(p, k) \in Int
           /\ Month(AddMonths(p, k)) = Month(p) + k
           /\ AddMonths(p, k) % TicksPerDay = p % TicksPerDay
           /\ k = 0 => AddMonths(p, k) = p
           /\ k >= 0 => AddMonths(p, k) >= p
<1> DEFINE m == Month(p) + k
           r == p % TicksPerDay
           day == Day(p) - FirstDay(Month(p))
           last == LengthOf(m) - 1
           e == IF day <= last THEN day ELSE last
<1>1. /\ Month(p) \in Int /\ Day(p) \in Int /\ FirstDay(Month(p)) \in Int /\ LengthOf(Month(p)) \in Nat
      /\ FirstDay(Month(p)) <= Day(p) /\ Day(p) < FirstDay(Month(p)) + LengthOf(Month(p))
  BY DayInMonth, FirstDayType, NextMonth
<1>2. m \in Int /\ FirstDay(m) \in Int /\ LengthOf(m) \in Nat \ {0} /\ MonthStart(m) = FirstDay(m) * TicksPerDay
  BY <1>1, FirstDayType
<1>3. r \in 0..(TicksPerDay - 1) /\ p = Day(p) * TicksPerDay + r
  BY TimeOfDay
<1>4. Day(p - MonthStart(Month(p))) = day
  <2>1. MonthStart(Month(p)) = FirstDay(Month(p)) * TicksPerDay
    BY <1>1, FirstDayType
  <2>2. PICK f \in Int : f = FirstDay(Month(p))
    BY <1>1
  <2>3. PICK d \in Int : d = Day(p)
    BY <1>1
  <2>4. p - f * TicksPerDay = (d - f) * TicksPerDay + r
    <3>1. p = d * TicksPerDay + r
      BY <1>3, <2>3
    <3> HIDE DEF r
    <3>2. (d - f) * TicksPerDay = d * TicksPerDay - f * TicksPerDay
      BY Calendar
    <3>3. d * TicksPerDay \in Int /\ f * TicksPerDay \in Int
      BY Calendar
    <3> QED BY <1>3, <3>1, <3>2, <3>3
  <2>5. Day((d - f) * TicksPerDay + r) = d - f
    BY <1>3, DaysAndRest
  <2> QED BY <2>1, <2>2, <2>3, <2>4, <2>5
<1>5. day \in Nat /\ e \in Nat /\ e <= last /\ (k = 0 => e = day)
  BY <1>1, <1>2
<1>6. AddMonths(p, k) = (FirstDay(m) + e) * TicksPerDay + r
  <2>1. AddMonths(p, k) = MonthStart(m) + e * TicksPerDay + r
    BY <1>4 DEF AddMonths, DayOfMonth, LengthOf
  <2> HIDE DEF e, m, r
  <2>2. (FirstDay(m) + e) * TicksPerDay = FirstDay(m) * TicksPerDay + e * TicksPerDay
    BY <1>2, <1>5, Calendar
  <2> QED BY <2>1, <2>2, <1>2
<1> HIDE DEF e, m, r, day, last
<1>7. FirstDay(m) + e \in Int
  BY <1>2, <1>5
<1>8. /\ AddMonths(p, k) \in Int /\ Day(AddMonths(p, k)) = FirstDay(m) + e
      /\ AddMonths(p, k) % TicksPerDay = r
  <2>1. AddMonths(p, k) = TicksPerDay * (FirstDay(m) + e) + r
    BY <1>6, <1>7, Calendar
  <2>2. AddMonths(p, k) % TicksPerDay = r
    BY <2>1, <1>3, <1>7, Calendar, DivModUnique
  <2> QED BY <2>2, <1>3, <1>6, <1>7, DaysAndRest
<1>9. Month(AddMonths(p, k)) = m
  <2>1. FirstDay(m + 1) = FirstDay(m) + LengthOf(m)
    BY <1>2, NextMonth
  <2>2. FirstDay(m) <= FirstDay(m) + e /\ FirstDay(m) + e < FirstDay(m + 1)
    BY <2>1, <1>2, <1>5 DEF last
  <2> QED BY <2>2, <1>2, <1>8, MonthIs
<1>10. ASSUME k = 0 PROVE AddMonths(p, k) = p
  <2>1. FirstDay(m) + e = Day(p)
    BY <1>1, <1>5, <1>10 DEF day, m
  <2> QED BY <2>1, <1>3, <1>6
<1>11. ASSUME k > 0 PROVE AddMonths(p, k) >= p
  <2> SUFFICES ASSUME AddMonths(p, k) <= p PROVE FALSE
    BY <1>3, <1>8
  <2>1. m <= Month(p)
    BY <1>8, <1>9, LaterMonth
  <2> QED BY <2>1, <1>1, <1>11 DEF m
<1> QED BY <1>8, <1>9, <1>10, <1>11 DEF m, r

-------------------------------------------------------------------------------
\* Differences of dates, in units.

Diff(p, q, u) ==
    CASE u = "tick"  -> p - q
      [] u = "day"   -> Day(p) - Day(q)
      [] u = "week"  -> Quot(Day(p) - Day(q), DaysPerWeek)
      [] u = "month" -> Month(p) - Month(q)
      [] u = "year"  -> Year(p) - Year(q)

LEMMA MinusIs ==
    ASSUME NEW l, NEW r
    PROVE  LET u == Coarser(l.unit, r.unit) IN Minus(l, r) = Duration(Diff(l.p, r.p, u), u)
BY DEF Minus, Diff

LEMMA DiffIs ==
    ASSUME NEW p, NEW q
    PROVE  /\ Diff(p, q, "tick") = p - q
           /\ Diff(p, q, "day") = Day(p) - Day(q)
           /\ Diff(p, q, "week") = Quot(Day(p) - Day(q), DaysPerWeek)
           /\ Diff(p, q, "month") = Month(p) - Month(q)
           /\ Diff(p, q, "year") = Year(p) - Year(q)
BY DEF Diff

LEMMA UnitsAre == \A u \in Units : u \in {"tick", "day", "week", "month", "year"}
BY DEF Units, Rank

LEMMA QuotOfNat ==
    ASSUME NEW a \in Nat, NEW d \in Nat \ {0}
    PROVE  Quot(a, d) = a \div d /\ Quot(a, d) \in Nat
BY DEF Quot

\* Dates after q are a number of units after it, the later the more.
LEMMA DiffOrder ==
    ASSUME NEW u \in Units, NEW q \in Int, NEW p \in Int, q <= p
    PROVE  /\ Diff(p, q, u) \in Nat
           /\ \A l \in Int : p <= l => Diff(p, q, u) <= Diff(l, q, u)
<1>1. Day(p) \in Int /\ Month(p) \in Int /\ Year(p) \in Int /\ Day(q) \in Int /\ Month(q) \in Int /\ Year(q) \in Int
  BY DayInMonth, MonthOfYearIs
<1>2. Day(q) <= Day(p) /\ Month(q) <= Month(p) /\ Year(q) <= Year(p)
  BY LaterMonth
<1>3. ASSUME NEW l \in Int, p <= l
      PROVE  /\ Day(l) \in Int /\ Month(l) \in Int /\ Year(l) \in Int
             /\ Day(p) <= Day(l) /\ Month(p) <= Month(l) /\ Year(p) <= Year(l)
  BY <1>3, LaterMonth, DayInMonth, MonthOfYearIs
<1>4. CASE u = "tick"
  BY <1>4, DiffIs
<1>5. CASE u = "day"
  BY <1>1, <1>2, <1>3, <1>5, DiffIs
<1>6. CASE u = "month"
  BY <1>1, <1>2, <1>3, <1>6, DiffIs
<1>7. CASE u = "year"
  BY <1>1, <1>2, <1>3, <1>7, DiffIs
<1>8. CASE u = "week"
  <2>1. Day(p) - Day(q) \in Nat
    BY <1>1, <1>2
  <2>2. Diff(p, q, u) = (Day(p) - Day(q)) \div DaysPerWeek /\ Diff(p, q, u) \in Nat
    BY <1>8, <2>1, Calendar, DiffIs, QuotOfNat
  <2>3. ASSUME NEW l \in Int, p <= l PROVE Diff(p, q, u) <= Diff(l, q, u)
    <3>1. Day(l) - Day(q) \in Nat /\ Day(p) - Day(q) <= Day(l) - Day(q)
      BY <1>1, <1>2, <1>3, <2>3
    <3>2. Diff(l, q, u) = (Day(l) - Day(q)) \div DaysPerWeek
      BY <1>8, <3>1, Calendar, DiffIs, QuotOfNat
    <3> QED BY <2>1, <2>2, <3>1, <3>2, Calendar, DivMonotone
  <2> QED BY <2>2, <2>3
<1> QED BY <1>4, <1>5, <1>6, <1>7, <1>8, UnitsAre

LEMMA DiffSelf ==
    ASSUME NEW u \in Units, NEW q \in Int
    PROVE  Diff(q, q, u) = 0
<1>1. Day(q) \in Int /\ Month(q) \in Int /\ Year(q) \in Int
  BY DayInMonth, MonthOfYearIs
<1>2. Quot(0, DaysPerWeek) = 0
  BY Calendar, QuotOfNat
<1> QED BY <1>1, <1>2, DiffIs, UnitsAre

\* k units after a date.
Later(p, k, u) ==
    CASE u = "tick"  -> p + k
      [] u = "day"   -> p + k * TicksPerDay
      [] u = "week"  -> p + k * DaysPerWeek * TicksPerDay
      [] OTHER -> AddMonths(p, IF u = "year" THEN k * Months ELSE k)

LEMMA LaterIs ==
    ASSUME NEW p, NEW k
    PROVE  /\ Later(p, k, "tick") = p + k
           /\ Later(p, k, "day") = p + k * TicksPerDay
           /\ Later(p, k, "week") = p + k * DaysPerWeek * TicksPerDay
           /\ Later(p, k, "month") = AddMonths(p, k)
           /\ Later(p, k, "year") = AddMonths(p, k * Months)
BY DEF Later

LEMMA PlusIs ==
    ASSUME NEW l, NEW d
    PROVE  Plus(l, d) = Date(Later(l.p, d.interval, d.unit), d.unit)
BY DEF Plus, Later

LEMMA AddedDays ==
    ASSUME NEW p \in Int, NEW k \in Nat
    PROVE  /\ p + k * TicksPerDay \in Int /\ p + k * TicksPerDay >= p
           /\ Day(p + k * TicksPerDay) = Day(p) + k
<1>1. k * TicksPerDay \in Nat
  BY Calendar, SMT
<1>2. k \in Int /\ TicksPerDay \in Nat \ {0}
  BY Calendar
<1>3. (p + k * TicksPerDay) \div TicksPerDay = p \div TicksPerDay + k
  BY <1>2, DivPlus, Zenon
<1>4. Day(p + k * TicksPerDay) = Day(p) + k
  BY <1>3 DEF Day
<1> QED BY <1>1, <1>4

\* k units later is k units more.
LEMMA LaterDiff ==
    ASSUME NEW u \in Units, NEW q \in Int, NEW p \in Int, q <= p, NEW k \in Nat
    PROVE  /\ Later(p, k, u) \in Int /\ Later(p, k, u) >= p
           /\ Diff(Later(p, k, u), q, u) = Diff(p, q, u) + k
           /\ k = 0 => Later(p, k, u) = p
<1>1. /\ Day(p) \in Int /\ Month(p) \in Int /\ Year(p) \in Int /\ Day(q) \in Int /\ Month(q) \in Int
      /\ Year(q) \in Int /\ Day(q) <= Day(p)
  BY DayInMonth, MonthOfYearIs, LaterMonth
<1>2. CASE u = "tick"
  BY <1>2, DiffIs, LaterIs
<1>3. CASE u = "day"
  <2>1. Later(p, k, u) = p + k * TicksPerDay
    BY <1>3, LaterIs
  <2>2. Diff(Later(p, k, u), q, u) = (Day(p) + k) - Day(q) /\ Diff(p, q, u) = Day(p) - Day(q)
    <3>1. Day(p + k * TicksPerDay) = Day(p) + k
      BY AddedDays
    <3>2. /\ Diff(Later(p, k, u), q, u) = Day(p + k * TicksPerDay) - Day(q)
          /\ Diff(p, q, u) = Day(p) - Day(q)
      BY <1>3, <2>1, DiffIs
    <3> QED BY <3>1, <3>2, Zenon
  <2>3. k = 0 => p + k * TicksPerDay = p
    BY Calendar
  <2> QED BY <1>1, <2>1, <2>2, <2>3, AddedDays
<1>4. CASE u = "week"
  <2> DEFINE days == k * DaysPerWeek
  <2>1. days \in Nat /\ (k = 0 => days = 0)
    BY Calendar, SMT
  <2>2. Later(p, k, u) = p + days * TicksPerDay
    BY <1>4, LaterIs
  <2> DEFINE d == Day(p) - Day(q)
  <2>3. d \in Nat
    BY <1>1
  <2>4. Diff(p, q, u) = d \div DaysPerWeek /\ d \div DaysPerWeek \in Nat
    BY <1>4, <2>3, Calendar, DiffIs, QuotOfNat
  <2>5. (d + days) \div DaysPerWeek = d \div DaysPerWeek + k
    <3>1. d \in Int /\ k \in Int /\ DaysPerWeek \in Nat \ {0}
      BY <2>3, Calendar
    <3> HIDE DEF d
    <3> QED BY <3>1, DivPlus, Zenon
  <2>6. Diff(Later(p, k, u), q, u) = (d + days) \div DaysPerWeek
    <3> HIDE DEF days
    <3>1. Day(p + days * TicksPerDay) - Day(q) = d + days /\ d + days \in Nat
      <4>1. Day(p + days * TicksPerDay) = Day(p) + days
        BY <2>1, AddedDays
      <4>2. (Day(p) + days) - Day(q) = (Day(p) - Day(q)) + days /\ Day(p) - Day(q) + days \in Nat
        BY <1>1, <2>1
      <4>3. Day(p + days * TicksPerDay) - Day(q) = (Day(p) + days) - Day(q)
        BY <4>1, Zenon
      <4> HIDE DEF d
      <4>4. Day(p + days * TicksPerDay) - Day(q) = d + days /\ d + days \in Nat
        BY <4>2, <4>3, Zenon DEF d
      <4> QED BY <4>4
    <3>2. Diff(Later(p, k, u), q, u) = Quot(Day(p + days * TicksPerDay) - Day(q), DaysPerWeek)
      BY <1>4, <2>2, DiffIs
    <3> HIDE DEF d
    <3> QED BY <3>1, <3>2, Calendar, QuotOfNat
  <2>7. k = 0 => p + days * TicksPerDay = p
    <3> HIDE DEF days
    <3> QED BY <2>1, Calendar
  <2> HIDE DEF days, d
  <2> QED BY <2>1, <2>2, <2>4, <2>5, <2>6, <2>7, AddedDays
<1>5. CASE u = "month"
  <2>1. /\ AddMonths(p, k) \in Int /\ Month(AddMonths(p, k)) = Month(p) + k
        /\ (k = 0 => AddMonths(p, k) = p) /\ AddMonths(p, k) >= p
    <3>1. k \in Int /\ k >= 0
      OBVIOUS
    <3> QED BY <3>1, AddedMonths
  <2>2. /\ Later(p, k, u) = AddMonths(p, k) /\ Diff(p, q, u) = Month(p) - Month(q)
        /\ Diff(Later(p, k, u), q, u) = Month(AddMonths(p, k)) - Month(q)
    BY <1>5, DiffIs, LaterIs
  <2> QED BY <1>1, <2>1, <2>2
<1>6. CASE u = "year"
  <2> DEFINE n == k * Months
  <2>1. n \in Nat /\ (k = 0 => n = 0)
    BY Calendar, SMT
  <2>2. Later(p, k, u) = AddMonths(p, n)
    BY <1>6, LaterIs
  <2>3. Year(AddMonths(p, n)) = (Month(p) + n) \div Months
    <3> HIDE DEF n
    <3>1. AddMonths(p, n) \in Int /\ Month(AddMonths(p, n)) = Month(p) + n
      BY <2>1, AddedMonths
    <3> QED BY <3>1, DayInMonth
  <2>4. (Month(p) + n) \div Months = Year(p) + k
    <3>1. (Month(p) + n) \div Months = Month(p) \div Months + k
      <4>1. Month(p) \in Int /\ k \in Int /\ Months \in Nat \ {0}
        BY <1>1, Calendar
      <4> QED BY <4>1, DivPlus, Zenon
    <3> QED BY <3>1, DayInMonth
  <2> HIDE DEF n
  <2>5. Diff(Later(p, k, u), q, u) = (Year(p) + k) - Year(q) /\ Diff(p, q, u) = Year(p) - Year(q)
    <3>1. /\ Diff(Later(p, k, u), q, u) = Year(AddMonths(p, n)) - Year(q)
          /\ Diff(p, q, u) = Year(p) - Year(q)
      BY <1>6, <2>2, DiffIs
    <3>2. Year(AddMonths(p, n)) = Year(p) + k
      BY <2>3, <2>4, Zenon
    <3> QED BY <3>1, <3>2, Zenon
  <2>6. AddMonths(p, n) \in Int /\ (n = 0 => AddMonths(p, n) = p) /\ AddMonths(p, n) >= p
    <3>1. n \in Int /\ n >= 0
      BY <2>1
    <3> QED BY <3>1, AddedMonths
  <2>7. (Year(p) + k) - Year(q) = (Year(p) - Year(q)) + k
    BY <1>1
  <2> QED BY <2>1, <2>2, <2>5, <2>6, <2>7
<1> QED BY <1>2, <1>3, <1>4, <1>5, <1>6, UnitsAre

-------------------------------------------------------------------------------
\* Dates that are written in their unit.

LEMMA WrittenIs ==
    ASSUME NEW p
    PROVE  /\ Written(Date(p, "tick")) = p /\ Written(Date(p, "week")) = p
           /\ Written(Date(p, "day")) = Day(p) * TicksPerDay
           /\ Written(Date(p, "month")) = MonthStart(Month(p))
           /\ Written(Date(p, "year")) = MonthStart(Year(p) * Months)
BY DEF Written, Date

\* Dates of one day are in one month and one year.
LEMMA SameDay ==
    ASSUME NEW p, NEW q, Day(p) = Day(q)
    PROVE  Month(p) = Month(q) /\ Year(p) = Year(q)
BY DEF Month, Year, MonthOfYear, DayOfYear

LEMMA StartOfMonth ==
    ASSUME NEW m \in Int
    PROVE  /\ MonthStart(m) \in Int /\ Month(MonthStart(m)) = m /\ Day(MonthStart(m)) = FirstDay(m)
           /\ Year(MonthStart(m)) = m \div Months
           /\ MonthStart(m) % TicksPerDay = 0
<1>1. FirstDay(m) \in Int /\ MonthStart(m) = FirstDay(m) * TicksPerDay /\ LengthOf(m) \in Nat \ {0}
  BY FirstDayType
<1>2. 0 \in 0..(TicksPerDay - 1) /\ FirstDay(m) * TicksPerDay \in Int
  BY <1>1, Calendar, SMT
<1>3. FirstDay(m) * TicksPerDay = TicksPerDay * FirstDay(m) + 0
  BY <1>1, Calendar
<1>4. Day(MonthStart(m)) = FirstDay(m) /\ MonthStart(m) % TicksPerDay = 0
  BY <1>1, <1>2, <1>3, Calendar, DivModUnique DEF Day
<1>5. FirstDay(m + 1) = FirstDay(m) + LengthOf(m)
  BY NextMonth
<1>6. Month(MonthStart(m)) = m
  BY <1>1, <1>2, <1>4, <1>5, MonthIs
<1> QED BY <1>1, <1>2, <1>4, <1>6, DayInMonth

LEMMA StartOfYear ==
    ASSUME NEW y \in Int
    PROVE  y * Months \in Int /\ (y * Months) \div Months = y
<1>1. y * Months = Months * y + 0 /\ y * Months \in Int /\ 0 \in 0..(Months - 1)
  BY Calendar
<1> QED BY <1>1, Calendar, DivModUnique

LEMMA MonthStartOrder ==
    ASSUME NEW m \in Int, NEW k \in Int, m <= k
    PROVE  MonthStart(m) <= MonthStart(k)
<1>1. CASE m = k
  BY <1>1, StartOfMonth
<1>2. CASE m < k
  <2>1. FirstDay(m) <= FirstDay(k) /\ FirstDay(m) \in Int /\ FirstDay(k) \in Int
    <3>1. FirstDay(m + 1) <= FirstDay(k) /\ FirstDay(m + 1) = FirstDay(m) + LengthOf(m)
      BY <1>2, MonthOrder, NextMonth
    <3> QED BY <3>1, FirstDayType
  <2>2. TicksPerDay * FirstDay(m) <= TicksPerDay * FirstDay(k)
    BY <2>1, Calendar, TimesOrder
  <2>3. TicksPerDay * FirstDay(m) = MonthStart(m) /\ TicksPerDay * FirstDay(k) = MonthStart(k)
    BY <2>1, FirstDayType, Calendar
  <2> QED BY <2>2, <2>3
<1> QED BY <1>1, <1>2

\* The same unit of u.
SameUnit(p, q, u) ==
    /\ u = "tick" => p = q
    /\ u \in {"day", "week"} => Day(p) = Day(q)
    /\ u = "month" => Month(p) = Month(q)
    /\ u = "year" => Year(p) = Year(q)

\* A date that is written in a unit stays in it, and in every coarser one.
LEMMA WrittenUnit ==
    ASSUME NEW w \in Units, NEW u \in Units, Rank[w] <= Rank[u], NEW p \in Int
    PROVE  Written(Date(p, w)) \in Int /\ SameUnit(Written(Date(p, w)), p, u)
<1>1. CASE w \in {"tick", "week"}
  BY <1>1, WrittenIs DEF SameUnit
<1>2. CASE w = "day"
  <2>1. Day(p) \in Int /\ 0 \in 0..(TicksPerDay - 1)
    BY DayInMonth, Calendar
  <2>2. Day(p) * TicksPerDay \in Int
    BY <2>1, Calendar, SMT
  <2>3. Day(Day(p) * TicksPerDay) = Day(p)
    <3>1. Day(Day(p) * TicksPerDay + 0) = Day(p)
      BY <2>1, DaysAndRest
    <3> QED BY <2>2, <3>1
  <2>4. u # "tick"
    BY <1>2 DEF Rank
  <2> QED BY <1>2, <2>2, <2>3, <2>4, SameDay, WrittenIs DEF SameUnit
<1>3. CASE w = "month"
  <2>1. u \in {"month", "year"}
    BY <1>3, UnitsAre DEF Rank
  <2>2. Month(p) \in Int /\ Month(p) \div Months = Year(p)
    BY DayInMonth
  <2> QED BY <1>3, <2>1, <2>2, StartOfMonth, WrittenIs DEF SameUnit
<1>4. CASE w = "year"
  <2>1. u = "year"
    BY <1>4, UnitsAre DEF Rank
  <2>2. Year(p) \in Int
    BY MonthOfYearIs
  <2> DEFINE m == Year(p) * Months
  <2>3. m \in Int /\ m \div Months = Year(p)
    BY <2>2, StartOfYear
  <2> HIDE DEF m
  <2>4. MonthStart(m) \in Int /\ Year(MonthStart(m)) = Year(p)
    BY <2>3, StartOfMonth
  <2> QED BY <1>4, <2>1, <2>4, WrittenIs DEF SameUnit, m
<1> QED BY <1>1, <1>2, <1>3, <1>4, UnitsAre

LEMMA SameUnitDiff ==
    ASSUME NEW u \in Units, NEW p, NEW pp, NEW q, NEW qq, SameUnit(p, pp, u), SameUnit(q, qq, u)
    PROVE  Diff(p, q, u) = Diff(pp, qq, u)
BY UnitsAre, DiffIs DEF SameUnit

\* Writing keeps the order of dates.
LEMMA WrittenOrder ==
    ASSUME NEW w \in Units, NEW p \in Int, NEW q \in Int, p <= q
    PROVE  Written(Date(p, w)) <= Written(Date(q, w))
<1>1. /\ Day(p) \in Int /\ Month(p) \in Int /\ Year(p) \in Int /\ Day(q) \in Int /\ Month(q) \in Int
      /\ Year(q) \in Int /\ Day(p) <= Day(q) /\ Month(p) <= Month(q) /\ Year(p) <= Year(q)
  BY DayInMonth, MonthOfYearIs, LaterMonth
<1>2. CASE w \in {"tick", "week"}
  BY <1>2, WrittenIs
<1>3. CASE w = "day"
  <2>1. TicksPerDay * Day(p) <= TicksPerDay * Day(q)
    BY <1>1, Calendar, TimesOrder
  <2>2. TicksPerDay * Day(p) = Day(p) * TicksPerDay /\ TicksPerDay * Day(q) = Day(q) * TicksPerDay
    BY <1>1, Calendar
  <2> QED BY <1>3, <2>1, <2>2, WrittenIs
<1>4. CASE w = "month"
  BY <1>1, <1>4, MonthStartOrder, WrittenIs
<1>5. CASE w = "year"
  <2>1. Months * Year(p) <= Months * Year(q)
    BY <1>1, Calendar, TimesOrder
  <2>2. /\ Months * Year(p) = Year(p) * Months /\ Months * Year(q) = Year(q) * Months
        /\ Year(p) * Months \in Int /\ Year(q) * Months \in Int
    BY <1>1, Calendar, SMT
  <2> DEFINE a == Year(p) * Months
             b == Year(q) * Months
  <2>3. a \in Int /\ b \in Int /\ a <= b
    BY <2>1, <2>2
  <2> HIDE DEF a, b
  <2>4. MonthStart(a) <= MonthStart(b)
    BY <2>3, MonthStartOrder
  <2> QED BY <1>5, <2>4, WrittenIs DEF a, b
<1> QED BY <1>2, <1>3, <1>4, <1>5, UnitsAre

-------------------------------------------------------------------------------
\* Views.

Dates == [p : Int, unit : Units]

\* What cube_view::read leaves, and every setter: dates have the unit of the duration.  The
\* default view of a single date has one cell of a day.
ViewTypes ==
    [win : [left : Int, right : Int], nx : Nat \ {0}, t0 : Dates, t1 : Dates,
     dt : [interval : Nat \ {0}, unit : Units]]

ViewOK(v) ==
    /\ v \in ViewTypes
    /\ v.win.left < v.win.right
    /\ v.t0.p <= v.t1.p
    /\ \/ v.t0.unit = v.dt.unit /\ v.t1.unit = v.dt.unit
       \/ v.t0 = v.t1 /\ v.t0.unit = "tick" /\ v.dt.unit = "day"

\* The number of whole cells before the last date.
LastCell(v) == Diff(v.t1.p, v.t0.p, v.dt.unit) \div v.dt.interval

LEMMA CellsForIs ==
    ASSUME NEW d \in Nat, NEW i \in Nat \ {0}
    PROVE  CellsFor(d + 1, i) = d \div i + 1 /\ d \div i \in Nat
<1> DEFINE q == d \div i
           r == d % i
<1>1. q \in Nat /\ r \in 0..(i - 1) /\ d = i * q + r
  BY Division
<1> HIDE DEF q, r
<1>2. Quot(d + 1, i) = (d + 1) \div i
  BY QuotOfNat
<1>3. CASE r + 1 < i
  <2>1. r + 1 \in 0..(i - 1) /\ d + 1 = i * q + (r + 1)
    BY <1>1, <1>3
  <2>2. (d + 1) \div i = q
    BY <1>1, <2>1, DivModUnique
  <2>3. Rem(d + 1, i) = r + 1
    BY <1>1, <1>2, <2>1, <2>2 DEF Rem
  <2> QED BY <1>1, <1>2, <2>2, <2>3 DEF CellsFor, q
<1>4. CASE ~ (r + 1 < i)
  <2>1. r + 1 = i
    BY <1>1, <1>4
  <2>2. d + 1 = i * (q + 1) + 0 /\ q + 1 \in Int /\ 0 \in 0..(i - 1)
    BY <1>1, <2>1
  <2>3. (d + 1) \div i = q + 1
    BY <2>2, DivModUnique
  <2>4. Rem(d + 1, i) = 0
    BY <1>1, <1>2, <2>2, <2>3 DEF Rem
  <2> QED BY <1>1, <1>2, <2>3, <2>4 DEF CellsFor, q
<1> QED BY <1>3, <1>4

\* Dates, cells and the beginnings of cells.
LEMMA ViewTime ==
    ASSUME NEW v, ViewOK(v)
    PROVE  /\ v.dt.unit \in Units /\ v.dt.interval \in Nat \ {0} /\ v.t0.p \in Int /\ v.t1.p \in Int
           /\ LastCell(v) \in Nat /\ nt(v) = LastCell(v) + 1
           /\ \A p \in Int : v.t0.p <= p =>
                /\ Diff(p, v.t0.p, v.dt.unit) \in Nat
                /\ cube_time(v, p) = Diff(p, v.t0.p, v.dt.unit) \div v.dt.interval
                /\ cube_time(v, p) \in Nat
<1> DEFINE u == v.dt.unit
           i == v.dt.interval
           d == Diff(v.t1.p, v.t0.p, u)
<1>1. /\ u \in Units /\ i \in Nat \ {0} /\ v.t0.p \in Int /\ v.t1.p \in Int
      /\ v.t0.unit \in Units /\ v.t1.unit \in Units
      /\ v.dt = Duration(i, u)
  BY DEF ViewOK, ViewTypes, Dates, Duration
<1>2. /\ Coarser(u, v.t0.unit) = u
      /\ \/ v.t0.unit = u /\ v.t1.unit = u /\ Coarser(v.t1.unit, v.t0.unit) = u
         \/ v.t0 = v.t1
  BY DEF ViewOK, Coarser, Rank
<1>3. d \in Nat
  BY <1>1, DiffOrder DEF ViewOK
<1>4. d \div i \in Nat /\ CellsFor(d + 1, i) = d \div i + 1
  BY <1>1, <1>3, CellsForIs
<1>5. nt(v) = d \div i + 1
  <2>1. CASE v.t0.unit = u /\ v.t1.unit = u /\ Coarser(v.t1.unit, v.t0.unit) = u
    <3>1. Minus(v.t1, v.t0).interval = d
      BY <2>1, MinusIs DEF Duration
    <3>2. CASE d = 0
      <4>1. Equal(v.t1, v.t0)
        BY <2>1, <3>1, <3>2 DEF Equal
      <4>2. d \div i = 0
        BY <3>2, <1>1
      <4> QED BY <4>1, <4>2 DEF nt
    <3>3. CASE d # 0
      <4>1. ~ Equal(v.t1, v.t0)
        BY <3>1, <3>3 DEF Equal
      <4> QED BY <3>1, <4>1, <1>4 DEF nt
    <3> QED BY <3>2, <3>3
  <2>2. CASE v.t0 = v.t1
    <3>1. Coarser(v.t1.unit, v.t0.unit) \in Units
      BY <1>1 DEF Coarser
    <3>2. Minus(v.t1, v.t0).interval = 0
      BY <1>1, <2>2, <3>1, MinusIs, DiffSelf DEF Duration
    <3>3. Equal(v.t1, v.t0)
      BY <2>2, <3>2 DEF Equal
    <3>4. d = 0
      BY <1>1, <2>2, DiffSelf
    <3>5. d \div i = 0
      BY <3>4, <1>1
    <3> QED BY <3>3, <3>5 DEF nt
  <2> QED BY <1>2, <2>1, <2>2
<1>6. ASSUME NEW p \in Int, v.t0.p <= p
      PROVE  /\ Diff(p, v.t0.p, u) \in Nat /\ cube_time(v, p) = Diff(p, v.t0.p, u) \div i
             /\ cube_time(v, p) \in Nat
  <2>1. Diff(p, v.t0.p, u) \in Nat
    BY <1>1, <1>6, DiffOrder
  <2>2. Minus(Date(p, u), v.t0).interval = Diff(p, v.t0.p, u)
    BY <1>2, MinusIs DEF Date, Duration
  <2> QED BY <2>1, <2>2, <1>1, QuotOfNat DEF cube_time
<1> QED BY <1>1, <1>4, <1>5, <1>6 DEF LastCell

LEMMA CellStart ==
    ASSUME NEW v, ViewOK(v), NEW k \in Nat
    PROVE  /\ v.dt.interval * k \in Nat
           /\ map_time(v, k) = Date(Later(v.t0.p, v.dt.interval * k, v.dt.unit), v.dt.unit)
           /\ map_time(v, k).p \in Int /\ map_time(v, k).p >= v.t0.p
           /\ Diff(map_time(v, k).p, v.t0.p, v.dt.unit) = v.dt.interval * k
           /\ cube_time(v, map_time(v, k).p) = k
<1> DEFINE u == v.dt.unit
           i == v.dt.interval
           n == i * k
<1>1. /\ u \in Units /\ i \in Nat \ {0} /\ v.t0.p \in Int /\ v.dt = Duration(i, u)
      /\ Times(v.dt, k).unit = u /\ Times(v.dt, k).interval = n
  BY DEF ViewOK, ViewTypes, Dates, Duration, Times
<1>2. n \in Nat
  BY <1>1, SMT
<1>3. map_time(v, k) = Date(Later(v.t0.p, n, u), u)
  BY <1>1, PlusIs DEF map_time
<1> HIDE DEF n
<1>4. /\ Later(v.t0.p, n, u) \in Int /\ Later(v.t0.p, n, u) >= v.t0.p
      /\ Diff(Later(v.t0.p, n, u), v.t0.p, u) = n
  <2>1. Diff(v.t0.p, v.t0.p, u) = 0
    BY <1>1, DiffSelf
  <2>2. v.t0.p <= v.t0.p
    BY <1>1
  <2> HIDE DEF u
  <2>3. Diff(Later(v.t0.p, n, u), v.t0.p, u) = Diff(v.t0.p, v.t0.p, u) + n
    BY <1>1, <1>2, <2>2, LaterDiff
  <2> QED BY <1>1, <1>2, <2>1, <2>2, <2>3, LaterDiff
<1>5. n \div i = k
  <2>1. n = i * k + 0 /\ 0 \in 0..(i - 1) /\ k \in Int
    BY <1>1 DEF n
  <2> QED BY <1>1, <2>1, DivModUnique
<1>6. map_time(v, k).p = Later(v.t0.p, n, u)
  BY <1>3 DEF Date
<1>7. cube_time(v, map_time(v, k).p) = n \div i
  <2>1. map_time(v, k).p \in Int /\ v.t0.p <= map_time(v, k).p
    BY <1>1, <1>4, <1>6
  <2> QED BY <1>4, <1>6, <2>1, ViewTime
<1> QED BY <1>2, <1>3, <1>4, <1>5, <1>6, <1>7 DEF n

\* The cell of a date does not lie before that of an earlier one.
LEMMA CellOrder ==
    ASSUME NEW v, ViewOK(v), NEW p \in Int, NEW q \in Int, v.t0.p <= p, p <= q
    PROVE  cube_time(v, p) <= cube_time(v, q)
<1>1. v.t0.p \in Int /\ v.dt.unit \in Units /\ v.dt.interval \in Nat \ {0}
  BY ViewTime
<1>2. v.t0.p <= q
  BY <1>1
<1>3. Diff(p, v.t0.p, v.dt.unit) <= Diff(q, v.t0.p, v.dt.unit)
  BY <1>1, DiffOrder
<1>4. Diff(p, v.t0.p, v.dt.unit) \in Int /\ Diff(q, v.t0.p, v.dt.unit) \in Int
  BY <1>2, ViewTime
<1>5. Diff(p, v.t0.p, v.dt.unit) \div v.dt.interval <= Diff(q, v.t0.p, v.dt.unit) \div v.dt.interval
  BY <1>1, <1>3, <1>4, DivMonotone
<1> QED BY <1>2, <1>5, ViewTime

\* A view with one unit and its number of cells set.
LEMMA CeilDivIs ==
    ASSUME NEW a \in Nat \ {0}, NEW n \in Nat \ {0}
    PROVE  /\ CeilDiv(a, n) \in Nat \ {0}
           /\ CeilDiv(a, n) * n >= a
           /\ Rem(a, n) = 0 => a = CeilDiv(a, n) * n
<1> DEFINE q == (-a) \div n
           r == (-a) % n
           c == -q
<1>1. q \in Int /\ r \in 0..(n - 1) /\ -a = n * q + r
  <2>1. -a \in Int
    OBVIOUS
  <2> QED BY <2>1, DivMod
<1> HIDE DEF q, r
<1>2. c \in Int /\ q = -c
  BY <1>1
<1> HIDE DEF c
<1>3. n * q = -(c * n) /\ c * n \in Int
  BY <1>2
<1>4. a = c * n - r /\ c * n >= a
  BY <1>1, <1>3
<1>5. c > 0
  <2> SUFFICES ASSUME c <= 0 PROVE FALSE
    BY <1>2
  <2>1. n * c <= n * 0
    BY <1>2, TimesOrder
  <2>2. n * c = c * n /\ n * 0 = 0
    BY <1>2
  <2> QED BY <2>1, <2>2, <1>3, <1>4
<1>6. ASSUME Rem(a, n) = 0 PROVE a = c * n
  <2>1. Quot(a, n) = a \div n
    BY QuotOfNat
  <2>2. PICK k \in Int : k = a \div n
    BY DivMod
  <2>3. a = n * k
    BY <1>6, <2>1, <2>2 DEF Rem
  <2>4. -a = n * (-k) + 0 /\ -k \in Int /\ 0 \in 0..(n - 1)
    BY <2>2, <2>3
  <2>5. q = -k
    BY <2>4, DivModUnique DEF q
  <2> QED BY <1>2, <2>2, <2>3, <2>5
<1>7. CeilDiv(a, n) = c
  BY DEF CeilDiv, c, q
<1> QED BY <1>2, <1>4, <1>5, <1>6, <1>7

\* n cells cover the dates of a view: nt(n), also before the view has a duration.
LEMMA SetNt ==
    ASSUME NEW v, NEW u \in Units, NEW n \in Nat \ {0}, NEW j \in Nat,
           v.win \in [left : Int, right : Int], v.win.left < v.win.right, v.nx \in Nat \ {0},
           v = View(v.win, v.nx, Date(v.t0.p, u), Date(v.t1.p, u), Duration(j, u)),
           v.t0.p \in Int, v.t1.p \in Int, v.t0.p <= v.t1.p
    PROVE  LET w == set_nt(v, n)
           IN  /\ ViewOK(w) /\ w.win = v.win /\ w.nx = v.nx /\ w.t0 = v.t0 /\ w.dt.unit = u
               /\ nt(w) = n
               /\ \A p \in Int : v.t0.p <= p /\ p <= v.t1.p => cube_time(w, p) \in 0..(n - 1)
<1> DEFINE w == set_nt(v, n)
           d == Diff(v.t1.p, v.t0.p, u)
           i == CeilDiv(d + 1, n)
           dt == Duration(i, u)
<1>1. v.t0 = Date(v.t0.p, u) /\ v.t1 = Date(v.t1.p, u) /\ v.dt = Duration(j, u)
  BY DEF View
<1>2. v.t0.unit = u /\ v.t1.unit = u /\ v.dt.unit = u
  BY <1>1 DEF Date, Duration
<1>3. Coarser(u, u) = u
  BY DEF Coarser
<1>4. Minus(v.t1, v.t0) = Duration(d, u)
  BY <1>2, <1>3, MinusIs
<1>5. d \in Nat
  BY DiffOrder
<1>6. w = Stretched(v, n, d + 1, dt)
  BY <1>2, <1>4 DEF set_nt, Duration
<1>7. i \in Nat \ {0} /\ i * n >= d + 1 /\ (Rem(d + 1, n) = 0 => d + 1 = i * n)
  BY <1>5, CeilDivIs
<1> HIDE DEF w, d, i
<1>8. Times(dt, n - 1) = Duration(i * (n - 1), u)
  BY DEF Times, Duration
<1> DEFINE m == i * (n - 1)
           e == IF Rem(d + 1, n) # 0 THEN Date(Later(v.t0.p, m, u), u) ELSE v.t1
<1>9. m \in Nat
  BY <1>7, SMT
<1>10. /\ Later(v.t0.p, m, u) \in Int /\ Later(v.t0.p, m, u) >= v.t0.p
       /\ Diff(Later(v.t0.p, m, u), v.t0.p, u) = m
  <2> HIDE DEF m
  <2>1. Diff(v.t0.p, v.t0.p, u) = 0 /\ v.t0.p <= v.t0.p
    BY DiffSelf
  <2>2. Diff(Later(v.t0.p, m, u), v.t0.p, u) = Diff(v.t0.p, v.t0.p, u) + m
    BY <1>9, <2>1, LaterDiff
  <2> QED BY <1>9, <2>1, <2>2, LaterDiff
<1>11. w = [v EXCEPT !.dt = dt, !.t1 = e]
  <2>1. Plus(v.t0, Times(dt, n - 1)) = Date(Later(v.t0.p, m, u), u)
    BY <1>8, PlusIs DEF Duration
  <2> QED BY <1>6, <2>1 DEF Stretched
<1> HIDE DEF m
<1>12. w = View(v.win, v.nx, v.t0, e, dt)
  <2> HIDE DEF e, dt
  <2> QED BY <1>11 DEF View
<1>13. e.p \in Int /\ e.p >= v.t0.p /\ e.unit = u /\ e \in Dates
  BY <1>2, <1>1, <1>10 DEF Date, Dates
<1>14. /\ w.win = v.win /\ w.nx = v.nx /\ w.t0 = v.t0 /\ w.t1 = e /\ w.dt = dt
       /\ w.dt.unit = u /\ w.dt.interval = i
  <2> HIDE DEF e
  <2> QED BY <1>12 DEF View, Duration
<1>15. ViewOK(w)
  <2> HIDE DEF e, dt
  <2>1. dt \in [interval : Nat \ {0}, unit : Units]
    BY <1>7 DEF dt, Duration
  <2>2. v.t0 \in Dates
    BY <1>1 DEF Date, Dates
  <2>3. w \in ViewTypes
    BY <1>12, <1>13, <2>1, <2>2 DEF View, ViewTypes
  <2> QED BY <1>2, <1>13, <1>14, <2>3 DEF ViewOK
<1>16. nt(w) = n
  <2>1. LastCell(w) = Diff(e.p, v.t0.p, u) \div i
    BY <1>14 DEF LastCell
  <2>2. Diff(e.p, v.t0.p, u) \div i = n - 1
    <3>1. CASE Rem(d + 1, n) # 0
      <4>1. Diff(e.p, v.t0.p, u) = i * (n - 1)
        BY <1>10, <3>1 DEF m, Date
      <4>2. i * (n - 1) = i * (n - 1) + 0 /\ 0 \in 0..(i - 1) /\ n - 1 \in Int
        BY <1>7
      <4>3. (i * (n - 1) + 0) \div i = n - 1
        BY <4>2, <1>7, DivModUnique
      <4> QED BY <4>1, <4>2, <4>3
    <3>2. CASE Rem(d + 1, n) = 0
      <4>1. Diff(e.p, v.t0.p, u) = d
        BY <3>2 DEF d
      <4>2. d = i * (n - 1) + (i - 1) /\ i - 1 \in 0..(i - 1) /\ n - 1 \in Int
        <5>1. i * n = i * (n - 1) + i /\ i * (n - 1) \in Int
          BY <1>7
        <5> QED BY <5>1, <1>5, <1>7, <3>2
      <4>3. (i * (n - 1) + (i - 1)) \div i = n - 1
        BY <4>2, <1>7, DivModUnique
      <4> QED BY <4>1, <4>2, <4>3
    <3> QED BY <3>1, <3>2
  <2>3. LastCell(w) = n - 1
    BY <2>1, <2>2
  <2>4. nt(w) = LastCell(w) + 1
    BY <1>15, ViewTime
  <2> QED BY <2>3, <2>4
<1>17. ASSUME NEW p \in Int, v.t0.p <= p, p <= v.t1.p
       PROVE  cube_time(w, p) \in 0..(n - 1)
  <2> DEFINE f == Diff(p, v.t0.p, u)
  <2>1. f \in Nat /\ f <= d
    BY <1>17, DiffOrder DEF d
  <2>2. cube_time(w, p) = f \div i /\ cube_time(w, p) \in Nat
    BY <1>14, <1>15, <1>17, ViewTime
  <2> HIDE DEF f
  <2>3. f \div i <= n - 1
    <3> DEFINE q == f \div i
    <3>1. q \in Int /\ i * q <= f
      BY <2>1, <1>7, DivMod
    <3> HIDE DEF q
    <3>2. SUFFICES ASSUME n <= q PROVE FALSE
      BY <3>1 DEF q
    <3>3. i * n <= i * q
      BY <1>7, <3>1, <3>2, TimesOrder
    <3>4. i * n \in Int /\ i * q \in Int
      BY <1>7, <3>1, SMT
    <3> QED BY <1>5, <1>7, <2>1, <3>1, <3>3, <3>4
  <2> QED BY <2>2, <2>3
<1> QED BY <1>14, <1>15, <1>16, <1>17 DEF w

\* What set_dt assigns first.
WithUnits(v, u, new) == [v EXCEPT !.t0.unit = u, !.t1.unit = u, !.dt = new]

LEMMA UnitsSet ==
    ASSUME NEW v, NEW win, NEW nx, NEW t0, NEW t1, NEW dt, NEW u, NEW new,
           v = View(win, nx, t0, t1, dt)
    PROVE  WithUnits(v, u, new)
              = View(win, nx, [t0 EXCEPT !.unit = u], [t1 EXCEPT !.unit = u], new)
<1>1. PICK x : x = [v EXCEPT !.t0.unit = u]
  OBVIOUS
<1>2. PICK y : y = [x EXCEPT !.t1.unit = u]
  OBVIOUS
<1>3. x = View(win, nx, [t0 EXCEPT !.unit = u], t1, dt)
  BY <1>1 DEF View
<1>4. y = View(win, nx, [t0 EXCEPT !.unit = u], [t1 EXCEPT !.unit = u], dt)
  BY <1>2, <1>3 DEF View
<1>5. [y EXCEPT !.dt = new] = View(win, nx, [t0 EXCEPT !.unit = u], [t1 EXCEPT !.unit = u], new)
  BY <1>4 DEF View
<1>6. [v EXCEPT !.t0.unit = u, !.t1.unit = u, !.dt = new]
        = [[[v EXCEPT !.t0.unit = u] EXCEPT !.t1.unit = u] EXCEPT !.dt = new]
  OBVIOUS
<1> QED BY <1>1, <1>2, <1>5, <1>6 DEF WithUnits

\* Another duration: the dates take its unit, and the last cell becomes a whole one.
LEMMA SetDt ==
    ASSUME NEW v, ViewOK(v), NEW dt \in [interval : Nat \ {0}, unit : Units]
    PROVE  LET w == set_dt(v, dt)
           IN  /\ ViewOK(w) /\ w.win = v.win /\ w.nx = v.nx /\ w.t0.p = v.t0.p /\ w.dt = dt
               /\ w.t0.unit = dt.unit /\ w.t1.unit = dt.unit
               /\ nt(w) = Diff(v.t1.p, v.t0.p, dt.unit) \div dt.interval + 1
               /\ cube_time(w, v.t1.p) = nt(w) - 1
               /\ cube_time(w, w.t1.p) = nt(w) - 1
<1> DEFINE w == set_dt(v, dt)
           u == dt.unit
           i == dt.interval
           d == Diff(v.t1.p, v.t0.p, u)
           b == [v EXCEPT !.t0.unit = u, !.t1.unit = u, !.dt = dt]
           q == Quot(d + 1, i)
<1>1. /\ u \in Units /\ i \in Nat \ {0} /\ dt = Duration(i, u)
      /\ v.win \in [left : Int, right : Int] /\ v.nx \in Nat \ {0}
      /\ v.t0.p \in Int /\ v.t1.p \in Int /\ v.t0.p <= v.t1.p /\ v.win.left < v.win.right
  BY DEF ViewOK, ViewTypes, Dates, Duration
<1>2. b = View(v.win, v.nx, Date(v.t0.p, u), Date(v.t1.p, u), dt)
  <2>1. v \in ViewTypes
    BY DEF ViewOK
  <2>2. v.t0 \in Dates /\ v.t1 \in Dates
    BY <2>1 DEF ViewTypes
  <2>3. v = View(v.win, v.nx, v.t0, v.t1, v.dt)
    BY <2>1 DEF ViewTypes, View
  <2>4. [v.t0 EXCEPT !.unit = u] = Date(v.t0.p, u) /\ [v.t1 EXCEPT !.unit = u] = Date(v.t1.p, u)
    BY <2>2 DEF Dates, Date
  <2>5. b = View(v.win, v.nx, [v.t0 EXCEPT !.unit = u], [v.t1 EXCEPT !.unit = u], dt)
    <3>1. PICK t0 : t0 = v.t0
      OBVIOUS
    <3>2. PICK t1 : t1 = v.t1
      OBVIOUS
    <3>3. PICK win, nx, old : win = v.win /\ nx = v.nx /\ old = v.dt
      OBVIOUS
    <3>4. v = View(win, nx, t0, t1, old)
      BY <2>3, <3>1, <3>2, <3>3
    <3>5. b = WithUnits(v, u, dt)
      BY DEF WithUnits
    <3> HIDE DEF u, b
    <3>6. b = View(win, nx, [t0 EXCEPT !.unit = u], [t1 EXCEPT !.unit = u], dt)
      BY <3>4, <3>5, UnitsSet
    <3> QED BY <3>1, <3>2, <3>3, <3>6
  <2> QED BY <2>4, <2>5
<1>3. d \in Nat
  BY <1>1, DiffOrder
<1>4. Coarser(u, u) = u
  BY DEF Coarser
<1> HIDE DEF b
<1>5. b.t0 = Date(v.t0.p, u) /\ b.t1 = Date(v.t1.p, u)
  BY <1>2 DEF View
<1>6. Minus(b.t1, b.t0).interval = d
  BY <1>4, <1>5, MinusIs DEF Date, Duration
<1>7. w = Extended(b, dt, d + 1)
  BY <1>6 DEF set_dt, b
<1>8. /\ d \div i \in Nat /\ q = (d + 1) \div i /\ q \in Nat
  <2>1. d + 1 \in Nat
    BY <1>3
  <2> HIDE DEF d, i
  <2> QED BY <1>1, <1>3, <2>1, Division, QuotOfNat
<1> HIDE DEF w, q
<1> DEFINE m == i * q
           l == Later(v.t0.p, m, u)
           e == IF Rem(d + 1, i) = 0 THEN Date(v.t1.p, u) ELSE Date(Later(l, i - 1, u), u)
<1>9. m \in Nat
  BY <1>1, <1>8, SMT
<1>10. l \in Int /\ l >= v.t0.p /\ Diff(l, v.t0.p, u) = m
  <2> HIDE DEF m
  <2>1. Diff(v.t0.p, v.t0.p, u) = 0 /\ v.t0.p <= v.t0.p
    BY <1>1, DiffSelf
  <2> HIDE DEF u
  <2>2. Diff(Later(v.t0.p, m, u), v.t0.p, u) = Diff(v.t0.p, v.t0.p, u) + m
    BY <1>1, <1>9, <2>1, LaterDiff
  <2> QED BY <1>1, <1>9, <2>1, <2>2, LaterDiff
<1>11. /\ Later(l, i - 1, u) \in Int /\ Later(l, i - 1, u) >= v.t0.p
       /\ Diff(Later(l, i - 1, u), v.t0.p, u) = m + (i - 1)
  <2> HIDE DEF l, m, u
  <2>1. i - 1 \in Nat /\ v.t0.p <= l
    BY <1>1, <1>10
  <2>2. Later(l, i - 1, u) \in Int /\ Later(l, i - 1, u) >= l
    BY <1>1, <1>10, <2>1, LaterDiff
  <2>3. Diff(Later(l, i - 1, u), v.t0.p, u) = Diff(l, v.t0.p, u) + (i - 1)
    BY <1>1, <1>10, <2>1, LaterDiff
  <2> QED BY <1>1, <1>10, <2>1, <2>2, <2>3
<1>12. w = [b EXCEPT !.t1 = e]
  <2>1. CASE Rem(d + 1, i) = 0
    <3>1. w = b
      BY <1>7, <2>1 DEF Extended
    <3>2. [b EXCEPT !.t1 = e] = b
      BY <1>2, <2>1 DEF View
    <3> QED BY <3>1, <3>2
  <2>2. CASE Rem(d + 1, i) # 0
    <3>1. Times(dt, q) = Duration(m, u)
      BY <1>1 DEF Times, Duration
    <3>2. Plus(b.t0, Duration(m, u)) = Date(l, u)
      BY <1>5, PlusIs DEF Date, Duration
    <3>3. Plus(Date(l, u), Duration(i - 1, u)) = Date(Later(l, i - 1, u), u)
      BY PlusIs DEF Date, Duration
    <3> QED BY <1>7, <2>2, <3>1, <3>2, <3>3 DEF Extended, q
  <2> QED BY <2>1, <2>2
<1> HIDE DEF m, l
<1>13. e.p \in Int /\ e.p >= v.t0.p /\ e.unit = u /\ e \in Dates
  BY <1>1, <1>11 DEF Date, Dates
<1>14. w = View(v.win, v.nx, Date(v.t0.p, u), e, dt)
  <2> HIDE DEF e
  <2> QED BY <1>2, <1>12 DEF View
<1>15. /\ w.win = v.win /\ w.nx = v.nx /\ w.t0.p = v.t0.p /\ w.t0.unit = u /\ w.t1 = e /\ w.dt = dt
  <2> HIDE DEF e
  <2> QED BY <1>14 DEF View, Date
<1>16. ViewOK(w)
  <2> HIDE DEF e
  <2>1. Date(v.t0.p, u) \in Dates
    BY <1>1 DEF Date, Dates
  <2>2. w \in ViewTypes
    BY <1>1, <1>13, <1>14, <2>1 DEF View, ViewTypes
  <2> QED BY <1>1, <1>13, <1>15, <2>2 DEF ViewOK
<1>17. Diff(e.p, v.t0.p, u) \div i = d \div i
  <2>1. CASE Rem(d + 1, i) = 0
    BY <2>1 DEF Date
  <2>2. CASE Rem(d + 1, i) # 0
    <3>1. Diff(e.p, v.t0.p, u) = i * q + (i - 1)
      BY <1>11, <2>2 DEF Date, m
    <3>2. (i * q + (i - 1)) \div i = q
      <4>1. i - 1 \in 0..(i - 1) /\ q \in Int
        BY <1>1, <1>8
      <4> HIDE DEF i
      <4> QED BY <4>1, <1>1, DivModUnique
    <3>3. d \div i = q
      <4> DEFINE r == (d + 1) % i
      <4>1. r \in 0..(i - 1) /\ d + 1 = i * q + r
        <5>1. d + 1 \in Int
          BY <1>3
        <5> QED BY <5>1, <1>1, <1>8, DivMod
      <4>2. Rem(d + 1, i) = r
        <5> HIDE DEF r, d, i
        <5>1. i * q \in Int
          BY <1>1, <1>8, SMT
        <5> QED BY <5>1, <4>1, <1>1, <1>3 DEF Rem, q
      <4> HIDE DEF r, d, i
      <4>3. r - 1 \in 0..(i - 1) /\ d = i * q + (r - 1) /\ q \in Int
        <5>1. i * q \in Int
          BY <1>1, <1>8, SMT
        <5> QED BY <5>1, <4>1, <4>2, <2>2, <1>1, <1>3, <1>8
      <4> QED BY <4>3, <1>1, DivModUnique
    <3> QED BY <3>1, <3>2, <3>3
  <2> QED BY <2>1, <2>2
<1>18. nt(w) = d \div i + 1
  <2>1. LastCell(w) = Diff(e.p, v.t0.p, u) \div i
    BY <1>15 DEF LastCell
  <2>2. nt(w) = LastCell(w) + 1
    BY <1>16, ViewTime
  <2> QED BY <2>1, <2>2, <1>17
<1>19. cube_time(w, v.t1.p) = d \div i
  <2>1. w.t0.p <= v.t1.p /\ v.t1.p \in Int
    BY <1>1, <1>15
  <2>2. cube_time(w, v.t1.p) = Diff(v.t1.p, w.t0.p, w.dt.unit) \div w.dt.interval
    BY <1>16, <2>1, ViewTime
  <2> QED BY <1>15, <2>2
<1>20. cube_time(w, w.t1.p) = d \div i
  <2>1. w.t0.p <= w.t1.p /\ w.t1.p \in Int
    BY <1>13, <1>15, <1>1
  <2>2. cube_time(w, w.t1.p) = Diff(w.t1.p, w.t0.p, w.dt.unit) \div w.dt.interval
    BY <1>16, <2>1, ViewTime
  <2> QED BY <1>15, <1>17, <2>2
<1>21. nt(w) - 1 = d \div i
  BY <1>8, <1>18
<1>22. w.t1.unit = u
  BY <1>13, <1>15
<1> QED BY <1>15, <1>16, <1>18, <1>19, <1>20, <1>21, <1>22 DEF w

\* Writing a date never moves it forward.
LEMMA WrittenBefore ==
    ASSUME NEW w \in Units, NEW p \in Int
    PROVE  Written(Date(p, w)) \in Int /\ Written(Date(p, w)) <= p
<1>1. Written(Date(p, w)) \in Int
  BY WrittenUnit DEF Units, Rank
<1>2. CASE w \in {"tick", "week"}
  BY <1>2, WrittenIs
<1>3. /\ Day(p) * TicksPerDay \in Int /\ Day(p) * TicksPerDay <= p
      /\ Day(p) \in Int /\ TicksPerDay * Day(p) = Day(p) * TicksPerDay
  <2>1. PICK d \in Int : d = Day(p)
    BY TimeOfDay
  <2>2. PICK r \in 0..(TicksPerDay - 1) : r = p % TicksPerDay /\ p = d * TicksPerDay + r
    BY <2>1, TimeOfDay
  <2>3. d * TicksPerDay \in Int /\ r \in Nat /\ TicksPerDay * d = d * TicksPerDay
    BY <2>1, <2>2, Calendar, SMT
  <2>4. d * TicksPerDay <= p
    BY <2>2, <2>3
  <2> QED BY <2>1, <2>3, <2>4
<1>4. CASE w = "day"
  BY <1>3, <1>4, WrittenIs
<1>5. ASSUME NEW m \in Int, m <= Month(p) PROVE MonthStart(m) <= p
  <2>1. Month(p) \in Int /\ FirstDay(Month(p)) <= Day(p)
    BY DayInMonth
  <2>2. MonthStart(m) <= MonthStart(Month(p)) /\ MonthStart(m) \in Int /\ MonthStart(Month(p)) \in Int
    BY <1>5, <2>1, MonthStartOrder, StartOfMonth
  <2>3. PICK f \in Int : f = FirstDay(Month(p)) /\ MonthStart(Month(p)) = f * TicksPerDay
    BY <2>1, FirstDayType
  <2>4. TicksPerDay * f <= TicksPerDay * Day(p) /\ TicksPerDay * f = f * TicksPerDay
    BY <1>3, <2>1, <2>3, Calendar, TimesOrder
  <2> QED BY <1>3, <2>2, <2>3, <2>4
<1>6. CASE w = "month"
  <2>1. Month(p) \in Int /\ Month(p) <= Month(p)
    BY DayInMonth
  <2> QED BY <1>1, <1>5, <1>6, <2>1, WrittenIs
<1>7. CASE w = "year"
  <2>1. Year(p) \in Int /\ Month(p) \in Int /\ Month(p) \div Months = Year(p)
    BY DayInMonth, MonthOfYearIs
  <2>2. PICK m \in Int : m = Year(p) * Months
    BY <2>1, StartOfYear
  <2>3. m <= Month(p)
    <3>1. PICK y \in Int : y = Year(p)
      BY <2>1
    <3>2. PICK c \in Nat : Month(p) = Months * y + c
      <4>1. /\ Month(p) = Months * (Month(p) \div Months) + (Month(p) % Months)
            /\ Month(p) % Months \in 0..(Months - 1)
        BY <2>1, Calendar, DivMod
      <4>2. Month(p) % Months \in Nat
        BY <4>1
      <4>3. Month(p) = Months * y + (Month(p) % Months)
        BY <2>1, <3>1, <4>1
      <4> QED BY <4>2, <4>3
    <3>3. Months * y = m
      BY <2>2, <3>1, Calendar
    <3> QED BY <2>1, <2>2, <3>2, <3>3, Calendar
  <2> QED BY <1>1, <1>5, <1>7, <2>2, <2>3, WrittenIs
<1> QED BY <1>1, <1>2, <1>4, <1>6, <1>7, UnitsAre

\* A view that was written and read again has the same cells.
LEMMA Rewritten ==
    ASSUME NEW v, ViewOK(v)
    PROVE  LET w == rewritten(v)
           IN  /\ ViewOK(w) /\ w.win = v.win /\ w.nx = v.nx /\ w.dt = v.dt
               /\ w.t0 = Date(Written(v.t0), v.dt.unit)
               /\ nt(w) = nt(v)
               /\ \A p \in Int : v.t0.p <= p => cube_time(w, p) = cube_time(v, p)
<1> DEFINE w == rewritten(v)
           u == v.dt.unit
           a == Written(v.t0)
           e == Written(v.t1)
<1>1. /\ v \in ViewTypes /\ u \in Units /\ v.t0.p \in Int /\ v.t1.p \in Int /\ v.t0.p <= v.t1.p
      /\ v.t0.unit \in Units /\ v.t1.unit \in Units
      /\ v.t0 = Date(v.t0.p, v.t0.unit) /\ v.t1 = Date(v.t1.p, v.t1.unit)
      /\ v.dt.interval \in Nat \ {0} /\ v.win.left < v.win.right
  BY DEF ViewOK, ViewTypes, Dates, Date
<1>2. Rank[v.t0.unit] <= Rank[u] /\ Rank[v.t1.unit] <= Rank[u] /\ v.t0.unit = v.t1.unit
  <2>1. Rank[u] \in Int
    BY <1>1, UnitsAre DEF Rank
  <2> QED BY <2>1 DEF ViewOK, Rank
<1>3. /\ a \in Int /\ e \in Int /\ a <= e /\ a <= v.t0.p
      /\ SameUnit(a, v.t0.p, u) /\ SameUnit(e, v.t1.p, u)
  <2>1. a \in Int /\ SameUnit(a, v.t0.p, u)
    <3> HIDE DEF u
    <3>1. Written(Date(v.t0.p, v.t0.unit)) \in Int /\ SameUnit(Written(Date(v.t0.p, v.t0.unit)), v.t0.p, u)
      BY <1>1, <1>2, WrittenUnit
    <3> QED BY <1>1, <3>1
  <2>2. e \in Int /\ SameUnit(e, v.t1.p, u)
    <3> HIDE DEF u
    <3>1. Written(Date(v.t1.p, v.t1.unit)) \in Int /\ SameUnit(Written(Date(v.t1.p, v.t1.unit)), v.t1.p, u)
      BY <1>1, <1>2, WrittenUnit
    <3> QED BY <1>1, <3>1
  <2>3. a <= e
    <3>1. Written(Date(v.t0.p, v.t0.unit)) <= Written(Date(v.t1.p, v.t0.unit))
      BY <1>1, WrittenOrder
    <3> QED BY <1>1, <1>2, <3>1
  <2>4. a <= v.t0.p
    <3>1. Written(Date(v.t0.p, v.t0.unit)) <= v.t0.p
      BY <1>1, WrittenBefore
    <3> QED BY <1>1, <3>1
  <2> QED BY <2>1, <2>2, <2>3, <2>4
<1>4. w = View(v.win, v.nx, Date(a, u), Date(e, u), v.dt)
  <2>1. v = View(v.win, v.nx, v.t0, v.t1, v.dt)
    BY <1>1 DEF ViewTypes, View
  <2>2. w = [v EXCEPT !.t0 = Date(a, u), !.t1 = Date(e, u)]
    BY DEF rewritten
  <2> HIDE DEF w, a, e, u
  <2> QED BY <2>1, <2>2 DEF View
<1> HIDE DEF w, a, e
<1>5. /\ w.win = v.win /\ w.nx = v.nx /\ w.dt = v.dt /\ w.t0 = Date(a, u) /\ w.t1 = Date(e, u)
      /\ w.t0.p = a /\ w.t1.p = e /\ w.t0.unit = u /\ w.t1.unit = u
  BY <1>4 DEF View, Date
<1>6. ViewOK(w)
  <2>1. w \in ViewTypes
    <3>1. Date(a, u) \in Dates /\ Date(e, u) \in Dates
      BY <1>1, <1>3 DEF Date, Dates
    <3>2. v.win \in [left : Int, right : Int] /\ v.nx \in Nat \ {0} /\ v.dt \in [interval : Nat \ {0}, unit : Units]
      BY <1>1 DEF ViewTypes
    <3> QED BY <1>4, <3>1, <3>2 DEF View, ViewTypes
  <2> QED BY <2>1, <1>1, <1>3, <1>5 DEF ViewOK
<1>7. nt(w) = nt(v)
  <2>1. Diff(e, a, u) = Diff(v.t1.p, v.t0.p, u)
    BY <1>1, <1>3, SameUnitDiff
  <2>2. LastCell(w) = LastCell(v)
    BY <2>1, <1>5 DEF LastCell
  <2>3. nt(w) = LastCell(w) + 1 /\ nt(v) = LastCell(v) + 1
    BY <1>6, ViewTime
  <2> QED BY <2>2, <2>3
<1>8. ASSUME NEW p \in Int, v.t0.p <= p PROVE cube_time(w, p) = cube_time(v, p)
  <2>1. a <= p
    BY <1>1, <1>3, <1>8
  <2>2. SameUnit(p, p, u)
    BY DEF SameUnit
  <2>3. Diff(p, a, u) = Diff(p, v.t0.p, u)
    BY <1>1, <1>3, <2>2, SameUnitDiff
  <2>4. cube_time(w, p) = Diff(p, a, u) \div v.dt.interval
    <3>1. cube_time(w, p) = Diff(p, w.t0.p, w.dt.unit) \div w.dt.interval
      BY <1>5, <1>6, <2>1, ViewTime
    <3> QED BY <1>5, <3>1
  <2>5. cube_time(v, p) = Diff(p, v.t0.p, u) \div v.dt.interval
    BY <1>8, ViewTime
  <2> QED BY <2>3, <2>4, <2>5
<1> QED BY <1>5, <1>6, <1>7, <1>8 DEF w, a

\* A view whose duration is set again, as that of a derived cube, has the same cells.
LEMMA Derived ==
    ASSUME NEW v, ViewOK(v)
    PROVE  /\ ViewOK(derived(v)) /\ nt(derived(v)) = nt(v)
           /\ \A p \in Int : v.t0.p <= p => cube_time(derived(v), p) = cube_time(v, p)
<1> DEFINE w == derived(v)
<1>1. v.dt \in [interval : Nat \ {0}, unit : Units]
  BY DEF ViewOK, ViewTypes
<1>2. /\ ViewOK(w) /\ w.t0.p = v.t0.p /\ w.dt = v.dt
      /\ nt(w) = Diff(v.t1.p, v.t0.p, v.dt.unit) \div v.dt.interval + 1
  BY <1>1, SetDt DEF derived
<1> HIDE DEF w
<1>3. nt(w) = nt(v)
  BY <1>2, ViewTime DEF LastCell
<1>4. ASSUME NEW p \in Int, v.t0.p <= p PROVE cube_time(w, p) = cube_time(v, p)
  <2>1. cube_time(w, p) = Diff(p, w.t0.p, w.dt.unit) \div w.dt.interval
    BY <1>2, <1>4, ViewTime
  <2>2. cube_time(v, p) = Diff(p, v.t0.p, v.dt.unit) \div v.dt.interval
    BY <1>4, ViewTime
  <2> QED BY <1>2, <2>1, <2>2
<1> QED BY <1>2, <1>3, <1>4 DEF w

\* Wider cells widen the window by the same length at both ends.
Even(n) == n % 2 = 0

LEMMA SetDx ==
    ASSUME NEW v, ViewOK(v), Even(v.win.right - v.win.left), NEW x \in Nat \ {0}, Even(x)
    PROVE  LET w == set_dx(v, x)
           IN  /\ ViewOK(w) /\ w.t0 = v.t0 /\ w.t1 = v.t1 /\ w.dt = v.dt
               /\ w.win.left <= v.win.left /\ v.win.right <= w.win.right
               /\ w.win.right - w.win.left = w.nx * x
               /\ Even(w.win.right - w.win.left)
<1> DEFINE d == v.win.right - v.win.left
           n == CeilDiv(d, x)
           ext == n * x - d
           h == ext \div 2
           win == [left |-> v.win.left - h, right |-> v.win.right + h]
<1>1. /\ v \in ViewTypes /\ v.win \in [left : Int, right : Int] /\ v.win.left \in Int /\ v.win.right \in Int
      /\ v.win.left < v.win.right
  BY DEF ViewOK, ViewTypes
<1>2. d \in Nat \ {0}
  BY <1>1
<1>3. n \in Nat \ {0} /\ n * x >= d /\ n * x \in Nat
  <2> HIDE DEF d
  <2> QED BY <1>2, CeilDivIs, SMT
<1>4. PICK k \in Nat : n * x = 2 * k
  <2>1. x = 2 * (x \div 2) + (x % 2) /\ x \div 2 \in Nat
    OBVIOUS
  <2>2. PICK j \in Nat : x = 2 * j
    BY <2>1 DEF Even
  <2> HIDE DEF n
  <2>3. n * x = 2 * (n * j) /\ n * j \in Nat
    BY <1>3, <2>2
  <2> QED BY <2>3
<1>5. PICK c \in Nat : d = 2 * c
  <2> HIDE DEF d
  <2>1. d = 2 * (d \div 2) + (d % 2) /\ d \div 2 \in Nat
    BY <1>2
  <2>2. d % 2 = 0
    BY DEF Even, d
  <2> QED BY <2>1, <2>2
<1>6. ext = 2 * (k - c) /\ k - c \in Nat
  <2> HIDE DEF n, d
  <2> QED BY <1>3, <1>4, <1>5, <1>2
<1>7. h = k - c
  <2> HIDE DEF ext
  <2> QED BY <1>6
<1>8. set_dx(v, x) = View(win, n, v.t0, v.t1, v.dt)
  <2>1. v = View(v.win, v.nx, v.t0, v.t1, v.dt)
    BY <1>1 DEF ViewTypes, View
  <2>2. set_dx(v, x) = [v EXCEPT !.nx = n, !.win = win]
    BY DEF set_dx
  <2> HIDE DEF n, win
  <2> QED BY <2>1, <2>2 DEF View
<1> DEFINE w == set_dx(v, x)
<1> HIDE DEF w, n, d, h, ext
<1>9. /\ win.left = v.win.left - (k - c) /\ win.right = v.win.right + (k - c)
      /\ win \in [left : Int, right : Int] /\ win.left < win.right
      /\ win.left <= v.win.left /\ v.win.right <= win.right
      /\ win.right - win.left = d + 2 * (k - c)
  BY <1>1, <1>6, <1>7 DEF d
<1> HIDE DEF win
<1>10. w = View(win, n, v.t0, v.t1, v.dt)
  BY <1>8 DEF w
<1>11. w.win = win /\ w.nx = n /\ w.t0 = v.t0 /\ w.t1 = v.t1 /\ w.dt = v.dt
  BY <1>10 DEF View
<1>12. ViewOK(w)
  <2>1. w \in ViewTypes
    BY <1>1, <1>3, <1>9, <1>10 DEF View, ViewTypes
  <2> QED BY <2>1, <1>9, <1>11 DEF ViewOK
<1>13. win.right - win.left = 2 * k /\ 2 * k = n * x
  BY <1>4, <1>5, <1>6, <1>9
<1>14. Even(2 * k)
  BY DEF Even
<1> QED BY <1>9, <1>11, <1>12, <1>13, <1>14 DEF w

-------------------------------------------------------------------------------
\* Finite sets of numbers have a least and a greatest member.

Extreme(S, a, b) == a \in S /\ b \in S /\ \A y \in S : a <= y /\ y <= b

LEMMA ExtremesExist ==
    ASSUME NEW S \in SUBSET Int, IsFiniteSet(S), S # {}
    PROVE  \E a, b \in S : Extreme(S, a, b)
<1> DEFINE Bad(T) == T \in SUBSET Int /\ IsFiniteSet(T) /\ T # {} /\ ~ \E a, b \in T : Extreme(T, a, b)
           B == {n \in Nat : \E T : Bad(T) /\ Cardinality(T) = n}
<1>1. SUFFICES ASSUME Bad(S) PROVE FALSE
  OBVIOUS
<1>2. Cardinality(S) \in B
  BY <1>1, FS_CardinalityType
<1>3. PICK n \in B : \A m \in B : n <= m
  <2>1. B \in SUBSET Nat /\ B # {}
    BY <1>2
  <2> HIDE DEF B
  <2> QED BY <2>1, LeastMember
<1>4. PICK T : Bad(T) /\ Cardinality(T) = n
  BY <1>3
<1>5. PICK x \in T : x \in Int
  BY <1>4
<1> DEFINE R == T \ {x}
<1>6. R \in SUBSET Int /\ IsFiniteSet(R) /\ Cardinality(R) = n - 1 /\ n \in Nat /\ n - 1 \in Nat
  <2>1. IsFiniteSet(R) /\ Cardinality(R) = n - 1
    BY <1>4, <1>5, FS_RemoveElement
  <2>2. Cardinality(R) \in Nat
    BY <2>1, FS_CardinalityType
  <2> QED BY <1>3, <1>4, <2>1, <2>2
<1>7. n - 1 \notin B
  BY <1>3, <1>6
<1>8. T = R \cup {x}
  BY <1>5
<1> HIDE DEF R
<1>9. CASE R = {}
  <2>1. Extreme(T, x, x)
    BY <1>5, <1>8, <1>9 DEF Extreme
  <2> QED BY <1>4, <1>5, <2>1
<1>10. CASE R # {}
  <2>1. PICK a \in R, b \in R : Extreme(R, a, b)
    BY <1>6, <1>7, <1>10
  <2>2. a \in Int /\ b \in Int
    BY <1>6, <2>1
  <2>3. PICK c \in T : c <= a /\ c <= x /\ c \in Int
    BY <1>5, <1>8, <2>1, <2>2
  <2>4. PICK d \in T : b <= d /\ x <= d /\ d \in Int
    BY <1>5, <1>8, <2>1, <2>2
  <2>5. ASSUME NEW y \in T PROVE c <= y /\ y <= d
    <3>1. CASE y = x
      BY <3>1, <2>3, <2>4
    <3>2. CASE y \in R
      <4>1. y \in Int /\ a <= y /\ y <= b
        BY <3>2, <1>6, <2>1 DEF Extreme
      <4> QED BY <4>1, <2>2, <2>3, <2>4
    <3> QED BY <3>1, <3>2, <1>8
  <2>6. Extreme(T, c, d)
    BY <2>3, <2>4, <2>5 DEF Extreme
  <2> QED BY <1>4, <2>3, <2>4, <2>6
<1> QED BY <1>9, <1>10

LEMMA Extremes ==
    ASSUME NEW S \in SUBSET Int, IsFiniteSet(S), S # {}
    PROVE  /\ Min(S) \in S /\ Max(S) \in S
           /\ \A y \in S : Min(S) <= y /\ y <= Max(S)
<1>1. PICK a \in S, b \in S : Extreme(S, a, b)
  BY ExtremesExist
<1>2. Min(S) \in S /\ \A y \in S : Min(S) <= y
  BY <1>1 DEF Min, Extreme
<1>3. Max(S) \in S /\ \A y \in S : Max(S) >= y
  BY <1>1 DEF Max, Extreme
<1> QED BY <1>2, <1>3

\* The default view covers the dates it is made for.
LEMMA DefaultView ==
    ASSUME NEW win \in [left : Int, right : Int], win.left < win.right, NEW nx \in Nat \ {0},
           NEW first \in Int, NEW last \in Int, first <= last
    PROVE  LET v == default_view(win, nx, first, last)
           IN  /\ ViewOK(v) /\ v.win = win /\ v.nx = nx
               /\ \A p \in Int : first <= p /\ p <= last => cube_time(v, p) \in 0..(nt(v) - 1)
<1> DEFINE v == default_view(win, nx, first, last)
<1>1. CASE first = last
  <2>1. v = View(win, nx, Date(first, "tick"), Date(last, "tick"), Duration(1, "day"))
    BY <1>1 DEF default_view
  <2> HIDE DEF v
  <2>2. /\ v.win = win /\ v.nx = nx /\ v.t0 = Date(first, "tick") /\ v.t1 = Date(last, "tick")
        /\ v.dt.unit = "day" /\ v.t0.unit = "tick" /\ v.t0.p = first /\ v.t1.p = last
    BY <2>1 DEF View, Date, Duration
  <2>3. v \in ViewTypes
    <3>1. "tick" \in Units /\ "day" \in Units
      BY DEF Units, Rank
    <3> QED BY <2>1, <3>1 DEF View, Date, Duration, ViewTypes, Dates
  <2>4. ViewOK(v)
    BY <1>1, <2>2, <2>3 DEF ViewOK
  <2>5. ASSUME NEW p \in Int, first <= p, p <= last
        PROVE  cube_time(v, p) \in 0..(nt(v) - 1)
    <3>1. p = v.t0.p /\ p = v.t1.p
      BY <1>1, <2>2, <2>5
    <3>2. v.t0.p <= p
      BY <3>1
    <3>3. /\ cube_time(v, p) = LastCell(v) /\ cube_time(v, p) \in Nat /\ nt(v) = LastCell(v) + 1
          /\ LastCell(v) \in Nat
      BY <2>4, <3>1, <3>2, ViewTime DEF LastCell
    <3> QED BY <3>3
  <2> QED BY <2>2, <2>4, <2>5 DEF v
<1>2. CASE first # last
  <2> DEFINE fits == {u \in {"year", "month", "day", "tick"} : Convert(last - first, u) > 4}
             coarsest == CHOOSE u \in fits : \A w \in fits : Rank[w] <= Rank[u]
             u == IF fits = {} THEN "day" ELSE coarsest
             b == View(win, nx, Date(first, u), Date(last, u), Duration(0, u))
  <2>1. v = set_nt(b, 4)
    BY <1>2 DEF default_view
  <2>2. fits \subseteq {"year", "month", "day", "tick"}
    OBVIOUS
  <2> HIDE DEF v, fits
  <2>3. fits # {} => coarsest \in fits
    <3> SUFFICES ASSUME fits # {} PROVE \E x \in fits : \A w \in fits : Rank[w] <= Rank[x]
      OBVIOUS
    <3>1. CASE "year" \in fits
      BY <2>2, <3>1 DEF Rank
    <3>2. CASE "year" \notin fits /\ "month" \in fits
      BY <2>2, <3>2 DEF Rank
    <3>3. CASE "year" \notin fits /\ "month" \notin fits /\ "day" \in fits
      BY <2>2, <3>3 DEF Rank
    <3>4. CASE "year" \notin fits /\ "month" \notin fits /\ "day" \notin fits
      <4>1. fits = {"tick"}
        BY <2>2, <3>4
      <4> QED BY <4>1 DEF Rank
    <3> QED BY <3>1, <3>2, <3>3, <3>4
  <2>4. u \in Units
    <3>1. u \in {"year", "month", "day", "tick"}
      BY <2>2, <2>3
    <3> HIDE DEF u
    <3> QED BY <3>1 DEF Units, Rank
  <2> HIDE DEF u
  <2>5. /\ b.win = win /\ b.nx = nx /\ b.t0.p = first /\ b.t1.p = last
    BY DEF View, Date
  <2>6. b = View(b.win, b.nx, Date(b.t0.p, u), Date(b.t1.p, u), Duration(0, u))
    BY <2>5
  <2> HIDE DEF b
  <2>7. 4 \in Nat \ {0} /\ 0 \in Nat
    OBVIOUS
  <2>8. ASSUME NEW n \in Nat \ {0}, NEW j \in Nat, NEW x \in Units, NEW c,
               c.win \in [left : Int, right : Int], c.win.left < c.win.right, c.nx \in Nat \ {0},
               c = View(c.win, c.nx, Date(c.t0.p, x), Date(c.t1.p, x), Duration(j, x)),
               c.t0.p \in Int, c.t1.p \in Int, c.t0.p <= c.t1.p
        PROVE  /\ ViewOK(set_nt(c, n)) /\ set_nt(c, n).win = c.win /\ set_nt(c, n).nx = c.nx
               /\ nt(set_nt(c, n)) = n
               /\ \A p \in Int : c.t0.p <= p /\ p <= c.t1.p => cube_time(set_nt(c, n), p) \in 0..(n - 1)
    BY <2>8, SetNt
  <2>9. /\ b.win \in [left : Int, right : Int] /\ b.win.left < b.win.right /\ b.nx \in Nat \ {0}
        /\ b.t0.p \in Int /\ b.t1.p \in Int /\ b.t0.p <= b.t1.p
        /\ b = View(b.win, b.nx, Date(b.t0.p, u), Date(b.t1.p, u), Duration(0, u))
    BY <2>5, <2>6
  <2>10. /\ ViewOK(v) /\ v.win = win /\ v.nx = nx /\ nt(v) = 4
         /\ \A p \in Int : first <= p /\ p <= last => cube_time(v, p) \in 0..(nt(v) - 1)
    BY <2>1, <2>4, <2>5, <2>7, <2>8, <2>9
  <2> QED BY <2>10 DEF v
<1> QED BY <1>1, <1>2

-------------------------------------------------------------------------------
\* AddBands is a fold over the bands: the function that the fold defines by recursion exists, as
\* there is one that has its equation up to every cardinality.

BandEquation(st, id, f, g, s) ==
    IF s = {} THEN st ELSE AddBand(g[s \ {Max(s)}], id, f, BandOrder[Max(s)])

BandFold(st, id, f) ==
    CHOOSE g : g = [s \in SUBSET (DOMAIN BandOrder) |-> BandEquation(st, id, f, g, s)]

LEMMA AddBandsIs ==
    ASSUME NEW d, NEW complete, NEW id, NEW f
    PROVE  AddBands(d, complete, id, f)
              = BandFold([d |-> d, complete |-> complete, stop |-> FALSE], id, f)[DOMAIN BandOrder]
BY DEF AddBands, FoldLeft, MapThenFoldSet, BandFold, BandEquation

LEMMA BandNumbers ==
    /\ IsFiniteSet(DOMAIN BandOrder) /\ DOMAIN BandOrder \in SUBSET Int
    /\ \A k \in DOMAIN BandOrder : BandOrder[k] \in Bands
<1>1. BandOrder \in Seq(Bands)
  BY FilesAssumption
<1>2. Len(BandOrder) \in Nat /\ DOMAIN BandOrder = 1..Len(BandOrder)
  BY <1>1, LenProperties
<1>3. \A k \in 1..Len(BandOrder) : BandOrder[k] \in Bands
  BY <1>1, <1>2, ElementOfSeq
<1>4. IsFiniteSet(1..Len(BandOrder))
  BY <1>2, FS_Interval
<1>5. 1..Len(BandOrder) \in SUBSET Int
  OBVIOUS
<1> QED BY <1>2, <1>3, <1>4, <1>5

LEMMA OneBandLess ==
    ASSUME NEW s \in SUBSET (DOMAIN BandOrder), s # {}
    PROVE  /\ Max(s) \in s /\ s \ {Max(s)} \in SUBSET (DOMAIN BandOrder)
           /\ Cardinality(s) \in Nat \ {0} /\ Cardinality(s \ {Max(s)}) = Cardinality(s) - 1
<1>1. IsFiniteSet(s) /\ s \in SUBSET Int
  BY BandNumbers, FS_Subset
<1>2. Max(s) \in s
  BY <1>1, Extremes
<1>3. Cardinality(s \ {Max(s)}) = Cardinality(s) - 1
  BY <1>1, <1>2, FS_RemoveElement
<1>4. Cardinality(s) \in Nat /\ Cardinality(s) # 0
  BY <1>1, FS_CardinalityType, FS_EmptySet
<1> QED BY <1>2, <1>3, <1>4

BandsUpTo(n, st, id, f, g) ==
    /\ g = [s \in SUBSET (DOMAIN BandOrder) |-> g[s]]
    /\ \A s \in SUBSET (DOMAIN BandOrder) : Cardinality(s) <= n => g[s] = BandEquation(st, id, f, g, s)

LEMMA BandsUpToAny ==
    ASSUME NEW n \in Nat, NEW st, NEW id, NEW f
    PROVE  \E g : BandsUpTo(n, st, id, f, g)
<1> DEFINE B == {k \in Nat : ~ \E g : BandsUpTo(k, st, id, f, g)}
<1>1. SUFFICES ASSUME B # {} PROVE FALSE
  OBVIOUS
<1>2. PICK k \in B : \A l \in B : k <= l
  <2>1. B \in SUBSET Nat
    OBVIOUS
  <2> HIDE DEF B
  <2> QED BY <1>1, <2>1, LeastMember
<1>3. \E g : BandsUpTo(0, st, id, f, g)
  <2> DEFINE g == [s \in SUBSET (DOMAIN BandOrder) |-> st]
  <2>1. ASSUME NEW s \in SUBSET (DOMAIN BandOrder), Cardinality(s) <= 0
        PROVE  g[s] = BandEquation(st, id, f, g, s)
    <3>1. s = {}
      <4>1. s # {} => Cardinality(s) \in Nat \ {0}
        BY OneBandLess
      <4> QED BY <2>1, <4>1
    <3> QED BY <3>1 DEF BandEquation
  <2>2. g = [s \in SUBSET (DOMAIN BandOrder) |-> g[s]]
    OBVIOUS
  <2> HIDE DEF g
  <2>3. BandsUpTo(0, st, id, f, g)
    BY <2>1, <2>2 DEF BandsUpTo
  <2> QED BY <2>3
<1>4. k # 0 /\ k \in Nat
  BY <1>2, <1>3
<1>5. k - 1 \in Nat /\ k - 1 \notin B
  BY <1>2, <1>4
<1>6. PICK g : BandsUpTo(k - 1, st, id, f, g)
  BY <1>5
<1> DEFINE h == [s \in SUBSET (DOMAIN BandOrder) |-> BandEquation(st, id, f, g, s)]
<1>7. ASSUME NEW s \in SUBSET (DOMAIN BandOrder), Cardinality(s) <= k
      PROVE  h[s] = BandEquation(st, id, f, h, s)
  <2>1. CASE s = {}
    BY <2>1 DEF BandEquation
  <2>2. CASE s # {}
    <3> DEFINE r == s \ {Max(s)}
    <3>1. r \in SUBSET (DOMAIN BandOrder) /\ Cardinality(r) <= k - 1
      BY <1>4, <1>7, <2>2, OneBandLess
    <3>2. g[r] = BandEquation(st, id, f, g, r)
      BY <1>6, <3>1 DEF BandsUpTo
    <3>3. h[r] = g[r]
      BY <3>1, <3>2
    <3>4. h[s] = AddBand(g[r], id, f, BandOrder[Max(s)])
      BY <2>2 DEF BandEquation
    <3>5. BandEquation(st, id, f, h, s) = AddBand(h[r], id, f, BandOrder[Max(s)])
      BY <2>2 DEF BandEquation
    <3> QED BY <3>3, <3>4, <3>5
  <2> QED BY <2>1, <2>2
<1>8. BandsUpTo(k, st, id, f, h)
  <2>1. h = [s \in SUBSET (DOMAIN BandOrder) |-> h[s]]
    OBVIOUS
  <2> HIDE DEF h
  <2> QED BY <1>7, <2>1 DEF BandsUpTo
<1> QED BY <1>2, <1>8

LEMMA BandFoldIs ==
    ASSUME NEW st, NEW id, NEW f, NEW s \in SUBSET (DOMAIN BandOrder)
    PROVE  BandFold(st, id, f)[s] = BandEquation(st, id, f, BandFold(st, id, f), s)
<1> DEFINE n == Cardinality(DOMAIN BandOrder)
<1>1. n \in Nat /\ \A r \in SUBSET (DOMAIN BandOrder) : Cardinality(r) <= n
  BY BandNumbers, FS_Subset, FS_CardinalityType
<1>2. PICK g : BandsUpTo(n, st, id, f, g)
  BY <1>1, BandsUpToAny
<1>3. g = [r \in SUBSET (DOMAIN BandOrder) |-> BandEquation(st, id, f, g, r)]
  BY <1>1, <1>2 DEF BandsUpTo
<1>4. BandFold(st, id, f)
        = [r \in SUBSET (DOMAIN BandOrder) |-> BandEquation(st, id, f, BandFold(st, id, f), r)]
  BY <1>3 DEF BandFold
<1> HIDE DEF n
<1>5. PICK h : h = BandFold(st, id, f)
  OBVIOUS
<1> QED BY <1>4, <1>5

-------------------------------------------------------------------------------
\* Catalogues.

Db(images, refs, bands, described, md) ==
    [images |-> images, refs |-> refs, bands |-> bands, described |-> described, md |-> md]

ImagesSound(d) ==
    /\ IsFiniteSet(ImageIds(d)) /\ ImageIds(d) \subseteq Nat \ {0}
    /\ \A i \in ImageIds(d) :
        /\ d.images[i].date \in Int /\ d.images[i].left \in Int /\ d.images[i].right \in Int
        /\ d.images[i].left < d.images[i].right
        /\ Even(d.images[i].left) /\ Even(d.images[i].right)
    /\ \A i, j \in ImageIds(d) : d.images[i].name = d.images[j].name => i = j

RefSound(d, r) ==
    /\ r.image \in ImageIds(d) /\ r.band \in d.bands /\ r.file \in Descriptors
    /\ Info(r.file).image = d.images[r.image].name
    /\ r.band \in Info(r.file).bands
    /\ d.described[r.band] \in Descriptors

RefsSound(d) ==
    /\ IsFiniteSet(d.refs)
    /\ \A r \in d.refs : RefSound(d, r)
    /\ \A r, q \in d.refs : r.image = q.image /\ r.band = q.band => r = q

Sound(d) ==
    /\ d = Db(d.images, d.refs, d.bands, d.described, d.md)
    /\ ImagesSound(d) /\ RefsSound(d)
    /\ d.bands \subseteq Bands
    /\ d.described = [b \in Bands |-> d.described[b]]
    /\ DOMAIN d.md \subseteq ImageIds(d)

LEMMA DbFields ==
    ASSUME NEW im, NEW re, NEW ba, NEW de, NEW md
    PROVE  /\ Db(im, re, ba, de, md).images = im /\ Db(im, re, ba, de, md).refs = re
           /\ Db(im, re, ba, de, md).bands = ba /\ Db(im, re, ba, de, md).described = de
           /\ Db(im, re, ba, de, md).md = md
           /\ ImageIds(Db(im, re, ba, de, md)) = DOMAIN im
BY DEF Db, ImageIds

LEMMA EmptySound == Sound(Empty)
<1>1. Empty = Db(<<>>, {}, Bands, [b \in Bands |-> NoFile], <<>>)
  BY DEF Empty, Db
<1>2. /\ Empty.images = <<>> /\ Empty.refs = {} /\ Empty.bands = Bands
      /\ Empty.described = [b \in Bands |-> NoFile] /\ Empty.md = <<>>
  BY <1>1, DbFields
<1>3. ImageIds(Empty) = {} /\ DOMAIN Empty.md = {}
  <2>1. DOMAIN <<>> = {}
    OBVIOUS
  <2> QED BY <1>2, <2>1 DEF ImageIds
<1>4. Empty.described = [b \in Bands |-> Empty.described[b]]
  BY <1>2
<1> HIDE DEF Empty
<1> QED BY <1>1, <1>2, <1>3, <1>4, FS_EmptySet DEF Sound, ImagesSound, RefsSound

LEMMA NewIdIs ==
    ASSUME NEW d, ImagesSound(d)
    PROVE  NewId(d) \in Nat \ {0} /\ NewId(d) \notin ImageIds(d)
<1>1. CASE ImageIds(d) = {}
  BY <1>1 DEF NewId
<1>2. CASE ImageIds(d) # {}
  <2>1. ImageIds(d) \in SUBSET Int /\ IsFiniteSet(ImageIds(d)) /\ ImageIds(d) \subseteq Nat \ {0}
    BY DEF ImagesSound
  <2>2. Max(ImageIds(d)) \in ImageIds(d) /\ \A i \in ImageIds(d) : i <= Max(ImageIds(d))
    BY <1>2, <2>1, Extremes
  <2>3. NewId(d) = Max(ImageIds(d)) + 1
    BY <1>2 DEF NewId
  <2> QED BY <2>1, <2>2, <2>3
<1> QED BY <1>1, <1>2

\* The first file of an image makes a row, with a date and an extent.
LEMMA ImageOfSound ==
    ASSUME NEW d, Sound(d), NEW f \in Descriptors,
           ~ Refused(f), ~ Undated(d, f), ~ Throws(d, f)
    PROVE  LET img == ImageOf(d, f)
           IN  /\ Sound(img.d) /\ img.id \in ImageIds(img.d)
               /\ img.d.images[img.id].name = Info(f).image
               /\ img.d.bands = d.bands /\ img.d.described = d.described
<1>1. CASE Same(d, f) # {}
  <2> DEFINE i == CHOOSE i \in Same(d, f) : TRUE
  <2>1. i \in Same(d, f)
    BY <1>1
  <2>2. ImageOf(d, f) = [id |-> i, d |-> d]
    BY <1>1 DEF ImageOf
  <2> HIDE DEF i
  <2> QED BY <2>1, <2>2 DEF Same
<1>2. CASE Same(d, f) = {}
  <2> DEFINE n == NewId(d)
             row == [name |-> Info(f).image, date |-> Info(f).date,
                     left |-> Info(f).left, right |-> Info(f).right]
             im == [i \in ImageIds(d) \cup {n} |-> IF i \in ImageIds(d) THEN d.images[i] ELSE row]
             e == Db(im, d.refs, d.bands, d.described, d.md)
  <2>1. n \in Nat \ {0} /\ n \notin ImageIds(d)
    BY NewIdIs DEF Sound
  <2>2. ImageOf(d, f) = [id |-> n, d |-> [d EXCEPT !.images = im]]
    BY <1>2 DEF ImageOf
  <2>3. d = Db(d.images, d.refs, d.bands, d.described, d.md)
    BY DEF Sound
  <2> HIDE DEF n
  <2>4. [d EXCEPT !.images = im] = e
    <3> HIDE DEF im
    <3> QED BY <2>3 DEF Db
  <2>5. /\ row.name = Info(f).image /\ row.date = Info(f).date
        /\ row.left = Info(f).left /\ row.right = Info(f).right
    OBVIOUS
  <2>6. /\ row.date \in Int /\ row.left \in Int /\ row.right \in Int /\ row.left < row.right
        /\ Even(row.left) /\ Even(row.right)
    <3>1. Info(f).image # NoMatch /\ Info(f).extent
      BY DEF Refused
    <3>2. Info(f).date # NoMatch /\ Info(f).date # Unparsable
      BY <1>2 DEF Undated, Throws
    <3> QED BY <2>5, <3>1, <3>2, FilesAssumption DEF Info, Even
  <2> HIDE DEF row
  <2>7. /\ \A i \in ImageIds(d) : im[i] = d.images[i]
        /\ im[n] = row /\ DOMAIN im = ImageIds(d) \cup {n}
    BY <2>1
  <2> HIDE DEF im
  <2>8. /\ e.images = im /\ e.refs = d.refs /\ e.bands = d.bands /\ e.described = d.described /\ e.md = d.md
        /\ ImageIds(e) = ImageIds(d) \cup {n}
    BY <2>7, DbFields
  <2>9. e = Db(e.images, e.refs, e.bands, e.described, e.md)
    BY <2>8
  <2> HIDE DEF e
  <2>10. \A i \in ImageIds(d) : d.images[i].name # row.name
    BY <1>2, <2>5 DEF Same
  <2>11. ImagesSound(e)
    <3>1. IsFiniteSet(ImageIds(e)) /\ ImageIds(e) \subseteq Nat \ {0}
      BY <2>1, <2>8, FS_AddElement DEF Sound, ImagesSound
    <3>2. ASSUME NEW i \in ImageIds(e)
          PROVE  /\ e.images[i].date \in Int /\ e.images[i].left \in Int /\ e.images[i].right \in Int
                 /\ e.images[i].left < e.images[i].right
                 /\ Even(e.images[i].left) /\ Even(e.images[i].right)
      <4>1. CASE i = n
        BY <4>1, <2>6, <2>7, <2>8
      <4>2. CASE i \in ImageIds(d)
        BY <4>2, <2>7, <2>8 DEF Sound, ImagesSound
      <4> QED BY <4>1, <4>2, <2>8
    <3>3. ASSUME NEW i \in ImageIds(e), NEW j \in ImageIds(e), e.images[i].name = e.images[j].name
          PROVE  i = j
      BY <3>3, <2>7, <2>8, <2>10 DEF Sound, ImagesSound
    <3> QED BY <3>1, <3>2, <3>3 DEF ImagesSound
  <2>12. RefsSound(e)
    <3>1. \A r \in e.refs : RefSound(e, r)
      BY <2>7, <2>8 DEF Sound, RefsSound, RefSound
    <3> QED BY <2>8, <3>1 DEF Sound, RefsSound
  <2>13. Sound(e)
    BY <2>8, <2>9, <2>11, <2>12 DEF Sound
  <2> QED BY <2>2, <2>4, <2>5, <2>7, <2>8, <2>13
<1> QED BY <1>1, <1>2

-------------------------------------------------------------------------------
\* Adding the bands of a file to its image.

\* The bands that a call has completed are described.
Described(d, complete) == \A b \in complete : b \in d.bands => d.described[b] \in Descriptors

BandsGo(st, id, f) ==
    /\ st = [d |-> st.d, complete |-> st.complete, stop |-> st.stop]
    /\ Sound(st.d) /\ id \in ImageIds(st.d) /\ st.d.images[id].name = Info(f).image
    /\ Described(st.d, st.complete)

LEMMA AddBandSound ==
    ASSUME NEW st, NEW id, NEW f \in Descriptors, NEW b \in Bands, BandsGo(st, id, f)
    PROVE  BandsGo(AddBand(st, id, f, b), id, f)
<1>1. CASE st.stop \/ b \notin Info(f).bands
  BY <1>1 DEF AddBand
<1>2. CASE ~ (st.stop \/ b \notin Info(f).bands)
  <2> DEFINE d == st.d
             des == IF b \in st.complete \/ b \notin d.bands THEN d.described
                    ELSE [d.described EXCEPT ![b] = f]
             e == Db(d.images, d.refs, d.bands, des, d.md)
             c == st.complete \cup {b}
             new == [image |-> id, band |-> b, file |-> f]
             g == Db(d.images, d.refs \cup {new}, d.bands, des, d.md)
  <2>1. Sound(d) /\ id \in ImageIds(d) /\ d.images[id].name = Info(f).image /\ Described(d, st.complete)
    BY DEF BandsGo
  <2>2. [d EXCEPT !.described = IF b \in st.complete \/ b \notin d.bands THEN @ ELSE [@ EXCEPT ![b] = f]] = e
    <3>1. d = Db(d.images, d.refs, d.bands, d.described, d.md)
      BY <2>1 DEF Sound
    <3> HIDE DEF d
    <3> QED BY <3>1 DEF Db
  <2>3. AddBand(st, id, f, b)
          = IF Conflict(e, id, b) THEN [d |-> e, complete |-> c, stop |-> TRUE]
            ELSE [d |-> [e EXCEPT !.refs = @ \cup {new}], complete |-> c, stop |-> FALSE]
    BY <1>2, <2>2 DEF AddBand
  <2>4. [e EXCEPT !.refs = @ \cup {new}] = g
    BY DEF Db
  <2> HIDE DEF d
  <2>5. /\ e.images = d.images /\ e.refs = d.refs /\ e.bands = d.bands /\ e.described = des /\ e.md = d.md
        /\ ImageIds(e) = ImageIds(d)
        /\ g.images = d.images /\ g.refs = d.refs \cup {new} /\ g.bands = d.bands /\ g.described = des
        /\ g.md = d.md /\ ImageIds(g) = ImageIds(d)
    BY DbFields DEF ImageIds
  <2>6. e = Db(e.images, e.refs, e.bands, e.described, e.md) /\ g = Db(g.images, g.refs, g.bands, g.described, g.md)
    BY <2>5
  <2>7. /\ des = [k \in Bands |-> des[k]]
        /\ \A k \in d.bands : d.described[k] \in Descriptors => des[k] \in Descriptors
        /\ b \in d.bands => des[b] \in Descriptors
    <3>1. d.bands \subseteq Bands /\ d.described = [k \in Bands |-> d.described[k]]
      BY <2>1 DEF Sound
    <3>2. CASE b \in st.complete \/ b \notin d.bands
      BY <3>1, <3>2, <2>1 DEF Described
    <3>3. CASE ~ (b \in st.complete \/ b \notin d.bands)
      <4>1. des = [d.described EXCEPT ![b] = f]
        BY <3>3
      <4>2. DOMAIN des = Bands /\ des[b] = f /\ \A k \in Bands : k # b => des[k] = d.described[k]
        BY <3>1, <4>1
      <4>3. des = [k \in Bands |-> des[k]]
        BY <3>1, <4>1
      <4> HIDE DEF des
      <4> QED BY <3>1, <4>2, <4>3
    <3> QED BY <3>2, <3>3
  <2> HIDE DEF e, g, des
  <2>8. ImagesSound(e) /\ ImagesSound(g)
    BY <2>1, <2>5 DEF Sound, ImagesSound
  <2>9. RefsSound(e)
    <3>1. \A r \in e.refs : RefSound(e, r)
      BY <2>1, <2>5, <2>7 DEF Sound, RefsSound, RefSound
    <3> QED BY <2>1, <2>5, <3>1 DEF Sound, RefsSound
  <2>10. Sound(e)
    BY <2>1, <2>5, <2>6, <2>7, <2>8, <2>9 DEF Sound
  <2>11. Described(e, c) /\ Described(g, c)
    BY <2>1, <2>5, <2>7 DEF Described
  <2>12. CASE Conflict(e, id, b)
    BY <2>1, <2>3, <2>5, <2>10, <2>11, <2>12 DEF BandsGo
  <2>13. CASE ~ Conflict(e, id, b)
    <3>1. b \in d.bands /\ \A r \in d.refs : ~ (r.image = id /\ r.band = b)
      BY <2>5, <2>13 DEF Conflict
    <3>2. new.image = id /\ new.band = b /\ new.file = f
      OBVIOUS
    <3> HIDE DEF new
    <3>3. RefSound(g, new)
      BY <1>2, <2>1, <2>5, <2>7, <3>1, <3>2 DEF RefSound
    <3>4. \A r \in d.refs : RefSound(g, r)
      BY <2>1, <2>5, <2>7 DEF Sound, RefsSound, RefSound
    <3>5. IsFiniteSet(g.refs)
      BY <2>1, <2>5, FS_AddElement DEF Sound, RefsSound
    <3>6. \A r, q \in g.refs : r.image = q.image /\ r.band = q.band => r = q
      BY <2>1, <2>5, <3>1, <3>2 DEF Sound, RefsSound
    <3>7. RefsSound(g)
      BY <2>5, <3>3, <3>4, <3>5, <3>6 DEF RefsSound
    <3>8. Sound(g)
      BY <2>1, <2>5, <2>6, <2>7, <2>8, <3>7 DEF Sound
    <3>9. AddBand(st, id, f, b) = [d |-> g, complete |-> c, stop |-> FALSE]
      BY <2>3, <2>4, <2>13
    <3>10. id \in ImageIds(g) /\ g.images[id].name = Info(f).image
      BY <2>1, <2>5
    <3> QED BY <2>11, <3>8, <3>9, <3>10 DEF BandsGo
  <2> QED BY <2>12, <2>13
<1> QED BY <1>1, <1>2

LEMMA AddBandsSound ==
    ASSUME NEW d, NEW complete, NEW id, NEW f \in Descriptors,
           Sound(d), id \in ImageIds(d), d.images[id].name = Info(f).image, Described(d, complete)
    PROVE  BandsGo(AddBands(d, complete, id, f), id, f)
<1> DEFINE st == [d |-> d, complete |-> complete, stop |-> FALSE]
           g == BandFold(st, id, f)
           Bad(s) == s \in SUBSET (DOMAIN BandOrder) /\ ~ BandsGo(g[s], id, f)
           B == {n \in Nat : \E s : Bad(s) /\ Cardinality(s) = n}
<1>1. AddBands(d, complete, id, f) = g[DOMAIN BandOrder]
  BY AddBandsIs
<1>2. BandsGo(st, id, f)
  BY DEF BandsGo
<1> HIDE DEF st
<1>3. \A s \in SUBSET (DOMAIN BandOrder) : g[s] = BandEquation(st, id, f, g, s)
  BY BandFoldIs
<1> HIDE DEF g
<1>4. \A s \in SUBSET (DOMAIN BandOrder) : Cardinality(s) \in Nat
  BY BandNumbers, FS_Subset, FS_CardinalityType
<1>5. SUFFICES ASSUME NEW t, Bad(t) PROVE FALSE
  BY <1>1
<1>6. Cardinality(t) \in B
  BY <1>4, <1>5
<1>7. PICK n \in B : \A m \in B : n <= m
  <2>1. B \in SUBSET Nat /\ B # {}
    BY <1>6
  <2> HIDE DEF B
  <2> QED BY <2>1, LeastMember
<1>8. PICK s : Bad(s) /\ Cardinality(s) = n
  BY <1>7
<1>9. s # {}
  BY <1>2, <1>3, <1>8 DEF BandEquation
<1>10. /\ Max(s) \in DOMAIN BandOrder /\ s \ {Max(s)} \in SUBSET (DOMAIN BandOrder)
       /\ Cardinality(s \ {Max(s)}) = n - 1 /\ n - 1 \in Nat
  BY <1>8, <1>9, OneBandLess
<1>11. n - 1 \notin B
  BY <1>7, <1>10
<1>12. BandsGo(g[s \ {Max(s)}], id, f)
  BY <1>10, <1>11
<1>13. g[s] = AddBand(g[s \ {Max(s)}], id, f, BandOrder[Max(s)])
  BY <1>3, <1>8, <1>9 DEF BandEquation
<1>14. BandsGo(g[s], id, f)
  BY <1>10, <1>12, <1>13, AddBandSound, BandNumbers
<1> QED BY <1>8, <1>14

LEMMA AddMetadataSound ==
    ASSUME NEW d, Sound(d), NEW id \in ImageIds(d), NEW f
    PROVE  LET e == AddMetadata(d, id, f)
           IN  Sound(e) /\ e.bands = d.bands /\ e.described = d.described
<1>1. CASE ~ Info(f).md \/ id \in DOMAIN d.md
  BY <1>1 DEF AddMetadata
<1>2. CASE ~ (~ Info(f).md \/ id \in DOMAIN d.md)
  <2> DEFINE md == [i \in DOMAIN d.md \cup {id} |-> IF i = id THEN f ELSE d.md[i]]
             e == Db(d.images, d.refs, d.bands, d.described, md)
  <2>1. AddMetadata(d, id, f) = e
    <3>1. d = Db(d.images, d.refs, d.bands, d.described, d.md)
      BY DEF Sound
    <3>2. AddMetadata(d, id, f) = [d EXCEPT !.md = md]
      BY <1>2 DEF AddMetadata
    <3> HIDE DEF md
    <3> QED BY <3>1, <3>2 DEF Db
  <2>2. DOMAIN md \subseteq ImageIds(d)
    BY DEF Sound
  <2> HIDE DEF md
  <2>3. /\ e.images = d.images /\ e.refs = d.refs /\ e.bands = d.bands /\ e.described = d.described
        /\ e.md = md /\ ImageIds(e) = ImageIds(d)
    BY DbFields DEF ImageIds
  <2>4. e = Db(e.images, e.refs, e.bands, e.described, e.md)
    BY <2>3
  <2> HIDE DEF e
  <2>5. ImagesSound(e) /\ RefsSound(e)
    BY <2>3 DEF Sound, ImagesSound, RefsSound, RefSound
  <2>6. Sound(e)
    BY <2>2, <2>3, <2>4, <2>5 DEF Sound
  <2> QED BY <2>1, <2>3, <2>6
<1> QED BY <1>1, <1>2

\* Filters leave a sound catalogue.
LEMMA WithImagesIs ==
    ASSUME NEW d, Sound(d), NEW keep \in SUBSET ImageIds(d)
    PROVE  LET e == WithImages(d, keep)
           IN  /\ e.images = [i \in keep |-> d.images[i]] /\ ImageIds(e) = keep
               /\ e.refs = {r \in d.refs : r.image \in keep}
               /\ e.bands = d.bands /\ e.described = d.described
               /\ Sound(e)
<1> DEFINE im == [i \in keep |-> d.images[i]]
           re == {r \in d.refs : r.image \in keep}
           md == [i \in DOMAIN d.md \cap keep |-> d.md[i]]
           e == Db(im, re, d.bands, d.described, md)
<1>1. WithImages(d, keep) = e
  <2>1. d = Db(d.images, d.refs, d.bands, d.described, d.md)
    BY DEF Sound
  <2>2. WithImages(d, keep) = [d EXCEPT !.images = im, !.refs = re, !.md = md]
    BY <2>1 DEF WithImages, Db
  <2> HIDE DEF im, re, md
  <2> QED BY <2>1, <2>2 DEF Db
<1>2. DOMAIN im = keep /\ DOMAIN md \subseteq keep /\ \A i \in keep : im[i] = d.images[i]
  OBVIOUS
<1>3. /\ e.images = im /\ e.refs = re /\ e.bands = d.bands /\ e.described = d.described
      /\ e.md = md /\ ImageIds(e) = keep
  BY <1>2, DbFields
<1>4. e = Db(e.images, e.refs, e.bands, e.described, e.md)
  BY <1>3
<1> HIDE DEF e
<1>5. ImagesSound(e)
  <2>1. IsFiniteSet(keep)
    BY FS_Subset DEF Sound, ImagesSound
  <2> HIDE DEF im
  <2> QED BY <1>2, <1>3, <2>1 DEF Sound, ImagesSound
<1>6. RefsSound(e)
  <2>1. IsFiniteSet(re)
    BY FS_Subset DEF Sound, RefsSound
  <2>2. \A r \in re : r \in d.refs /\ r.image \in keep
    OBVIOUS
  <2> HIDE DEF im, re
  <2>3. \A r \in re : RefSound(e, r)
    BY <1>2, <1>3, <2>2 DEF Sound, RefsSound, RefSound
  <2> QED BY <1>3, <2>1, <2>2, <2>3 DEF Sound, RefsSound
<1> HIDE DEF im, re, md
<1>7. Sound(e)
  BY <1>2, <1>3, <1>4, <1>5, <1>6 DEF Sound
<1> QED BY <1>1, <1>3, <1>7 DEF im, re

LEMMA WithBandsIs ==
    ASSUME NEW d, Sound(d), NEW keep \in SUBSET d.bands
    PROVE  LET e == WithBands(d, keep)
           IN  /\ e.images = d.images /\ ImageIds(e) = ImageIds(d)
               /\ e.refs = {r \in d.refs : r.band \in keep}
               /\ e.bands = keep
               /\ Sound(e)
<1> DEFINE re == {r \in d.refs : r.band \in keep}
           de == [b \in Bands |-> IF b \in keep THEN d.described[b] ELSE NoFile]
           e == Db(d.images, re, keep, de, d.md)
<1>1. WithBands(d, keep) = e
  <2>1. d = Db(d.images, d.refs, d.bands, d.described, d.md)
    BY DEF Sound
  <2>2. WithBands(d, keep) = [d EXCEPT !.bands = keep, !.refs = re, !.described = de]
    BY <2>1 DEF WithBands, Db
  <2> HIDE DEF re, de
  <2> QED BY <2>1, <2>2 DEF Db
<1>2. keep \subseteq Bands
  BY DEF Sound
<1>3. /\ de = [b \in Bands |-> de[b]]
      /\ \A b \in keep : de[b] = d.described[b]
  BY <1>2
<1>4. /\ e.images = d.images /\ e.refs = re /\ e.bands = keep /\ e.described = de
      /\ e.md = d.md /\ ImageIds(e) = ImageIds(d)
  BY DbFields DEF ImageIds
<1>5. e = Db(e.images, e.refs, e.bands, e.described, e.md)
  BY <1>4
<1> HIDE DEF e, de
<1>6. ImagesSound(e)
  BY <1>4 DEF Sound, ImagesSound
<1>7. RefsSound(e)
  <2>1. IsFiniteSet(re)
    BY FS_Subset DEF Sound, RefsSound
  <2>2. \A r \in re : r \in d.refs /\ r.band \in keep
    OBVIOUS
  <2> HIDE DEF re
  <2>3. \A r \in re : RefSound(e, r)
    BY <1>3, <1>4, <2>2 DEF Sound, RefsSound, RefSound
  <2> QED BY <1>4, <2>1, <2>2, <2>3 DEF Sound, RefsSound
<1> HIDE DEF re
<1>8. Sound(e)
  BY <1>2, <1>3, <1>4, <1>5, <1>6, <1>7 DEF Sound
<1> QED BY <1>1, <1>4, <1>8 DEF re

LEMMA FiltersSound ==
    ASSUME NEW d, Sound(d)
    PROVE  /\ \A names : Sound(filter_bands(d, names))
           /\ \A start, end : Sound(filter_datetime_range(d, start, end))
           /\ \A left, right : Sound(filter_spatial_range(d, left, right))
<1>1. ASSUME NEW names PROVE Sound(filter_bands(d, names))
  <2>1. d.bands \cap names \in SUBSET d.bands
    OBVIOUS
  <2> QED BY <2>1, WithBandsIs DEF filter_bands
<1>2. ASSUME NEW keep \in SUBSET ImageIds(d) PROVE Sound(WithImages(d, keep))
  BY WithImagesIs
<1> QED BY <1>1, <1>2 DEF filter_datetime_range, filter_spatial_range

-------------------------------------------------------------------------------
\* The subdatasets of files are files.

FlatEquation(seqs, g, i) == IF i = 1 THEN seqs[i] ELSE g[i - 1] \o seqs[i]

FlatUpTo(n, seqs, g) ==
    /\ g = [i \in 1..Len(seqs) |-> g[i]]
    /\ \A i \in 1..Len(seqs) : i <= n => g[i] = FlatEquation(seqs, g, i)

LEMMA FlatUpToAny ==
    ASSUME NEW seqs, NEW n \in Nat
    PROVE  \E g : FlatUpTo(n, seqs, g)
<1> DEFINE B == {k \in Nat : ~ \E g : FlatUpTo(k, seqs, g)}
<1>1. SUFFICES ASSUME B # {} PROVE FALSE
  OBVIOUS
<1>2. PICK k \in B : \A l \in B : k <= l
  <2>1. B \in SUBSET Nat
    OBVIOUS
  <2> HIDE DEF B
  <2> QED BY <1>1, <2>1, LeastMember
<1>3. \E g : FlatUpTo(0, seqs, g)
  <2> DEFINE g == [i \in 1..Len(seqs) |-> seqs[i]]
  <2>1. FlatUpTo(0, seqs, g)
    BY DEF FlatUpTo
  <2> QED BY <2>1
<1>4. k # 0 /\ k \in Nat
  BY <1>2, <1>3
<1>5. k - 1 \in Nat /\ k - 1 \notin B
  BY <1>2, <1>4
<1>6. PICK g : FlatUpTo(k - 1, seqs, g)
  BY <1>5
<1> DEFINE h == [i \in 1..Len(seqs) |-> FlatEquation(seqs, g, i)]
<1>7. ASSUME NEW i \in 1..Len(seqs), i <= k PROVE h[i] = FlatEquation(seqs, h, i)
  <2>1. CASE i = 1
    BY <2>1 DEF FlatEquation
  <2>2. CASE i # 1
    <3>1. i - 1 \in 1..Len(seqs) /\ i - 1 <= k - 1
      BY <1>4, <1>7, <2>2
    <3>2. g[i - 1] = FlatEquation(seqs, g, i - 1)
      BY <1>6, <3>1 DEF FlatUpTo
    <3>3. h[i - 1] = g[i - 1]
      BY <3>1, <3>2
    <3> QED BY <2>2, <3>3 DEF FlatEquation
  <2> QED BY <2>1, <2>2
<1>8. FlatUpTo(k, seqs, h)
  <2>1. h = [i \in 1..Len(seqs) |-> h[i]]
    OBVIOUS
  <2> HIDE DEF h
  <2> QED BY <1>7, <2>1 DEF FlatUpTo
<1> QED BY <1>2, <1>8

LEMMA FlattenType ==
    ASSUME NEW S, NEW seqs \in Seq(Seq(S))
    PROVE  FlattenSeq(seqs) \in Seq(S)
<1>1. Len(seqs) \in Nat /\ \A i \in 1..Len(seqs) : seqs[i] \in Seq(S)
  BY LenProperties, ElementOfSeq
<1>2. CASE Len(seqs) = 0
  <2>1. seqs = <<>>
    BY <1>2, EmptySeq
  <2> QED BY <1>2, <2>1 DEF FlattenSeq
<1>3. CASE Len(seqs) # 0
  <2> DEFINE g == CHOOSE g : g = [i \in 1..Len(seqs) |-> FlatEquation(seqs, g, i)]
  <2>1. FlattenSeq(seqs) = g[Len(seqs)]
    BY <1>3 DEF FlattenSeq, FlatEquation
  <2>2. g = [i \in 1..Len(seqs) |-> FlatEquation(seqs, g, i)]
    <3>1. PICK h : FlatUpTo(Len(seqs), seqs, h)
      BY <1>1, FlatUpToAny
    <3>2. h = [i \in 1..Len(seqs) |-> FlatEquation(seqs, h, i)]
      BY <1>1, <3>1 DEF FlatUpTo
    <3> QED BY <3>2
  <2> HIDE DEF g
  <2> DEFINE B == {n \in 1..Len(seqs) : g[n] \notin Seq(S)}
  <2>3. SUFFICES ASSUME B # {} PROVE FALSE
    BY <1>1, <1>3, <2>1
  <2>4. PICK k \in B : \A l \in B : k <= l
    <3>1. B \in SUBSET Nat
      OBVIOUS
    <3> HIDE DEF B
    <3> QED BY <2>3, <3>1, LeastMember
  <2>5. g[k] = FlatEquation(seqs, g, k)
    BY <2>2, <2>4
  <2>6. CASE k = 1
    BY <1>1, <2>4, <2>5, <2>6 DEF FlatEquation
  <2>7. CASE k # 1
    <3>1. k - 1 \in 1..Len(seqs) /\ k - 1 \notin B
      BY <1>1, <2>4, <2>7
    <3>2. g[k - 1] \in Seq(S) /\ seqs[k] \in Seq(S)
      BY <1>1, <2>4, <3>1
    <3>3. g[k] = g[k - 1] \o seqs[k]
      BY <2>5, <2>7 DEF FlatEquation
    <3>4. g[k] \in Seq(S)
      BY <3>2, <3>3, ConcatProperties
    <3> QED BY <2>4, <3>4
  <2> QED BY <2>6, <2>7
<1> QED BY <1>2, <1>3

LEMMA ExpandedType ==
    ASSUME NEW list \in Seq(Descriptors)
    PROVE  Expanded(list) \in Seq(Descriptors)
<1> DEFINE subs == [k \in DOMAIN list |-> IF Info(list[k]).opens THEN Info(list[k]).subs ELSE <<>>]
<1>1. Len(list) \in Nat /\ DOMAIN list = 1..Len(list) /\ \A k \in 1..Len(list) : list[k] \in Descriptors
  BY LenProperties, ElementOfSeq
<1>2. \A k \in 1..Len(list) : Info(list[k]).subs \in Seq(Descriptors)
  BY <1>1, FilesAssumption DEF Info
<1>3. <<>> \in Seq(Descriptors)
  OBVIOUS
<1>4. subs \in [1..Len(list) -> Seq(Descriptors)]
  BY <1>1, <1>2, <1>3
<1>5. subs \in Seq(Seq(Descriptors))
  <2> HIDE DEF subs
  <2> QED BY <1>1, <1>4, SeqDef
<1>6. FlattenSeq(subs) \in Seq(Descriptors)
  <2> HIDE DEF subs
  <2> QED BY <1>5, FlattenType
<1> QED BY <1>6 DEF Expanded

-------------------------------------------------------------------------------
\* The extent of a collection has all its images.

LEMMA FiniteImage ==
    ASSUME NEW f, IsFiniteSet(DOMAIN f)
    PROVE  IsFiniteSet({f[i] : i \in DOMAIN f})
<1> DEFINE g == [i \in DOMAIN f |-> f[i]]
<1>1. g \in Surjection(DOMAIN f, {f[i] : i \in DOMAIN f})
  BY DEF Surjection
<1> QED BY <1>1, FS_Surjection

LEMMA ExtentIs ==
    ASSUME NEW d, Sound(d), ImageIds(d) # {}
    PROVE  LET e == extent(d)
           IN  /\ e.left \in Int /\ e.right \in Int /\ e.left < e.right /\ Even(e.left) /\ Even(e.right)
               /\ e.first \in Int /\ e.last \in Int /\ e.first <= e.last
               /\ \A i \in ImageIds(d) : e.first <= d.images[i].date /\ d.images[i].date <= e.last
<1> DEFINE lefts == [i \in ImageIds(d) |-> d.images[i].left]
           rights == [i \in ImageIds(d) |-> d.images[i].right]
           dates == [i \in ImageIds(d) |-> d.images[i].date]
           L == {d.images[i].left : i \in ImageIds(d)}
           R == {d.images[i].right : i \in ImageIds(d)}
           D == {d.images[i].date : i \in ImageIds(d)}
<1>1. /\ IsFiniteSet(ImageIds(d))
      /\ \A i \in ImageIds(d) :
            /\ d.images[i].date \in Int /\ d.images[i].left \in Int /\ d.images[i].right \in Int
            /\ d.images[i].left < d.images[i].right
            /\ Even(d.images[i].left) /\ Even(d.images[i].right)
  BY DEF Sound, ImagesSound
<1>2. L = {lefts[i] : i \in DOMAIN lefts} /\ R = {rights[i] : i \in DOMAIN rights}
      /\ D = {dates[i] : i \in DOMAIN dates}
  OBVIOUS
<1>3. DOMAIN lefts = ImageIds(d) /\ DOMAIN rights = ImageIds(d) /\ DOMAIN dates = ImageIds(d)
  OBVIOUS
<1>4. IsFiniteSet(L) /\ IsFiniteSet(R) /\ IsFiniteSet(D)
  <2> HIDE DEF lefts, rights, dates, L, R, D
  <2> QED BY <1>1, <1>2, <1>3, FiniteImage
<1>5. L \in SUBSET Int /\ R \in SUBSET Int /\ D \in SUBSET Int /\ L # {} /\ R # {} /\ D # {}
  BY <1>1
<1>6. \A i \in ImageIds(d) : d.images[i].left \in L /\ d.images[i].right \in R /\ d.images[i].date \in D
  OBVIOUS
<1>7. (\A x \in L : Even(x)) /\ (\A x \in R : Even(x))
  BY <1>1
<1>8. extent(d) = [left |-> Min(L), right |-> Max(R), first |-> Min(D), last |-> Max(D)]
  BY DEF extent
<1> HIDE DEF L, R, D
<1>9. /\ Min(L) \in L /\ Max(R) \in R /\ Min(D) \in D /\ Max(D) \in D
      /\ (\A x \in L : Min(L) <= x) /\ (\A x \in R : x <= Max(R))
      /\ (\A x \in D : Min(D) <= x /\ x <= Max(D))
  BY <1>4, <1>5, Extremes
<1>10. PICK i \in ImageIds(d) : TRUE
  OBVIOUS
<1>11. /\ Min(L) \in Int /\ Max(R) \in Int /\ Min(D) \in Int /\ Max(D) \in Int
       /\ Min(D) <= Max(D)
  BY <1>5, <1>9
<1>12. Min(L) < Max(R)
  <2>1. Min(L) <= d.images[i].left /\ d.images[i].right <= Max(R)
    BY <1>6, <1>9
  <2> QED BY <1>1, <1>11, <2>1
<1> QED BY <1>6, <1>7, <1>8, <1>9, <1>11, <1>12

\* Two even numbers are an even distance apart.
LEMMA EvenDistance ==
    ASSUME NEW a \in Int, NEW b \in Int, Even(a), Even(b)
    PROVE  Even(b - a)
<1>1. PICK m \in Int : a = 2 * m
  BY DEF Even
<1>2. PICK n \in Int : b = 2 * n
  BY DEF Even
<1>3. b - a = 2 * (n - m)
  BY <1>1, <1>2
<1> QED BY <1>3 DEF Even

-------------------------------------------------------------------------------
\* The inductive invariant.

SavedSound ==
    /\ saved = [n \in FileNames |-> saved[n]]
    /\ \A n \in FileNames : saved[n] = NoFile \/ Sound(saved[n])

HandleSound ==
    /\ handle \in FileNames \cup {Memory} /\ filename \in FileNames \cup {Temporary}
    /\ handle \in FileNames => saved[handle] = db
    /\ ~ unwritten /\ filename # Temporary => handle = filename

AddingSound ==
    /\ adding.todo \in Seq(Descriptors)
    /\ Described(db, adding.complete)

CollectionInv == Sound(db) /\ SavedSound /\ HandleSound /\ AddingSound

ViewSound == view = NoView \/ (ViewOK(view) /\ Even(view.win.right - view.win.left))

\* A cube has a good view, and is chunked by the numbers of its cells.
CubeSound ==
    cubec # NoCube =>
        /\ cubec = [view |-> cubec.view, bands |-> cubec.bands, agg |-> cubec.agg, mask |-> cubec.mask,
                    maskvalues |-> cubec.maskvalues, invert |-> cubec.invert, range |-> cubec.range,
                    st |-> cubec.st, sx |-> cubec.sx, chunks |-> cubec.chunks]
        /\ ViewOK(cubec.view)
        /\ cubec.st \in Nat \ {0} /\ cubec.sx \in Nat \ {0} /\ cubec.agg \in Aggregations
        /\ cubec.chunks = Chunking(cubec.view, ShapeN(cubec.view), ShapeS(cubec))

\* The chunk is what the catalogue and the cube still give.
ChunkSound ==
    /\ cubec = NoCube => chunk = NoChunk
    /\ chunk # NoChunk => adding = NotAdding
    /\ \/ chunk \in {NoChunk, Thrown}
       \/ chunk.id \in DOMAIN cubec.chunks.ext /\ chunk.out = read_chunk(db, cubec, chunk.id)

CubeInv == CollectionInv /\ ViewSound /\ CubeSound /\ ChunkSound

LEMMA NothingAdded ==
    /\ NotAdding.todo \in Seq(Descriptors)
    /\ \A d : Described(d, NotAdding.complete)
BY DEF NotAdding, Described

\* A statement that leaves the catalogue sound.
LEMMA CommitKeeps ==
    ASSUME CollectionInv, NEW d, Sound(d), Commit(d), UNCHANGED <<filename, handle, unwritten>>
    PROVE  db' = d /\ Sound(db)' /\ SavedSound' /\ HandleSound'
<1>1. db' = d
  BY DEF Commit
<1>2. CASE handle = Memory
  <2>1. saved' = saved /\ handle' = handle /\ handle' \notin FileNames
    BY <1>2, FilesAssumption DEF Commit
  <2> QED BY <1>1, <2>1 DEF CollectionInv, SavedSound, HandleSound
<1>3. CASE handle # Memory
  <2>1. handle \in FileNames /\ saved' = [saved EXCEPT ![handle] = d] /\ handle' = handle
    BY <1>3 DEF Commit, CollectionInv, HandleSound
  <2>2. saved'[handle] = d /\ \A n \in FileNames : n # handle => saved'[n] = saved[n]
    BY <2>1 DEF CollectionInv, SavedSound
  <2>3. saved' = [n \in FileNames |-> saved'[n]]
    BY <2>1 DEF CollectionInv, SavedSound
  <2>4. SavedSound'
    BY <2>1, <2>2, <2>3 DEF CollectionInv, SavedSound
  <2>5. HandleSound'
    BY <1>1, <2>1, <2>2 DEF CollectionInv, HandleSound
  <2> QED BY <1>1, <2>4, <2>5
<1> QED BY <1>2, <1>3

LEMMA StartAddKeeps ==
    ASSUME CollectionInv, NEW list \in Seq(Descriptors), NEW strict, StartAdd(list, strict)
    PROVE  CollectionInv'
<1>1. UNCHANGED <<db, filename, handle, unwritten, saved>>
  BY DEF StartAdd
<1>2. AddingSound'
  <2>1. Expanded(list) \in Seq(Descriptors)
    BY ExpandedType
  <2>2. CASE ExpansionThrows(list, strict)
    BY <2>2, NothingAdded DEF StartAdd, AddingSound
  <2>3. CASE ~ ExpansionThrows(list, strict)
    <3>1. adding' = [todo |-> Expanded(list), strict |-> strict, complete |-> {}]
      BY <2>3 DEF StartAdd
    <3>2. adding'.todo = Expanded(list) /\ adding'.complete = {}
      BY <3>1
    <3> QED BY <2>1, <3>2 DEF AddingSound, Described
  <2> QED BY <2>2, <2>3
<1> QED BY <1>1, <1>2 DEF CollectionInv, SavedSound, HandleSound

LEMMA AddNextKeeps ==
    ASSUME CollectionInv, AddNext
    PROVE  CollectionInv'
<1> DEFINE f == Head(adding.todo)
           rest == Tail(adding.todo)
           go(c) == IF rest = <<>> THEN NotAdding
                    ELSE [todo |-> rest, strict |-> adding.strict, complete |-> c]
           refused == Refused(f) \/ Undated(db, f)
           img == ImageOf(db, f)
           st == AddBands(img.d, adding.complete, img.id, f)
<1>1. f \in Descriptors /\ rest \in Seq(Descriptors)
  BY HeadTailProperties DEF AddNext, CollectionInv, AddingSound
<1>2. \A c, d : Described(d, c) => go(c).todo \in Seq(Descriptors) /\ Described(d, go(c).complete)
  BY <1>1, NothingAdded
<1>3. UNCHANGED <<filename, handle, unwritten>>
  BY DEF AddNext
<1>4. \/ adding' \in {NotAdding, go(adding.complete)} /\ UNCHANGED <<db, saved>>
      \/ /\ ~ refused /\ ~ Throws(db, f)
         /\ \/ adding' = NotAdding /\ Commit(st.d)
            \/ adding' = go(st.complete) /\ Commit(AddMetadata(st.d, img.id, f))
  BY DEF AddNext
<1> HIDE DEF go
<1>5. CASE adding' \in {NotAdding, go(adding.complete)} /\ UNCHANGED <<db, saved>>
  <2>1. AddingSound'
    BY <1>2, <1>5, NothingAdded DEF CollectionInv, AddingSound
  <2> QED BY <1>3, <1>5, <2>1 DEF CollectionInv, SavedSound, HandleSound
<1>6. CASE /\ ~ refused /\ ~ Throws(db, f)
           /\ \/ adding' = NotAdding /\ Commit(st.d)
              \/ adding' = go(st.complete) /\ Commit(AddMetadata(st.d, img.id, f))
  <2>1. /\ Sound(img.d) /\ img.id \in ImageIds(img.d) /\ img.d.images[img.id].name = Info(f).image
        /\ img.d.bands = db.bands /\ img.d.described = db.described
    BY <1>1, <1>6, ImageOfSound DEF CollectionInv
  <2> HIDE DEF f, img
  <2>2. Described(img.d, adding.complete)
    BY <2>1 DEF CollectionInv, AddingSound, Described
  <2>3. BandsGo(st, img.id, f)
    BY <1>1, <2>1, <2>2, AddBandsSound
  <2> HIDE DEF st
  <2>4. Sound(st.d) /\ img.id \in ImageIds(st.d) /\ Described(st.d, st.complete)
    BY <2>3 DEF BandsGo
  <2>5. CASE adding' = NotAdding /\ Commit(st.d)
    <3>1. AddingSound'
      BY <2>5, NothingAdded DEF AddingSound
    <3> QED BY <1>3, <2>4, <2>5, <3>1, CommitKeeps DEF CollectionInv
  <2>6. CASE adding' = go(st.complete) /\ Commit(AddMetadata(st.d, img.id, f))
    <3> DEFINE e == AddMetadata(st.d, img.id, f)
    <3>1. Sound(e) /\ e.bands = st.d.bands /\ e.described = st.d.described
      BY <2>4, AddMetadataSound
    <3> HIDE DEF e
    <3>2. Described(e, st.complete)
      BY <2>4, <3>1 DEF Described
    <3>3. db' = e /\ Sound(db)' /\ SavedSound' /\ HandleSound'
      BY <1>3, <2>6, <3>1, CommitKeeps DEF e
    <3>4. AddingSound'
      BY <1>2, <2>6, <3>2, <3>3 DEF AddingSound
    <3> QED BY <3>3, <3>4 DEF CollectionInv
  <2> QED BY <1>6, <2>5, <2>6
<1> QED BY <1>4, <1>5, <1>6

LEMMA FilterKeeps ==
    ASSUME CollectionInv, NEW d, Sound(d), Filter(d)
    PROVE  CollectionInv'
<1>1. Commit(d) /\ UNCHANGED <<filename, handle, unwritten>> /\ adding' = NotAdding
  BY DEF Filter
<1>2. AddingSound'
  BY <1>1, NothingAdded DEF AddingSound
<1> QED BY <1>1, <1>2, CommitKeeps DEF CollectionInv

LEMMA FilesKeep ==
    ASSUME CollectionInv, NEW n \in FileNames \cup {Temporary}, Write(n) \/ WriteFails(n)
    PROVE  CollectionInv'
<1>1. db' = db /\ adding' = adding
  BY DEF Write, WriteFails
<1>2. Sound(db)' /\ AddingSound'
  BY <1>1 DEF CollectionInv, AddingSound
<1>3. CASE WriteFails(n)
  BY <1>1, <1>2, <1>3 DEF CollectionInv, SavedSound, HandleSound, WriteFails
<1>4. CASE Write(n) /\ n = Temporary
  <2>1. saved' = saved /\ handle' = Memory /\ filename' = Temporary
    BY <1>4 DEF Write
  <2> QED BY <1>1, <1>2, <2>1, FilesAssumption DEF CollectionInv, SavedSound, HandleSound
<1>5. CASE Write(n) /\ n # Temporary
  <2>1. n \in FileNames /\ saved' = [saved EXCEPT ![n] = db] /\ handle' = n /\ filename' = n
    BY <1>5 DEF Write
  <2>2. saved'[n] = db /\ \A m \in FileNames : m # n => saved'[m] = saved[m]
    BY <2>1 DEF CollectionInv, SavedSound
  <2>3. saved' = [m \in FileNames |-> saved'[m]]
    BY <2>1 DEF CollectionInv, SavedSound
  <2>4. SavedSound'
    BY <2>1, <2>2, <2>3 DEF CollectionInv, SavedSound
  <2>5. HandleSound'
    BY <1>1, <2>1, <2>2 DEF HandleSound
  <2> QED BY <1>2, <2>4, <2>5 DEF CollectionInv
<1> QED BY <1>3, <1>4, <1>5

LEMMA ReopenKeeps ==
    ASSUME CollectionInv, NEW n \in FileNames, Reopen(n)
    PROVE  CollectionInv'
<1>1. saved' = saved /\ db' = saved[n] /\ filename' = n /\ handle' = n /\ adding' = NotAdding
  BY DEF Reopen
<1>2. Sound(saved[n])
  BY DEF Reopen, CollectionInv, SavedSound
<1>3. AddingSound'
  BY <1>1, NothingAdded DEF AddingSound
<1> QED BY <1>1, <1>2, <1>3 DEF CollectionInv, SavedSound, HandleSound

LEMMA InvInit == Init => CubeInv
<1> SUFFICES ASSUME Init PROVE CubeInv
  OBVIOUS
<1>1. /\ db = Empty /\ filename = Temporary /\ handle = Memory /\ adding = NotAdding
      /\ saved = [n \in FileNames |-> NoFile]
      /\ view = NoView /\ cubec = NoCube /\ chunk = NoChunk
  BY DEF Init, CollectionInit
<1>2. SavedSound
  BY <1>1 DEF SavedSound
<1>3. HandleSound
  BY <1>1, FilesAssumption DEF HandleSound
<1>4. AddingSound
  BY <1>1, NothingAdded DEF AddingSound
<1> QED BY <1>1, <1>2, <1>3, <1>4, EmptySound
   DEF CubeInv, CollectionInv, ViewSound, CubeSound, ChunkSound

\* A view that is given, made from the extent, or changed.
LEMMA GivenView ==
    ASSUME NEW v \in Views
    PROVE  ViewOK(v) /\ Even(v.win.right - v.win.left)
BY CubeAssumption DEF ViewOK, ViewTypes, Dates, Even

LEMMA MakeViewKeeps ==
    ASSUME CubeInv, MakeView
    PROVE  ViewSound'
<1>1. CASE view' \in Views
  BY <1>1, GivenView DEF ViewSound
<1>2. CASE /\ ImageIds(db) # {}
           /\ LET e == extent(db)
              IN  view' = default_view([left |-> e.left, right |-> e.right], e.right - e.left, e.first, e.last)
  <2> DEFINE e == extent(db)
             win == [left |-> e.left, right |-> e.right]
             w == default_view(win, e.right - e.left, e.first, e.last)
  <2>1. /\ e.left \in Int /\ e.right \in Int /\ e.left < e.right /\ Even(e.left) /\ Even(e.right)
        /\ e.first \in Int /\ e.last \in Int /\ e.first <= e.last
    BY <1>2, ExtentIs DEF CubeInv, CollectionInv
  <2> HIDE DEF e
  <2>2. /\ win \in [left : Int, right : Int] /\ win.left = e.left /\ win.right = e.right
        /\ win.left < win.right /\ e.right - e.left \in Nat \ {0}
    BY <2>1
  <2> HIDE DEF win
  <2>3. ViewOK(w) /\ w.win = win
    BY <2>1, <2>2, DefaultView
  <2>4. view' = w
    BY <1>2 DEF e, win
  <2> HIDE DEF w
  <2>5. Even(e.right - e.left)
    BY <2>1, EvenDistance
  <2>6. w.win.right - w.win.left = e.right - e.left
    BY <2>2, <2>3
  <2> QED BY <2>3, <2>4, <2>5, <2>6 DEF ViewSound
<1> QED BY <1>1, <1>2 DEF MakeView

\* A view with agreeing units is the view SetNt is about.
LEMMA OneUnit ==
    ASSUME NEW v, ViewOK(v), UnitsAgree(v)
    PROVE  /\ v.dt.unit \in Units /\ v.dt.interval \in Nat
           /\ v.win \in [left : Int, right : Int] /\ v.win.left < v.win.right /\ v.nx \in Nat \ {0}
           /\ v.t0.p \in Int /\ v.t1.p \in Int /\ v.t0.p <= v.t1.p
           /\ v = View(v.win, v.nx, Date(v.t0.p, v.dt.unit), Date(v.t1.p, v.dt.unit),
                       Duration(v.dt.interval, v.dt.unit))
<1>1. v \in ViewTypes /\ v.win.left < v.win.right /\ v.t0.p <= v.t1.p
  BY DEF ViewOK
<1>2. /\ v.dt.unit \in Units /\ v.dt.interval \in Nat
      /\ v.win \in [left : Int, right : Int] /\ v.nx \in Nat \ {0}
      /\ v.t0.p \in Int /\ v.t1.p \in Int
      /\ v = View(v.win, v.nx, v.t0, v.t1, v.dt) /\ v.dt = Duration(v.dt.interval, v.dt.unit)
      /\ v.t0 = Date(v.t0.p, v.t0.unit) /\ v.t1 = Date(v.t1.p, v.t1.unit)
  BY <1>1 DEF ViewTypes, Dates, View, Date, Duration
<1>3. v.t0.unit = v.dt.unit /\ v.t1.unit = v.dt.unit
  BY DEF ViewOK, UnitsAgree, Coarser
<1> QED BY <1>1, <1>2, <1>3

LEMMA SetNtOf ==
    ASSUME NEW v, ViewOK(v), UnitsAgree(v), NEW n \in Nat \ {0}
    PROVE  /\ ViewOK(set_nt(v, n)) /\ set_nt(v, n).win = v.win /\ nt(set_nt(v, n)) = n
           /\ \A p \in Int : v.t0.p <= p /\ p <= v.t1.p => cube_time(set_nt(v, n), p) \in 0..(n - 1)
BY OneUnit, SetNt

LEMMA ChangeViewKeeps ==
    ASSUME CubeInv, ChangeView
    PROVE  ViewSound'
<1>1. ViewOK(view) /\ Even(view.win.right - view.win.left)
  BY DEF ChangeView, CubeInv, ViewSound
<1>2. CASE \E n \in Counts : UnitsAgree(view) /\ view' = set_nt(view, n)
  <2>1. PICK n \in Counts : UnitsAgree(view) /\ view' = set_nt(view, n)
    BY <1>2
  <2>2. n \in Nat \ {0}
    BY CubeAssumption
  <2>3. ViewOK(set_nt(view, n)) /\ set_nt(view, n).win = view.win
    BY <1>1, <2>1, <2>2, SetNtOf
  <2> QED BY <1>1, <2>1, <2>3 DEF ViewSound
<1>3. CASE \E d \in Durations : view' = set_dt(view, d)
  <2>1. PICK d \in Durations : view' = set_dt(view, d)
    BY <1>3
  <2>2. d \in [interval : Nat \ {0}, unit : Units]
    BY CubeAssumption
  <2>3. ViewOK(set_dt(view, d)) /\ set_dt(view, d).win = view.win
    BY <1>1, <2>2, SetDt
  <2> QED BY <1>1, <2>1, <2>3 DEF ViewSound
<1>4. CASE \E x \in CellSizes : view' = set_dx(view, x)
  <2>1. PICK x \in CellSizes : view' = set_dx(view, x)
    BY <1>4
  <2>2. x \in Nat \ {0} /\ Even(x)
    BY CubeAssumption DEF Even
  <2>3. LET w == set_dx(view, x) IN ViewOK(w) /\ Even(w.win.right - w.win.left)
    BY <1>1, <2>2, SetDx
  <2> QED BY <2>1, <2>3 DEF ViewSound
<1>5. CASE view' = rewritten(view)
  <2>1. ViewOK(rewritten(view)) /\ rewritten(view).win = view.win
    BY <1>1, Rewritten
  <2> QED BY <1>1, <1>5, <2>1 DEF ViewSound
<1> QED BY <1>2, <1>3, <1>4, <1>5 DEF ChangeView

\* Only the bands of a cube change once it is open.
LEMMA SelectBandsKeeps ==
    ASSUME CubeSound, NEW bs, cubec # NoCube, cubec' = select_bands(cubec, bs)
    PROVE  CubeSound'
<1>1. PICK x : cubec' = cubec \/ cubec' = [cubec EXCEPT !.bands = x]
  BY DEF select_bands
<1>2. CASE cubec' = cubec
  BY <1>2 DEF CubeSound
<1>3. CASE cubec' = [cubec EXCEPT !.bands = x]
  <2> DEFINE c == cubec
             e == [view |-> c.view, bands |-> x, agg |-> c.agg, mask |-> c.mask,
                   maskvalues |-> c.maskvalues, invert |-> c.invert, range |-> c.range,
                   st |-> c.st, sx |-> c.sx, chunks |-> c.chunks]
  <2>1. cubec' = e
    BY <1>3 DEF CubeSound
  <2>2. /\ e.view = c.view /\ e.st = c.st /\ e.sx = c.sx /\ e.agg = c.agg /\ e.chunks = c.chunks
        /\ ShapeS(e) = ShapeS(c)
        /\ e = [view |-> e.view, bands |-> e.bands, agg |-> e.agg, mask |-> e.mask,
                maskvalues |-> e.maskvalues, invert |-> e.invert, range |-> e.range,
                st |-> e.st, sx |-> e.sx, chunks |-> e.chunks]
    BY DEF ShapeS
  <2> HIDE DEF e
  <2> QED BY <2>1, <2>2 DEF CubeSound
<1> QED BY <1>1, <1>2, <1>3

LEMMA OpenCubeKeeps ==
    ASSUME CubeInv, OpenCube
    PROVE  CubeSound'
<1>1. PICK s \in Settings :
        cubec' = [Cube(view, get_available_bands(db), s)
                    EXCEPT !.mask = IF @ \in Range(get_available_bands(db)) THEN @ ELSE NoMatch]
  BY DEF OpenCube
<1>2. s.st \in Nat \ {0} /\ s.sx \in Nat \ {0} /\ s.agg \in Aggregations /\ ViewOK(view)
  BY CubeAssumption DEF OpenCube, CubeInv, ViewSound
<1>3. PICK m, bands : cubec' = [Cube(view, bands, s) EXCEPT !.mask = m]
  BY <1>1
<1> DEFINE e == [view |-> view, bands |-> bands, agg |-> s.agg, mask |-> m, maskvalues |-> s.maskvalues,
                 invert |-> s.invert, range |-> s.range, st |-> s.st, sx |-> s.sx,
                 chunks |-> Chunking(view, ShapeN(view), ShapeS(s))]
<1>4. cubec' = e
  BY <1>3 DEF Cube
<1>5. /\ e.view = view /\ e.st = s.st /\ e.sx = s.sx /\ e.agg = s.agg /\ ShapeS(e) = ShapeS(s)
      /\ e.chunks = Chunking(view, ShapeN(view), ShapeS(s))
      /\ e = [view |-> e.view, bands |-> e.bands, agg |-> e.agg, mask |-> e.mask,
              maskvalues |-> e.maskvalues, invert |-> e.invert, range |-> e.range,
              st |-> e.st, sx |-> e.sx, chunks |-> e.chunks]
  BY DEF ShapeS
<1> HIDE DEF e
<1> QED BY <1>2, <1>4, <1>5 DEF CubeSound

LEMMA InvNext == CubeInv /\ [Next]_allvars => CubeInv'
<1> SUFFICES ASSUME CubeInv, [Next]_allvars PROVE CubeInv'
  OBVIOUS
<1>1. CollectionInv
  BY DEF CubeInv
<1>2. ASSUME UNCHANGED cvars PROVE CollectionInv'
  BY <1>1, <1>2 DEF cvars, CollectionInv, SavedSound, HandleSound, AddingSound
<1>3. ASSUME UNCHANGED view PROVE ViewSound'
  BY <1>3 DEF CubeInv, ViewSound
<1>4. ASSUME UNCHANGED cubec PROVE CubeSound'
  BY <1>4 DEF CubeInv, CubeSound
<1>5. ASSUME UNCHANGED chunk, chunk = NoChunk PROVE ChunkSound'
  BY <1>5 DEF ChunkSound
<1>6. CASE Add
  <2>1. PICK l \in Lists : StartAdd(l.files, l.strict)
    BY <1>6 DEF Add
  <2>2. l.files \in Seq(Descriptors)
    BY CubeAssumption
  <2>3. CollectionInv'
    BY <1>1, <2>1, <2>2, StartAddKeeps
  <2> QED BY <1>3, <1>4, <1>5, <1>6, <2>3 DEF Add, Catalogue, CubeInv
<1>7. CASE Continue
  <2>1. chunk = NoChunk
    <3>1. adding # NotAdding
      BY <1>7 DEF Continue, AddNext, NotAdding
    <3> QED BY <3>1 DEF CubeInv, ChunkSound
  <2> QED BY <1>1, <1>3, <1>4, <1>5, <1>7, <2>1, AddNextKeeps DEF Continue, CubeInv
<1>8. CASE FilterBands \/ FilterDates \/ FilterSpace
  <2>1. \A names : Sound(filter_bands(db, names))
    BY <1>1, FiltersSound DEF CollectionInv
  <2>2. \A start, end : Sound(filter_datetime_range(db, start, end))
    BY <1>1, FiltersSound DEF CollectionInv
  <2>3. \A left, right : Sound(filter_spatial_range(db, left, right))
    BY <1>1, FiltersSound DEF CollectionInv
  <2>4. PICK d : Sound(d) /\ Filter(d)
    BY <1>8, <2>1, <2>2, <2>3 DEF FilterBands, FilterDates, FilterSpace
  <2>5. CollectionInv'
    BY <1>1, <2>4, FilterKeeps
  <2> QED BY <1>3, <1>4, <1>5, <1>8, <2>5 DEF FilterBands, FilterDates, FilterSpace, Catalogue, CubeInv
<1>9. CASE Files
  <2>1. PICK n \in FileNames \cup {Temporary} : Write(n) \/ WriteFails(n)
    BY <1>9 DEF Files
  <2>2. CollectionInv'
    BY <1>1, <2>1, FilesKeep
  <2> QED BY <1>3, <1>4, <1>5, <1>9, <2>2 DEF Files, Catalogue, CubeInv
<1>10. CASE Restart
  <2>1. PICK n \in FileNames : Reopen(n)
    BY <1>10 DEF Restart
  <2>2. CollectionInv'
    BY <1>1, <2>1, ReopenKeeps
  <2>3. view' = NoView /\ cubec' = NoCube /\ ChunkSound'
    BY <1>5, <1>10 DEF Restart
  <2> QED BY <2>2, <2>3 DEF CubeInv, ViewSound, CubeSound
<1>11. CASE MakeView
  <2>1. ViewSound' /\ UNCHANGED <<cvars, cubec, chunk>>
    BY <1>11, MakeViewKeeps DEF MakeView
  <2>2. ChunkSound'
    BY <2>1 DEF cvars, CubeInv, ChunkSound
  <2> QED BY <1>2, <1>4, <2>1, <2>2 DEF CubeInv
<1>12. CASE ChangeView
  <2>1. ViewSound' /\ UNCHANGED <<cvars, cubec, chunk>>
    BY <1>12, ChangeViewKeeps DEF ChangeView
  <2>2. ChunkSound'
    BY <2>1 DEF cvars, CubeInv, ChunkSound
  <2> QED BY <1>2, <1>4, <2>1, <2>2 DEF CubeInv
<1>13. CASE OpenCube
  <2>1. chunk = NoChunk /\ UNCHANGED <<cvars, view, chunk>>
    BY <1>13 DEF OpenCube, CubeInv, ChunkSound
  <2>2. CubeSound'
    BY <1>13, OpenCubeKeeps
  <2> QED BY <1>2, <1>3, <1>5, <2>1, <2>2 DEF CubeInv
<1>14. CASE SelectBands
  <2>1. chunk = NoChunk /\ UNCHANGED <<cvars, view, chunk>>
    BY <1>14 DEF SelectBands
  <2>2. CubeSound'
    BY <1>14, SelectBandsKeeps DEF SelectBands, CubeInv
  <2> QED BY <1>2, <1>3, <1>5, <2>1, <2>2 DEF CubeInv
<1>15. CASE ReadChunk
  <2>1. cubec # NoCube /\ adding = NotAdding /\ UNCHANGED <<cvars, view, cubec>>
    BY <1>15 DEF ReadChunk
  <2>2. PICK id \in DOMAIN cubec.chunks.ext :
            chunk' = Thrown \/ chunk' = [id |-> id, out |-> read_chunk(db, cubec, id)]
    BY <1>15 DEF ReadChunk
  <2>3. chunk' = Thrown \/ (chunk'.id = id /\ chunk'.out = read_chunk(db, cubec, id))
    BY <2>2
  <2>4. ChunkSound'
    BY <2>1, <2>3 DEF cvars, ChunkSound
  <2> QED BY <1>2, <1>3, <1>4, <2>1, <2>4 DEF CubeInv
<1>16. CASE UNCHANGED allvars
  <2>1. ChunkSound'
    BY <1>16 DEF allvars, qvars, cvars, CubeInv, ChunkSound
  <2> QED BY <1>2, <1>3, <1>4, <1>16, <2>1 DEF allvars, qvars, CubeInv
<1> QED BY <1>6, <1>7, <1>8, <1>9, <1>10, <1>11, <1>12, <1>13, <1>14, <1>15, <1>16 DEF Next

\* The invariant holds of every reachable state: no operation on the collection (add_with_collection_format,
\* the filters, write, opening a file), on the view or on the cube leaves it.
THEOREM InvAlways == Spec => []CubeInv
BY InvInit, InvNext, PTL DEF Spec

\* No two rows of a table agree in what is unique.
LEMMA SameCardinality ==
    ASSUME NEW f, IsFiniteSet(DOMAIN f), \A i, j \in DOMAIN f : f[i] = f[j] => i = j
    PROVE  Cardinality({f[i] : i \in DOMAIN f}) = Cardinality(DOMAIN f)
<1> DEFINE g == [i \in DOMAIN f |-> f[i]]
           T == {f[i] : i \in DOMAIN f}
<1>1. g \in Surjection(DOMAIN f, T)
  BY DEF Surjection
<1>2. g \in Injection(DOMAIN f, T)
  BY DEF Injection, IsInjective
<1> QED BY <1>1, <1>2, FS_Surjection

\* The catalogue keeps one image for a name and one file for an image and a band, all references lead
\* to what is there, and the file of a connected collection has all of it (image_collection::add,
\* the filters and write).
THEOREM TypeCorrect == Spec => []TypeOK
<1>1. ASSUME CubeInv PROVE TypeOK
  <2>1. Sound(db) /\ HandleSound /\ ChunkSound
    BY <1>1 DEF CubeInv, CollectionInv
  <2> DEFINE names == [i \in ImageIds(db) |-> db.images[i].name]
             keys == [r \in db.refs |-> <<r.image, r.band>>]
  <2>2. Cardinality({db.images[i].name : i \in ImageIds(db)}) = Cardinality(ImageIds(db))
    <3>1. {db.images[i].name : i \in ImageIds(db)} = {names[i] : i \in DOMAIN names}
      OBVIOUS
    <3>2. DOMAIN names = ImageIds(db) /\ IsFiniteSet(ImageIds(db))
      BY <2>1 DEF Sound, ImagesSound
    <3>3. \A i, j \in DOMAIN names : names[i] = names[j] => i = j
      BY <2>1 DEF Sound, ImagesSound
    <3> HIDE DEF names
    <3> QED BY <3>1, <3>2, <3>3, SameCardinality
  <2>3. Cardinality({<<r.image, r.band>> : r \in db.refs}) = Cardinality(db.refs)
    <3>1. {<<r.image, r.band>> : r \in db.refs} = {keys[r] : r \in DOMAIN keys}
      OBVIOUS
    <3>2. DOMAIN keys = db.refs /\ IsFiniteSet(db.refs)
      BY <2>1 DEF Sound, RefsSound
    <3>3. \A r, q \in DOMAIN keys : keys[r] = keys[q] => r = q
      BY <2>1 DEF Sound, RefsSound
    <3> HIDE DEF keys
    <3> QED BY <3>1, <3>2, <3>3, SameCardinality
  <2> QED BY <2>1, <2>2, <2>3 DEF TypeOK, Sound, RefsSound, RefSound, HandleSound, ChunkSound
<1> QED BY <1>1, InvAlways, PTL

-------------------------------------------------------------------------------
\* Views.

\* What a view promises, from what its setters leave.
LEMMA CellsOfView ==
    ASSUME CubeInv, view # NoView, UnitsAgree(view)
    PROVE  /\ cube_time(view, view.t1.p) = nt(view) - 1
           /\ \A k \in 0..nt(view) : cube_time(view, map_time(view, k).p) = k
           /\ \A n \in Counts : LET w == set_nt(view, n)
                                IN  nt(w) = n /\ cube_time(w, view.t1.p) \in 0..(n - 1)
           /\ \A d \in Durations : LET w == set_dt(view, d)
                                   IN  cube_time(w, view.t1.p) = nt(w) - 1 /\ cube_time(w, w.t1.p) = nt(w) - 1
           /\ \A w \in {rewritten(view), derived(view)} :
                nt(w) = nt(view) /\ \A i \in ImageIds(db) :
                    db.images[i].date >= view.t0.p => cube_time(w, db.images[i].date) = cube_time(view, db.images[i].date)
           /\ \A x \in CellSizes : LET w == set_dx(view, x)
                                   IN  /\ w.win.left <= view.win.left /\ view.win.right <= w.win.right
                                       /\ w.win.right - w.win.left = w.nx * x
<1>1. ViewOK(view) /\ Even(view.win.right - view.win.left)
  BY DEF CubeInv, ViewSound
<1>2. /\ view.t0.p \in Int /\ view.t1.p \in Int /\ view.t0.p <= view.t1.p
      /\ LastCell(view) \in Nat /\ nt(view) = LastCell(view) + 1
  BY <1>1, ViewTime DEF ViewOK
<1>3. cube_time(view, view.t1.p) = nt(view) - 1
  <2>1. cube_time(view, view.t1.p) = LastCell(view)
    BY <1>1, <1>2, ViewTime DEF LastCell
  <2> QED BY <1>2, <2>1
<1>4. \A k \in 0..nt(view) : cube_time(view, map_time(view, k).p) = k
  <2>1. \A k \in Nat : cube_time(view, map_time(view, k).p) = k
    BY <1>1, CellStart
  <2>2. 0..nt(view) \subseteq Nat
    BY <1>2
  <2> QED BY <2>1, <2>2
<1>5. ASSUME NEW n \in Counts
      PROVE  nt(set_nt(view, n)) = n /\ cube_time(set_nt(view, n), view.t1.p) \in 0..(n - 1)
  <2>1. n \in Nat \ {0}
    BY CubeAssumption
  <2>2. view.t1.p <= view.t1.p
    BY <1>2
  <2> QED BY <1>1, <1>2, <2>1, <2>2, SetNtOf
<1>6. ASSUME NEW d \in Durations
      PROVE  LET w == set_dt(view, d)
             IN  cube_time(w, view.t1.p) = nt(w) - 1 /\ cube_time(w, w.t1.p) = nt(w) - 1
  <2>1. d \in [interval : Nat \ {0}, unit : Units]
    BY CubeAssumption
  <2> QED BY <1>1, <2>1, SetDt
<1>7. \A i \in ImageIds(db) : db.images[i].date \in Int
  BY DEF CubeInv, CollectionInv, Sound, ImagesSound
<1>8. ASSUME NEW w \in {rewritten(view), derived(view)}
      PROVE  nt(w) = nt(view) /\ \A i \in ImageIds(db) :
                db.images[i].date >= view.t0.p => cube_time(w, db.images[i].date) = cube_time(view, db.images[i].date)
  <2>1. nt(w) = nt(view) /\ \A p \in Int : view.t0.p <= p => cube_time(w, p) = cube_time(view, p)
    BY <1>1, <1>8, Rewritten, Derived
  <2> QED BY <1>2, <1>7, <2>1
<1>9. ASSUME NEW x \in CellSizes
      PROVE  LET w == set_dx(view, x)
             IN  /\ w.win.left <= view.win.left /\ view.win.right <= w.win.right
                 /\ w.win.right - w.win.left = w.nx * x
  <2>1. x \in Nat \ {0} /\ Even(x)
    BY CubeAssumption DEF Even
  <2> QED BY <1>1, <2>1, SetDx
<1> QED BY <1>3, <1>4, <1>5, <1>6, <1>8, <1>9

LEMMA DefaultCells ==
    ASSUME CubeInv, ImageIds(db) # {}
    PROVE  LET e == extent(db)
               v == default_view([left |-> e.left, right |-> e.right], 1, e.first, e.last)
           IN  \A i \in ImageIds(db) : cube_time(v, db.images[i].date) \in 0..(nt(v) - 1)
<1> DEFINE e == extent(db)
           win == [left |-> e.left, right |-> e.right]
           v == default_view(win, 1, e.first, e.last)
<1>1. /\ e.left \in Int /\ e.right \in Int /\ e.left < e.right
      /\ e.first \in Int /\ e.last \in Int /\ e.first <= e.last
      /\ \A i \in ImageIds(db) : e.first <= db.images[i].date /\ db.images[i].date <= e.last
  BY ExtentIs DEF CubeInv, CollectionInv
<1> HIDE DEF e
<1>2. win \in [left : Int, right : Int] /\ win.left < win.right /\ 1 \in Nat \ {0}
  BY <1>1
<1> HIDE DEF win
<1>3. \A p \in Int : e.first <= p /\ p <= e.last => cube_time(v, p) \in 0..(nt(v) - 1)
  BY <1>1, <1>2, DefaultView
<1>4. \A i \in ImageIds(db) : db.images[i].date \in Int
  BY DEF CubeInv, CollectionInv, Sound, ImagesSound
<1>5. \A i \in ImageIds(db) : cube_time(v, db.images[i].date) \in 0..(nt(v) - 1)
  <2> HIDE DEF v
  <2> QED BY <1>1, <1>3, <1>4
<1> QED BY <1>5 DEF v, win, e

\* A view covers the dates and the window it is asked to cover, whatever the order of the setters
\* (cube_view::nt, dt, dx, read and write_json), and the default view has every image.
THEOREM ViewsCover == Spec => []ViewCells
<1>1. CubeInv => ViewCells
  BY CellsOfView, DefaultCells DEF ViewCells
<1> QED BY <1>1, InvAlways, PTL

-------------------------------------------------------------------------------
\* The aggregation of the images of a slice is a fold as well.

Start == [v |-> NaN, n |-> 0, list |-> <<>>]

ImageEquation(a, value, g, s) ==
    IF s = {} THEN Start ELSE update(a, g[s \ {Max(s)}], value[Max(s)])

ImageFold(a, value, S) == CHOOSE g : g = [s \in SUBSET S |-> ImageEquation(a, value, g, s)]

LEMMA AggregatedIs ==
    ASSUME NEW a, NEW value
    PROVE  Aggregated(a, value) = finalize(a, ImageFold(a, value, DOMAIN value)[DOMAIN value])
BY DEF Aggregated, MapThenFoldSet, ImageFold, ImageEquation, Start

LEMMA OneImageLess ==
    ASSUME NEW S \in SUBSET Int, IsFiniteSet(S), NEW s \in SUBSET S, s # {}
    PROVE  /\ Max(s) \in s /\ s \ {Max(s)} \in SUBSET S
           /\ \A i \in s : i <= Max(s)
           /\ Cardinality(s) \in Nat \ {0} /\ Cardinality(s \ {Max(s)}) = Cardinality(s) - 1
<1>1. IsFiniteSet(s) /\ s \in SUBSET Int
  BY FS_Subset
<1>2. Max(s) \in s /\ \A i \in s : i <= Max(s)
  BY <1>1, Extremes
<1>3. Cardinality(s \ {Max(s)}) = Cardinality(s) - 1
  BY <1>1, <1>2, FS_RemoveElement
<1>4. Cardinality(s) \in Nat /\ Cardinality(s) # 0
  BY <1>1, FS_CardinalityType, FS_EmptySet
<1> QED BY <1>2, <1>3, <1>4

ImagesUpTo(n, a, value, S, g) ==
    /\ g = [s \in SUBSET S |-> g[s]]
    /\ \A s \in SUBSET S : Cardinality(s) <= n => g[s] = ImageEquation(a, value, g, s)

LEMMA ImagesUpToAny ==
    ASSUME NEW n \in Nat, NEW a, NEW value, NEW S \in SUBSET Int, IsFiniteSet(S)
    PROVE  \E g : ImagesUpTo(n, a, value, S, g)
<1> DEFINE B == {k \in Nat : ~ \E g : ImagesUpTo(k, a, value, S, g)}
<1>1. SUFFICES ASSUME B # {} PROVE FALSE
  OBVIOUS
<1>2. PICK k \in B : \A l \in B : k <= l
  <2>1. B \in SUBSET Nat
    OBVIOUS
  <2> HIDE DEF B
  <2> QED BY <1>1, <2>1, LeastMember
<1>3. \E g : ImagesUpTo(0, a, value, S, g)
  <2> DEFINE g == [s \in SUBSET S |-> Start]
  <2>1. ASSUME NEW s \in SUBSET S, Cardinality(s) <= 0
        PROVE  g[s] = ImageEquation(a, value, g, s)
    <3>1. s = {}
      <4>1. s # {} => Cardinality(s) \in Nat \ {0}
        BY OneImageLess
      <4> QED BY <2>1, <4>1
    <3> QED BY <3>1 DEF ImageEquation
  <2>2. g = [s \in SUBSET S |-> g[s]]
    OBVIOUS
  <2> HIDE DEF g
  <2>3. ImagesUpTo(0, a, value, S, g)
    BY <2>1, <2>2 DEF ImagesUpTo
  <2> QED BY <2>3
<1>4. k # 0 /\ k \in Nat
  BY <1>2, <1>3
<1>5. k - 1 \in Nat /\ k - 1 \notin B
  BY <1>2, <1>4
<1>6. PICK g : ImagesUpTo(k - 1, a, value, S, g)
  BY <1>5
<1> DEFINE h == [s \in SUBSET S |-> ImageEquation(a, value, g, s)]
<1>7. ASSUME NEW s \in SUBSET S, Cardinality(s) <= k
      PROVE  h[s] = ImageEquation(a, value, h, s)
  <2>1. CASE s = {}
    BY <2>1 DEF ImageEquation
  <2>2. CASE s # {}
    <3> DEFINE r == s \ {Max(s)}
    <3>1. r \in SUBSET S /\ Cardinality(r) <= k - 1
      BY <1>4, <1>7, <2>2, OneImageLess
    <3>2. g[r] = ImageEquation(a, value, g, r)
      BY <1>6, <3>1 DEF ImagesUpTo
    <3>3. h[r] = g[r]
      BY <3>1, <3>2
    <3>4. h[s] = update(a, g[r], value[Max(s)])
      BY <2>2 DEF ImageEquation
    <3>5. ImageEquation(a, value, h, s) = update(a, h[r], value[Max(s)])
      BY <2>2 DEF ImageEquation
    <3> QED BY <3>3, <3>4, <3>5
  <2> QED BY <2>1, <2>2
<1>8. ImagesUpTo(k, a, value, S, h)
  <2>1. h = [s \in SUBSET S |-> h[s]]
    OBVIOUS
  <2> HIDE DEF h
  <2> QED BY <1>7, <2>1 DEF ImagesUpTo
<1> QED BY <1>2, <1>8

LEMMA ImageFoldIs ==
    ASSUME NEW a, NEW value, NEW S \in SUBSET Int, IsFiniteSet(S), NEW s \in SUBSET S
    PROVE  ImageFold(a, value, S)[s] = ImageEquation(a, value, ImageFold(a, value, S), s)
<1> DEFINE n == Cardinality(S)
<1>1. n \in Nat /\ \A r \in SUBSET S : Cardinality(r) <= n
  BY FS_Subset, FS_CardinalityType
<1>2. PICK g : ImagesUpTo(n, a, value, S, g)
  BY <1>1, ImagesUpToAny
<1>3. g = [r \in SUBSET S |-> ImageEquation(a, value, g, r)]
  BY <1>1, <1>2 DEF ImagesUpTo
<1>4. ImageFold(a, value, S)
        = [r \in SUBSET S |-> ImageEquation(a, value, ImageFold(a, value, S), r)]
  BY <1>3 DEF ImageFold
<1> HIDE DEF n
<1>5. PICK h : h = ImageFold(a, value, S)
  OBVIOUS
<1> QED BY <1>4, <1>5

LEMMA FinalizeIs ==
    ASSUME NEW a, NEW st
    PROVE  /\ a = "median" => finalize(a, st) = MedianOf(st.list)
           /\ a = "mean" => finalize(a, st) = IF st.v = NaN THEN NaN ELSE st.v \div st.n
           /\ a # "median" /\ a # "mean" => finalize(a, st) = st.v
BY Zenon DEF finalize

\* A slice without images has no data.
LEMMA NoImages ==
    ASSUME NEW a, NEW value, DOMAIN value = {}
    PROVE  Aggregated(a, value) = NaN
<1>1. {} \in SUBSET Int /\ {} \in SUBSET {} /\ IsFiniteSet({})
  BY FS_EmptySet
<1>2. ImageFold(a, value, {})[{}] = Start
  BY <1>1, ImageFoldIs DEF ImageEquation
<1>3. Aggregated(a, value) = finalize(a, Start)
  BY <1>2, AggregatedIs
<1>4. Start.v = NaN /\ Start.list = <<>>
  BY DEF Start
<1>5. MedianOf(<<>>) = NaN
  BY DEF MedianOf
<1> QED BY <1>3, <1>4, <1>5, FinalizeIs

-------------------------------------------------------------------------------
\* What is read of a cell.

\* The references found for a chunk, and the images of slice t of it.
Hits(d, c, id) ==
    find_range_st(d, c.chunks.ext[id].t0.p, c.chunks.ext[id].t1.p, c.chunks.ext[id].left, c.chunks.ext[id].right)

InSlice(d, c, id, t) ==
    {i \in ImagesIn(d, c, id) : slice_of(c.view, c.chunks.ext[id], d.images[i].date) = t}

CellStartAt(c, id, k) == c.chunks.ext[id].left + k * CellWidth(c.view)

CellValue(d, c, id, b, t, k) ==
    IF Hits(d, c, id) = {} THEN NaN
    ELSE Aggregated(c.agg, [i \in InSlice(d, c, id, t) |->
                                Contribution(c, Hits(d, c, id), i, b, CellStartAt(c, id, k))])

Indices(c, id) ==
    (DOMAIN c.bands) \X (0..(c.chunks.size[id].t - 1)) \X (0..(c.chunks.size[id].x - 1))

LEMMA ReadIs ==
    ASSUME NEW d, NEW c, NEW id
    PROVE  read_chunk(d, c, id) =
              IF Hits(d, c, id) = {} \/ c.bands = <<>> THEN <<>>
              ELSE [e \in Indices(c, id) |->
                      Aggregated(c.agg, [i \in InSlice(d, c, id, e[2]) |->
                          Contribution(c, Hits(d, c, id), i, c.bands[e[1]], CellStartAt(c, id, e[3]))])]
BY DEF read_chunk, Hits, InSlice, CellStartAt, Indices

LEMMA ElementIs ==
    ASSUME NEW d, NEW c, NEW id
    PROVE  /\ DOMAIN read_chunk(d, c, id) \subseteq Indices(c, id)
           /\ \A e \in Indices(c, id) :
                At(read_chunk(d, c, id), e) = CellValue(d, c, id, c.bands[e[1]], e[2], e[3])
<1>0. DOMAIN <<>> = {}
  OBVIOUS
<1>1. CASE Hits(d, c, id) = {}
  <2>1. read_chunk(d, c, id) = <<>>
    BY <1>1, ReadIs
  <2> QED BY <1>0, <1>1, <2>1 DEF At, CellValue
<1>2. CASE c.bands = <<>>
  <2>1. read_chunk(d, c, id) = <<>>
    BY <1>2, ReadIs
  <2>2. Indices(c, id) = {}
    BY <1>0, <1>2 DEF Indices
  <2> QED BY <1>0, <2>1, <2>2
<1>3. CASE Hits(d, c, id) # {} /\ c.bands # <<>>
  <2> DEFINE f == [e \in Indices(c, id) |->
                      Aggregated(c.agg, [i \in InSlice(d, c, id, e[2]) |->
                          Contribution(c, Hits(d, c, id), i, c.bands[e[1]], CellStartAt(c, id, e[3]))])]
  <2>1. read_chunk(d, c, id) = f
    BY <1>3, ReadIs
  <2>2. DOMAIN f = Indices(c, id)
    OBVIOUS
  <2>3. ASSUME NEW e \in Indices(c, id)
        PROVE  At(f, e) = CellValue(d, c, id, c.bands[e[1]], e[2], e[3])
    <3>1. f # <<>>
      BY <1>0, <2>2
    <3>2. At(f, e) = f[e]
      <4> HIDE DEF f
      <4> QED BY <3>1 DEF At
    <3>3. f[e] = Aggregated(c.agg, [i \in InSlice(d, c, id, e[2]) |->
                          Contribution(c, Hits(d, c, id), i, c.bands[e[1]], CellStartAt(c, id, e[3]))])
      OBVIOUS
    <3> QED BY <1>3, <3>2, <3>3 DEF CellValue
  <2> HIDE DEF f
  <2> QED BY <2>1, <2>2, <2>3
<1> QED BY <1>1, <1>2, <1>3

\* Chunks of one size agree if their cells do.
LEMMA SameWhen ==
    ASSUME NEW d1, NEW c1, NEW d2, NEW c2, NEW id,
           c1.chunks.size[id] = c2.chunks.size[id],
           \A k \in DOMAIN c1.bands, l \in DOMAIN c2.bands : \A t, x :
               c1.bands[k] = c2.bands[l] =>
                   CellValue(d1, c1, id, c1.bands[k], t, x) = CellValue(d2, c2, id, c2.bands[l], t, x)
    PROVE  SameValues(c1, read_chunk(d1, c1, id), c2, read_chunk(d2, c2, id))
<1> DEFINE out1 == read_chunk(d1, c1, id)
           out2 == read_chunk(d2, c2, id)
<1>1. SUFFICES ASSUME NEW k \in DOMAIN c1.bands, NEW l \in DOMAIN c2.bands, c1.bands[k] = c2.bands[l],
                      NEW e \in {f \in DOMAIN out1 : f[1] = k} \cup
                                {<<k, f[2], f[3]>> : f \in {g \in DOMAIN out2 : g[1] = l}}
               PROVE  At(out1, e) = At(out2, <<l, e[2], e[3]>>)
  BY DEF SameValues
<1>2. /\ DOMAIN out1 \subseteq Indices(c1, id) /\ DOMAIN out2 \subseteq Indices(c2, id)
      /\ \A f \in Indices(c1, id) : At(out1, f) = CellValue(d1, c1, id, c1.bands[f[1]], f[2], f[3])
      /\ \A f \in Indices(c2, id) : At(out2, f) = CellValue(d2, c2, id, c2.bands[f[1]], f[2], f[3])
  BY ElementIs
<1> HIDE DEF out1, out2
<1> DEFINE T == 0..(c1.chunks.size[id].t - 1)
           X == 0..(c1.chunks.size[id].x - 1)
<1>3. Indices(c1, id) = (DOMAIN c1.bands) \X T \X X /\ Indices(c2, id) = (DOMAIN c2.bands) \X T \X X
  BY DEF Indices
<1> HIDE DEF T, X
<1>4. PICK t \in T, x \in X : e = <<k, t, x>>
  <2>1. CASE e \in {f \in DOMAIN out1 : f[1] = k}
    <3>1. e \in (DOMAIN c1.bands) \X T \X X /\ e[1] = k
      BY <1>2, <1>3, <2>1
    <3> QED BY <3>1
  <2>2. CASE e \in {<<k, f[2], f[3]>> : f \in {g \in DOMAIN out2 : g[1] = l}}
    <3>1. PICK f \in DOMAIN out2 : e = <<k, f[2], f[3]>>
      BY <2>2
    <3>2. f \in (DOMAIN c2.bands) \X T \X X
      BY <1>2, <1>3, <3>1
    <3> QED BY <3>1, <3>2
  <2> QED BY <1>1, <2>1, <2>2
<1>5. <<k, t, x>> \in Indices(c1, id) /\ <<l, t, x>> \in Indices(c2, id)
  BY <1>3
<1>6. At(out1, <<k, t, x>>) = CellValue(d1, c1, id, c1.bands[k], t, x)
  BY <1>2, <1>5
<1>7. At(out2, <<l, t, x>>) = CellValue(d2, c2, id, c2.bands[l], t, x)
  BY <1>2, <1>5
<1>8. e[2] = t /\ e[3] = x
  BY <1>4
<1> QED BY <1>1, <1>4, <1>6, <1>7, <1>8

\* The bounds of a chunk lie in the window, and not before the first date.
LEMMA ChunkInside ==
    ASSUME NEW c, ViewOK(c.view), c.st \in Nat \ {0}, c.sx \in Nat \ {0},
           c.chunks = Chunking(c.view, ShapeN(c.view), ShapeS(c)),
           NEW id \in DOMAIN c.chunks.ext
    PROVE  LET ext == c.chunks.ext[id]
           IN  /\ id \in ChunkIds(ShapeN(c.view), ShapeS(c))
               /\ ext = chunk_extent(c.view, bounds_from_chunk(ShapeN(c.view), ShapeS(c), id))
               /\ ext.t0.p \in Int /\ ext.t1.p \in Int /\ c.view.t0.p <= ext.t0.p
               /\ ext.left \in Int /\ ext.right \in Int
               /\ c.view.win.left <= ext.left /\ ext.right <= c.view.win.right
<1> DEFINE v == c.view
           n == ShapeN(v)
           s == ShapeS(c)
           b == bounds_from_chunk(n, s, id)
           w == v.win.right - v.win.left
           q == CellWidth(v)
<1>1. /\ v.win.left \in Int /\ v.win.right \in Int /\ v.win.left < v.win.right /\ v.nx \in Nat \ {0}
      /\ v.t0.p \in Int
  <2>1. c.view \in ViewTypes /\ c.view.win.left < c.view.win.right
    BY DEF ViewOK
  <2> QED BY <2>1 DEF ViewTypes, Dates
<1>2. nt(v) \in Nat \ {0}
  BY ViewTime
<1>3. n \in Sizes /\ s \in Sizes /\ n.x = v.nx
  BY <1>1, <1>2 DEF ShapeN, ShapeS, Sizes
<1>4. id \in ChunkIds(n, s) /\ c.chunks.ext[id] = chunk_extent(v, b)
  BY DEF Chunking
<1> HIDE DEF n, s
<1>5. /\ b.t0 \in Nat /\ b.t1 \in Nat /\ b.left \in Nat /\ b.right \in Nat /\ b.right <= v.nx
  <2> DEFINE l == chunk_limits(n, s, id)
  <2>1. /\ l.low.t \in 0..(n.t - 1) /\ l.high.t \in l.low.t..(n.t - 1)
        /\ l.low.x \in 0..(n.x - 1) /\ l.high.x \in l.low.x..(n.x - 1)
    BY <1>3, <1>4, ChunkLimits
  <2>2. n.t \in Nat \ {0} /\ n.x \in Nat \ {0}
    BY <1>3 DEF Sizes
  <2>3. b.t0 = l.low.t /\ b.t1 = l.high.t + 1 /\ b.left = l.low.x /\ b.right = l.high.x + 1
    BY DEF bounds_from_chunk, Borders
  <2> HIDE DEF l, b
  <2> QED BY <1>3, <2>1, <2>2, <2>3
<1> HIDE DEF b
<1>6. /\ map_time(v, b.t0).p \in Int /\ map_time(v, b.t1).p \in Int /\ v.t0.p <= map_time(v, b.t0).p
  <2>1. map_time(v, b.t0).p \in Int /\ map_time(v, b.t0).p >= v.t0.p /\ map_time(v, b.t1).p \in Int
    BY <1>5, CellStart
  <2> QED BY <1>1, <2>1
<1>7. q \in Nat /\ v.nx * q <= w /\ w \in Nat \ {0}
  <2>1. w \in Nat \ {0} /\ q = w \div v.nx
    BY <1>1 DEF CellWidth
  <2> HIDE DEF w, q
  <2>2. w \div v.nx \in Nat /\ w % v.nx \in 0..(v.nx - 1) /\ w = v.nx * (w \div v.nx) + (w % v.nx)
    BY <1>1, <2>1, Division
  <2>3. v.nx * q \in Int
    BY <1>1, <2>1, <2>2
  <2> QED BY <2>1, <2>2, <2>3
<1> HIDE DEF q
<1>8. b.left * q \in Nat /\ b.right * q \in Nat /\ b.right * q <= w
  <2>1. q * b.right <= q * v.nx
    BY <1>1, <1>5, <1>7, TimesOrder
  <2>2. /\ q * b.right = b.right * q /\ q * v.nx = v.nx * q
        /\ b.left * q \in Nat /\ b.right * q \in Nat /\ v.nx * q \in Nat
    BY <1>1, <1>5, <1>7
  <2> QED BY <1>7, <2>1, <2>2
<1>9. /\ chunk_extent(v, b).t0 = map_time(v, b.t0) /\ chunk_extent(v, b).t1 = map_time(v, b.t1)
      /\ chunk_extent(v, b).left = v.win.left + b.left * q
      /\ chunk_extent(v, b).right = v.win.left + b.right * q
  BY DEF chunk_extent, q
<1>10. /\ v.win.left + b.left * q \in Int /\ v.win.left + b.right * q \in Int
       /\ v.win.left <= v.win.left + b.left * q /\ v.win.left + b.right * q <= v.win.right
  BY <1>1, <1>8
<1> QED BY <1>4, <1>6, <1>9, <1>10 DEF b, n, s

-------------------------------------------------------------------------------
\* Filters.

\* Catalogues with the same references for a chunk, and the same dates for them, are read alike.
LEMMA SameHits ==
    ASSUME NEW d, NEW e, NEW c, NEW id, Hits(d, c, id) = Hits(e, c, id),
           \A r \in Hits(d, c, id) : d.images[r.image].date = e.images[r.image].date
    PROVE  \A b, t, x : CellValue(d, c, id, b, t, x) = CellValue(e, c, id, b, t, x)
<1> DEFINE of(z) == {r.image : r \in {q \in Hits(z, c, id) : q.band \in Range(c.bands)}}
           in(z, i) == slice_of(c.view, c.chunks.ext[id], z.images[i].date)
<1>1. /\ ImagesIn(d, c, id) = {i \in of(d) : in(d, i) \in 0..(c.chunks.size[id].t - 1)}
      /\ ImagesIn(e, c, id) = {i \in of(e) : in(e, i) \in 0..(c.chunks.size[id].t - 1)}
  BY DEF ImagesIn, Hits
<1>2. of(d) = of(e) /\ \A i \in of(d) : in(d, i) = in(e, i)
  OBVIOUS
<1> HIDE DEF of
<1>3. ASSUME NEW t PROVE InSlice(d, c, id, t) = InSlice(e, c, id, t)
  <2>1. /\ InSlice(d, c, id, t) = {i \in ImagesIn(d, c, id) : in(d, i) = t}
        /\ InSlice(e, c, id, t) = {i \in ImagesIn(e, c, id) : in(e, i) = t}
    BY DEF InSlice
  <2> HIDE DEF in
  <2> QED BY <1>1, <1>2, <2>1
<1> QED BY <1>3 DEF CellValue

\* Rows of images that a filter keeps are found as before.
LEMMA KeptHits ==
    ASSUME NEW d, Sound(d), NEW keep \in SUBSET ImageIds(d), NEW c, NEW id,
           \A r \in Hits(d, c, id) : r.image \in keep
    PROVE  \A b, t, x :
              CellValue(WithImages(d, keep), c, id, b, t, x) = CellValue(d, c, id, b, t, x)
<1> DEFINE e == WithImages(d, keep)
<1>1. /\ e.images = [i \in keep |-> d.images[i]]
      /\ e.refs = {r \in d.refs : r.image \in keep}
  BY WithImagesIs
<1> HIDE DEF e
<1>2. \A i \in keep : e.images[i] = d.images[i]
  BY <1>1
<1>3. Hits(e, c, id) = Hits(d, c, id)
  <2>1. \A r \in d.refs : r \in Hits(d, c, id) => r.image \in keep
    OBVIOUS
  <2>2. \A r : r \in Hits(e, c, id) <=> r \in Hits(d, c, id)
    BY <1>1, <1>2, <2>1 DEF Hits, find_range_st
  <2> QED BY <2>2 DEF Hits, find_range_st
<1>4. \A r \in Hits(e, c, id) : e.images[r.image].date = d.images[r.image].date
  BY <1>2, <1>3
<1> QED BY <1>3, <1>4, SameHits DEF e

\* Without images a cell has no data.
LEMMA NothingFound ==
    ASSUME NEW d, NEW c, NEW id, ImagesIn(d, c, id) = {}
    PROVE  \A b, t, x : CellValue(d, c, id, b, t, x) = NaN
<1> SUFFICES ASSUME NEW b, NEW t, NEW x PROVE CellValue(d, c, id, b, t, x) = NaN
  OBVIOUS
<1> DEFINE value == [i \in InSlice(d, c, id, t) |->
                        Contribution(c, Hits(d, c, id), i, b, CellStartAt(c, id, x))]
<1>1. InSlice(d, c, id, t) = {}
  BY DEF InSlice
<1>2. DOMAIN value = {}
  BY <1>1
<1>3. Aggregated(c.agg, value) = NaN
  BY <1>2, NoImages
<1> QED BY <1>3 DEF CellValue

\* What an image contributes is told by the references of the band and of the mask.
LEMMA SameContribution ==
    ASSUME NEW c, NEW rows, NEW kept, NEW i, NEW b, NEW x,
           {r \in kept : r.image = i /\ r.band = b} = {r \in rows : r.image = i /\ r.band = b},
           c.mask = NoMatch \/
           {r \in kept : r.image = i /\ r.band = c.mask} = {r \in rows : r.image = i /\ r.band = c.mask}
    PROVE  Contribution(c, kept, i, b, x) = Contribution(c, rows, i, b, x)
<1> DEFINE of(s, k) == {r \in s : r.image = i /\ r.band = k}
           value(s) == IF of(s, b) = {} THEN NaN ELSE Pixel((CHOOSE r \in of(s, b) : TRUE).file, b, x)
           hidden(s) == /\ c.mask # NoMatch /\ of(s, c.mask) # {}
                        /\ Masked(c, Pixel((CHOOSE r \in of(s, c.mask) : TRUE).file, c.mask, x))
<1>1. \A s : Contribution(c, s, i, b, x) = IF hidden(s) THEN NaN ELSE value(s)
  BY DEF Contribution
<1>2. of(kept, b) = of(rows, b) /\ (c.mask = NoMatch \/ of(kept, c.mask) = of(rows, c.mask))
  OBVIOUS
<1> HIDE DEF of
<1>3. value(kept) = value(rows)
  BY <1>2
<1>4. hidden(kept) <=> hidden(rows)
  <2>1. CASE c.mask = NoMatch
    BY <2>1
  <2>2. CASE of(kept, c.mask) = of(rows, c.mask)
    BY <2>2
  <2> QED BY <1>2, <2>1, <2>2
<1> HIDE DEF value, hidden
<1> QED BY <1>1, <1>3, <1>4

LEMMA KeptBands ==
    ASSUME NEW d, Sound(d), NEW bs, NEW c, NEW id, NEW b \in Range(c.bands), NEW t, NEW x,
           Range(c.bands) \subseteq bs, c.mask = NoMatch \/ c.mask \in bs
    PROVE  CellValue(WithBands(d, d.bands \cap bs), c, id, b, t, x) = CellValue(d, c, id, b, t, x)
<1> DEFINE keep == d.bands \cap bs
           e == WithBands(d, keep)
           rows == Hits(d, c, id)
           kept == Hits(e, c, id)
           size == c.chunks.size[id].t
<1>1. e.images = d.images /\ e.refs = {r \in d.refs : r.band \in keep}
  BY WithBandsIs
<1>2. \A r \in d.refs : r.band \in d.bands
  BY DEF Sound, RefsSound, RefSound
<1>3. kept = {r \in rows : r.band \in bs}
  <2> HIDE DEF e
  <2> QED BY <1>1, <1>2 DEF Hits, find_range_st
<1>4. /\ ImagesIn(e, c, id) = {i \in {r.image : r \in {q \in kept : q.band \in Range(c.bands)}} :
                                slice_of(c.view, c.chunks.ext[id], e.images[i].date) \in 0..(size - 1)}
      /\ ImagesIn(d, c, id) = {i \in {r.image : r \in {q \in rows : q.band \in Range(c.bands)}} :
                                slice_of(c.view, c.chunks.ext[id], d.images[i].date) \in 0..(size - 1)}
  BY DEF ImagesIn, Hits
<1> HIDE DEF e, rows, kept, keep
<1>5. {q \in kept : q.band \in Range(c.bands)} = {q \in rows : q.band \in Range(c.bands)}
  BY <1>3
<1>6. ImagesIn(e, c, id) = ImagesIn(d, c, id)
  BY <1>1, <1>4, <1>5
<1>7. SUFFICES CellValue(e, c, id, b, t, x) = CellValue(d, c, id, b, t, x)
  BY DEF e, keep
<1>8. InSlice(e, c, id, t) = InSlice(d, c, id, t)
  BY <1>1, <1>6 DEF InSlice
<1>10. \A i : Contribution(c, kept, i, b, CellStartAt(c, id, x))
                 = Contribution(c, rows, i, b, CellStartAt(c, id, x))
  <2> SUFFICES ASSUME NEW i
               PROVE  Contribution(c, kept, i, b, CellStartAt(c, id, x))
                        = Contribution(c, rows, i, b, CellStartAt(c, id, x))
    OBVIOUS
  <2> DEFINE at == CellStartAt(c, id, x)
  <2>1. b \in bs /\ (c.mask = NoMatch \/ c.mask \in bs)
    OBVIOUS
  <2> HIDE DEF at
  <2>2. /\ {r \in kept : r.image = i /\ r.band = b} = {r \in rows : r.image = i /\ r.band = b}
        /\ c.mask = NoMatch \/
           {r \in kept : r.image = i /\ r.band = c.mask} = {r \in rows : r.image = i /\ r.band = c.mask}
    BY <1>3, <2>1
  <2>3. Contribution(c, kept, i, b, at) = Contribution(c, rows, i, b, at)
    BY <2>2, SameContribution
  <2> QED BY <2>3 DEF at
<1>11. CASE kept = {} /\ rows # {}
  <2>1. ImagesIn(e, c, id) = {} /\ ImagesIn(d, c, id) = {}
    BY <1>4, <1>6, <1>11
  <2> QED BY <2>1, NothingFound
<1>12. CASE rows = {}
  <2>1. kept = {}
    BY <1>3, <1>12
  <2> QED BY <1>12, <2>1 DEF CellValue, kept, rows
<1>13. CASE kept # {} /\ rows # {}
  <2>1. /\ CellValue(e, c, id, b, t, x)
             = Aggregated(c.agg, [i \in InSlice(e, c, id, t) |->
                                    Contribution(c, kept, i, b, CellStartAt(c, id, x))])
        /\ CellValue(d, c, id, b, t, x)
             = Aggregated(c.agg, [i \in InSlice(d, c, id, t) |->
                                    Contribution(c, rows, i, b, CellStartAt(c, id, x))])
    BY <1>13 DEF CellValue, kept, rows
  <2> QED BY <1>8, <1>10, <2>1
<1> QED BY <1>11, <1>12, <1>13

\* A chunk that was read is what the catalogue still gives.
LEMMA ChunkRead ==
    ASSUME CubeInv, chunk.id >= 0
    PROVE  /\ cubec # NoCube /\ chunk.id \in DOMAIN cubec.chunks.ext
           /\ chunk.out = read_chunk(db, cubec, chunk.id)
           /\ ViewOK(cubec.view) /\ cubec.st \in Nat \ {0} /\ cubec.sx \in Nat \ {0}
           /\ cubec.agg \in Aggregations
           /\ cubec.chunks = Chunking(cubec.view, ShapeN(cubec.view), ShapeS(cubec))
<1>1. chunk \notin {NoChunk, Thrown}
  <2>1. NoChunk.id = -1 /\ Thrown.id = -2
    BY DEF NoChunk, Thrown
  <2> HIDE DEF NoChunk, Thrown
  <2> QED BY <2>1
<1>2. ChunkSound /\ CubeSound
  BY DEF CubeInv
<1>3. cubec # NoCube
  BY <1>1, <1>2 DEF ChunkSound
<1> QED BY <1>1, <1>2, <1>3 DEF ChunkSound, CubeSound

LEMMA HitsWithin ==
    ASSUME NEW d, Sound(d), NEW c, ViewOK(c.view), c.st \in Nat \ {0}, c.sx \in Nat \ {0},
           c.chunks = Chunking(c.view, ShapeN(c.view), ShapeS(c)),
           NEW id \in DOMAIN c.chunks.ext, NEW r \in Hits(d, c, id)
    PROVE  /\ r.image \in ImageIds(d)
           /\ d.images[r.image].date \in Int /\ c.view.t0.p <= d.images[r.image].date
           /\ d.images[r.image].left \in Int /\ d.images[r.image].right \in Int
           /\ c.view.win.left <= d.images[r.image].right /\ d.images[r.image].left <= c.view.win.right
<1> DEFINE ext == c.chunks.ext[id]
           m == d.images[r.image]
<1>1. /\ ext.t0.p \in Int /\ ext.t1.p \in Int /\ c.view.t0.p <= ext.t0.p
      /\ ext.left \in Int /\ ext.right \in Int
      /\ c.view.win.left <= ext.left /\ ext.right <= c.view.win.right
  BY ChunkInside
<1>2. c.view.t0.p \in Int /\ c.view.win.left \in Int /\ c.view.win.right \in Int
  <2>1. c.view \in ViewTypes
    BY DEF ViewOK
  <2> QED BY <2>1 DEF ViewTypes, Dates
<1>3. r \in d.refs /\ m.date >= ext.t0.p /\ m.right >= ext.left /\ m.left <= ext.right
  BY DEF Hits, find_range_st
<1>4. r.image \in ImageIds(d) /\ m.date \in Int /\ m.left \in Int /\ m.right \in Int
  BY <1>3 DEF Sound, RefsSound, RefSound, ImagesSound
<1> HIDE DEF ext, m
<1>5. /\ c.view.t0.p <= m.date
      /\ c.view.win.left <= m.right /\ m.left <= c.view.win.right
  BY <1>1, <1>2, <1>3, <1>4
<1> QED BY <1>4, <1>5 DEF m

\* Filters that keep the window, the dates or the bands of a cube do not change what it reads
\* (filter_spatial_range, filter_datetime_range and filter_bands against read_chunk).
THEOREM FiltersTransparent == Spec => []FilterTransparent
<1>1. ASSUME CubeInv PROVE FilterTransparent
  <2> DEFINE c == cubec
             id == chunk.id
             v == cubec.view
  <2> SUFFICES ASSUME id >= 0,
                      NEW d \in ({filter_spatial_range(db, r.left, r.right) :
                        r \in {q \in Ranges : q.left <= v.win.left /\ v.win.right <= q.right}}
                \cup {filter_datetime_range(db, r.from, r.to) :
                        r \in {q \in Ranges : q.from <= v.t0.p /\ map_time(v, nt(v)).p <= q.to}}
                \cup {filter_bands(db, bs) :
                        bs \in {q \in BandSets :
                            q # {} /\ Range(cubec.bands) \cup ({cubec.mask} \ {NoMatch}) \subseteq q}}) \ {db}
               PROVE  SameValues(c, read_chunk(d, c, id), c, chunk.out)
    BY DEF FilterTransparent
  <2>1. /\ id \in DOMAIN c.chunks.ext /\ chunk.out = read_chunk(db, c, id)
        /\ ViewOK(c.view) /\ c.st \in Nat \ {0} /\ c.sx \in Nat \ {0}
        /\ c.chunks = Chunking(c.view, ShapeN(c.view), ShapeS(c))
    BY <1>1, ChunkRead
  <2>2. Sound(db)
    BY <1>1 DEF CubeInv, CollectionInv
  <2>3. \A r \in Hits(db, c, id) :
            /\ r.image \in ImageIds(db)
            /\ db.images[r.image].date \in Int /\ v.t0.p <= db.images[r.image].date
            /\ db.images[r.image].left \in Int /\ db.images[r.image].right \in Int
            /\ v.win.left <= db.images[r.image].right /\ db.images[r.image].left <= v.win.right
    BY <2>1, <2>2, HitsWithin
  <2>4. v.t0.p \in Int /\ v.win.left \in Int /\ v.win.right \in Int
    <3>1. c.view \in ViewTypes
      BY <2>1 DEF ViewOK
    <3> QED BY <3>1 DEF ViewTypes, Dates
  <2>5. \A q \in Ranges : q.from \in Int /\ q.left \in Int /\ q.right \in Int
    BY CubeAssumption
  <2>6. ASSUME NEW r \in Ranges, r.left <= v.win.left, v.win.right <= r.right,
               d = filter_spatial_range(db, r.left, r.right)
        PROVE  \A b, t, x : CellValue(d, c, id, b, t, x) = CellValue(db, c, id, b, t, x)
    <3> DEFINE keep == {i \in ImageIds(db) : db.images[i].right >= r.left /\ db.images[i].left <= r.right}
    <3>1. d = WithImages(db, keep) /\ keep \in SUBSET ImageIds(db)
      BY <2>6 DEF filter_spatial_range
    <3>2. \A q \in Hits(db, c, id) : q.image \in keep
      BY <2>3, <2>4, <2>5, <2>6
    <3> HIDE DEF keep
    <3> QED BY <2>2, <3>1, <3>2, KeptHits
  <2>7. ASSUME NEW r \in Ranges, r.from <= v.t0.p, d = filter_datetime_range(db, r.from, r.to)
        PROVE  \A b, t, x : CellValue(d, c, id, b, t, x) = CellValue(db, c, id, b, t, x)
    <3> DEFINE keep == {i \in ImageIds(db) : db.images[i].date >= r.from}
    <3>1. d = WithImages(db, keep) /\ keep \in SUBSET ImageIds(db)
      BY <2>7 DEF filter_datetime_range
    <3>2. \A q \in Hits(db, c, id) : q.image \in keep
      BY <2>3, <2>4, <2>5, <2>7
    <3> HIDE DEF keep
    <3> QED BY <2>2, <3>1, <3>2, KeptHits
  <2>8. ASSUME NEW bs \in BandSets, Range(c.bands) \cup ({c.mask} \ {NoMatch}) \subseteq bs, d = filter_bands(db, bs)
        PROVE  \A k \in DOMAIN c.bands : \A t, x :
                  CellValue(d, c, id, c.bands[k], t, x) = CellValue(db, c, id, c.bands[k], t, x)
    <3>1. d = WithBands(db, db.bands \cap bs)
      BY <2>8 DEF filter_bands
    <3> SUFFICES ASSUME NEW k \in DOMAIN c.bands, NEW t, NEW x
                 PROVE  CellValue(d, c, id, c.bands[k], t, x) = CellValue(db, c, id, c.bands[k], t, x)
      OBVIOUS
    <3>2. c.bands[k] \in Range(c.bands)
      BY DEF Range
    <3>3. Range(c.bands) \subseteq bs /\ (c.mask = NoMatch \/ c.mask \in bs)
      BY <2>8
    <3> HIDE DEF c, id
    <3>4. PICK b : b = c.bands[k]
      OBVIOUS
    <3>5. CellValue(WithBands(db, db.bands \cap bs), c, id, b, t, x) = CellValue(db, c, id, b, t, x)
      BY <2>2, <3>2, <3>3, <3>4, KeptBands
    <3> QED BY <3>1, <3>4, <3>5
  <2>9. \A k \in DOMAIN c.bands : \A t, x :
            CellValue(d, c, id, c.bands[k], t, x) = CellValue(db, c, id, c.bands[k], t, x)
    BY <2>6, <2>7, <2>8
  <2>10. \A k \in DOMAIN c.bands, l \in DOMAIN c.bands : \A t, x :
            c.bands[k] = c.bands[l] =>
                CellValue(d, c, id, c.bands[k], t, x) = CellValue(db, c, id, c.bands[l], t, x)
    BY <2>9
  <2> HIDE DEF c, id
  <2>11. SameValues(c, read_chunk(d, c, id), c, read_chunk(db, c, id))
    BY <2>10, SameWhen
  <2> QED BY <2>1, <2>11
<1> QED BY <1>1, InvAlways, PTL

-------------------------------------------------------------------------------
\* Images without data are passed over.

\* The aggregations that count images, or take the last one whatever it has, are not among them.
Passes(a) == a \notin {"count_images", "count_values", "none"}

LEMMA UpdatePasses ==
    ASSUME NEW a, Passes(a), NEW st
    PROVE  update(a, st, NaN) = st
<1>1. a # "count_images" /\ a # "count_values" /\ a # "none"
  BY DEF Passes
<1> QED BY <1>1, Zenon DEF update

LEMMA PassedOver ==
    ASSUME NEW a, Passes(a), NEW f, NEW g, DOMAIN f \in SUBSET Int, IsFiniteSet(DOMAIN f),
           DOMAIN g \in SUBSET DOMAIN f, \A i \in DOMAIN g : g[i] = f[i],
           \A i \in (DOMAIN f) \ (DOMAIN g) : f[i] = NaN
    PROVE  Aggregated(a, f) = Aggregated(a, g)
<1> DEFINE S == DOMAIN f
           T == DOMAIN g
           F == ImageFold(a, f, S)
           G == ImageFold(a, g, T)
           Bad(n) == \E s \in SUBSET S : Cardinality(s) = n /\ F[s] # G[s \cap T]
           B == {n \in Nat : Bad(n)}
<1>1. S \in SUBSET Int /\ IsFiniteSet(S) /\ T \in SUBSET S /\ T \in SUBSET Int /\ IsFiniteSet(T)
  BY FS_Subset
<1>2. /\ \A s \in SUBSET S : F[s] = ImageEquation(a, f, F, s)
      /\ \A s \in SUBSET T : G[s] = ImageEquation(a, g, G, s)
  BY <1>1, ImageFoldIs
<1>3. /\ Aggregated(a, f) = finalize(a, F[S])
      /\ Aggregated(a, g) = finalize(a, G[T])
  BY AggregatedIs
<1> HIDE DEF F, G
<1>4. SUFFICES B = {}
  <2>1. ASSUME B = {} PROVE F[S] = G[T]
    <3>1. Cardinality(S) \in Nat /\ S \cap T = T /\ S \in SUBSET S
      BY <1>1, FS_CardinalityType
    <3> HIDE DEF S, T
    <3> QED BY <2>1, <3>1
  <2> QED BY <1>3, <2>1
<1>5. SUFFICES ASSUME B # {} PROVE FALSE
  OBVIOUS
<1>6. PICK k \in B : \A l \in B : k <= l
  <2>1. B \in SUBSET Nat
    OBVIOUS
  <2> HIDE DEF B
  <2> QED BY <1>5, <2>1, LeastMember
<1>7. PICK s \in SUBSET S : Cardinality(s) = k /\ F[s] # G[s \cap T]
  BY <1>6
<1>8. CASE s = {}
  <2>1. s \cap T = {} /\ {} \in SUBSET S /\ {} \in SUBSET T
    BY <1>8
  <2>2. F[{}] = Start /\ G[{}] = Start
    BY <1>2, <2>1 DEF ImageEquation
  <2> QED BY <1>7, <1>8, <2>1, <2>2
<1>9. CASE s # {}
  <2> DEFINE m == Max(s)
             r == s \ {m}
             u == s \cap T
  <2>1. /\ m \in s /\ r \in SUBSET S /\ \A i \in s : i <= m
        /\ Cardinality(s) \in Nat \ {0} /\ Cardinality(r) = Cardinality(s) - 1
    BY <1>1, <1>9, OneImageLess
  <2>2. F[s] = update(a, F[r], f[m])
    BY <1>2, <1>9 DEF ImageEquation
  <2> HIDE DEF m
  <2>3. F[r] = G[r \cap T]
    <3>1. k - 1 \in Nat /\ ~ (k - 1 \in B)
      BY <1>6, <1>7, <2>1
    <3>2. Cardinality(r) = k - 1
      BY <1>7, <2>1
    <3> HIDE DEF r
    <3> QED BY <2>1, <3>1, <3>2
  <2>4. CASE m \in T
    <3>1. u # {} /\ u \in SUBSET T /\ m \in u
      BY <2>1, <2>4
    <3>2. Max(u) \in u /\ \A i \in u : i <= Max(u)
      BY <1>1, <3>1, OneImageLess
    <3>3. Max(u) = m
      <4>1. Max(u) \in s /\ Max(u) \in Int /\ m \in Int
        BY <1>1, <2>1, <3>2
      <4>2. m <= Max(u) /\ Max(u) <= m
        BY <2>1, <3>1, <3>2, <4>1
      <4> QED BY <4>1, <4>2
    <3>4. u \ {m} = r \cap T
      OBVIOUS
    <3>5. G[u] = update(a, G[u \ {Max(u)}], g[Max(u)])
      BY <1>2, <3>1 DEF ImageEquation
    <3>6. g[m] = f[m]
      BY <2>4
    <3> QED BY <1>7, <2>2, <2>3, <3>3, <3>4, <3>5, <3>6
  <2>5. CASE m \notin T
    <3>1. u = r \cap T
      BY <2>5
    <3>2. f[m] = NaN
      BY <2>1, <2>5
    <3>3. update(a, F[r], f[m]) = F[r]
      BY <3>2, UpdatePasses
    <3> QED BY <1>7, <2>2, <2>3, <3>1, <3>3
  <2> QED BY <2>4, <2>5
<1> QED BY <1>8, <1>9

\* Images of a slice are images of the catalogue.
LEMMA SliceImages ==
    ASSUME NEW d, Sound(d), NEW c, NEW id, NEW t
    PROVE  /\ InSlice(d, c, id, t) \in SUBSET Int /\ IsFiniteSet(InSlice(d, c, id, t))
<1>1. IsFiniteSet(ImageIds(d)) /\ ImageIds(d) \subseteq Nat \ {0}
  BY DEF Sound, ImagesSound
<1>2. \A r \in d.refs : r.image \in ImageIds(d)
  BY DEF Sound, RefsSound, RefSound
<1>3. \A r \in Hits(d, c, id) : r \in d.refs
  BY DEF Hits, find_range_st
<1>4. InSlice(d, c, id, t) \subseteq {r.image : r \in Hits(d, c, id)}
  BY DEF InSlice, ImagesIn, Hits
<1>5. InSlice(d, c, id, t) \subseteq ImageIds(d)
  BY <1>2, <1>3, <1>4
<1> QED BY <1>1, <1>5, FS_Subset

-------------------------------------------------------------------------------
\* A cube with other bands.

\* Cubes that differ in their bands, and in how their views are written.
Alike(c, e) ==
    /\ c.chunks = e.chunks /\ c.view.dt = e.view.dt /\ CellWidth(c.view) = CellWidth(e.view)
    /\ c.agg = e.agg /\ c.mask = e.mask /\ c.maskvalues = e.maskvalues
    /\ c.invert = e.invert /\ c.range = e.range

LEMMA WithoutBand ==
    ASSUME NEW c, NEW rows, NEW i, NEW b, NEW x, {r \in rows : r.image = i /\ r.band = b} = {}
    PROVE  Contribution(c, rows, i, b, x) = NaN
<1> DEFINE of(k) == {r \in rows : r.image = i /\ r.band = k}
           value == IF of(b) = {} THEN NaN ELSE Pixel((CHOOSE r \in of(b) : TRUE).file, b, x)
           hidden == /\ c.mask # NoMatch /\ of(c.mask) # {}
                     /\ Masked(c, Pixel((CHOOSE r \in of(c.mask) : TRUE).file, c.mask, x))
<1>1. Contribution(c, rows, i, b, x) = IF hidden THEN NaN ELSE value
  BY DEF Contribution
<1>2. value = NaN
  OBVIOUS
<1> HIDE DEF value, hidden
<1> QED BY <1>1, <1>2

LEMMA InSliceIs ==
    ASSUME NEW d, NEW c, NEW id, NEW t, NEW i
    PROVE  i \in InSlice(d, c, id, t) <=>
              /\ \E q \in Hits(d, c, id) : q.image = i /\ q.band \in Range(c.bands)
              /\ slice_of(c.view, c.chunks.ext[id], d.images[i].date) \in 0..(c.chunks.size[id].t - 1)
              /\ slice_of(c.view, c.chunks.ext[id], d.images[i].date) = t
<1> DEFINE in(j) == slice_of(c.view, c.chunks.ext[id], d.images[j].date)
           of == {r.image : r \in {q \in Hits(d, c, id) : q.band \in Range(c.bands)}}
<1>1. InSlice(d, c, id, t) = {j \in {k \in of : in(k) \in 0..(c.chunks.size[id].t - 1)} : in(j) = t}
  BY DEF InSlice, ImagesIn, Hits
<1>2. i \in of <=> \E q \in Hits(d, c, id) : q.image = i /\ q.band \in Range(c.bands)
  OBVIOUS
<1> HIDE DEF of, in
<1>3. i \in InSlice(d, c, id, t) <=> i \in of /\ in(i) \in 0..(c.chunks.size[id].t - 1) /\ in(i) = t
  BY <1>1
<1> QED BY <1>2, <1>3 DEF in

ReadAlike(d, c, e, id) ==
    /\ Hits(d, c, id) = Hits(d, e, id)
    /\ \A x : CellStartAt(c, id, x) = CellStartAt(e, id, x)
    /\ \A date : slice_of(c.view, c.chunks.ext[id], date) = slice_of(e.view, e.chunks.ext[id], date)
    /\ \A rows, i, b, x : Contribution(c, rows, i, b, x) = Contribution(e, rows, i, b, x)

LEMMA AlikeReads ==
    ASSUME NEW d, NEW c, NEW e, Alike(c, e), NEW id
    PROVE  ReadAlike(d, c, e, id)
<1>1. Hits(d, c, id) = Hits(d, e, id) /\ \A x : CellStartAt(c, id, x) = CellStartAt(e, id, x)
  BY DEF Alike, Hits, CellStartAt
<1>2. \A date : slice_of(c.view, c.chunks.ext[id], date) = slice_of(e.view, e.chunks.ext[id], date)
  BY DEF Alike, slice_of
<1>3. c.mask = e.mask /\ \A m : Masked(c, m) <=> Masked(e, m)
  BY DEF Alike, Masked
<1>4. ASSUME NEW rows, NEW i, NEW b, NEW x
      PROVE  Contribution(c, rows, i, b, x) = Contribution(e, rows, i, b, x)
  <2> DEFINE of(k) == {r \in rows : r.image = i /\ r.band = k}
             value == IF of(b) = {} THEN NaN ELSE Pixel((CHOOSE r \in of(b) : TRUE).file, b, x)
             hidden(z) == /\ z.mask # NoMatch /\ of(z.mask) # {}
                          /\ Masked(z, Pixel((CHOOSE r \in of(z.mask) : TRUE).file, z.mask, x))
  <2>1. /\ Contribution(c, rows, i, b, x) = IF hidden(c) THEN NaN ELSE value
        /\ Contribution(e, rows, i, b, x) = IF hidden(e) THEN NaN ELSE value
    BY DEF Contribution
  <2> HIDE DEF of
  <2>2. hidden(c) <=> hidden(e)
    BY <1>3
  <2> HIDE DEF hidden, value
  <2> QED BY <2>1, <2>2
<1> QED BY <1>1, <1>2, <1>4 DEF ReadAlike

LEMMA OtherBands ==
    ASSUME NEW d, Sound(d), NEW c, NEW e, Alike(c, e), NEW id, NEW t, NEW x,
           NEW b, b \in Range(c.bands), b \in Range(e.bands),
           Passes(c.agg) \/ Range(c.bands) = Range(e.bands)
    PROVE  CellValue(d, c, id, b, t, x) = CellValue(d, e, id, b, t, x)
<1> DEFINE rows == Hits(d, c, id)
           C(i) == Contribution(c, rows, i, b, CellStartAt(c, id, x))
           S == InSlice(d, c, id, t)
           T == InSlice(d, e, id, t)
           f == [i \in S |-> C(i)]
           g == [i \in T |-> C(i)]
           h == [i \in S \cap T |-> C(i)]
<1>1. /\ rows = Hits(d, e, id) /\ CellStartAt(c, id, x) = CellStartAt(e, id, x)
      /\ \A date : slice_of(c.view, c.chunks.ext[id], date) = slice_of(e.view, e.chunks.ext[id], date)
      /\ \A r, i, k, y : Contribution(c, r, i, k, y) = Contribution(e, r, i, k, y)
  <2>1. ReadAlike(d, c, e, id)
    BY AlikeReads
  <2> QED BY <2>1 DEF ReadAlike
<1>2. c.agg = e.agg /\ c.chunks = e.chunks
  BY DEF Alike
<1>3. \A i : i \in S <=>
              /\ \E q \in rows : q.image = i /\ q.band \in Range(c.bands)
              /\ slice_of(c.view, c.chunks.ext[id], d.images[i].date) \in 0..(c.chunks.size[id].t - 1)
              /\ slice_of(c.view, c.chunks.ext[id], d.images[i].date) = t
  BY InSliceIs
<1>4. \A i : i \in T <=>
              /\ \E q \in rows : q.image = i /\ q.band \in Range(e.bands)
              /\ slice_of(c.view, c.chunks.ext[id], d.images[i].date) \in 0..(c.chunks.size[id].t - 1)
              /\ slice_of(c.view, c.chunks.ext[id], d.images[i].date) = t
  <2>1. \A i : i \in T <=>
              /\ \E q \in Hits(d, e, id) : q.image = i /\ q.band \in Range(e.bands)
              /\ slice_of(e.view, e.chunks.ext[id], d.images[i].date) \in 0..(e.chunks.size[id].t - 1)
              /\ slice_of(e.view, e.chunks.ext[id], d.images[i].date) = t
    BY InSliceIs
  <2> HIDE DEF rows, T
  <2>2. \A i : slice_of(e.view, e.chunks.ext[id], d.images[i].date)
                  = slice_of(c.view, c.chunks.ext[id], d.images[i].date)
    BY <1>1
  <2> QED BY <1>1, <1>2, <2>1, <2>2
<1>5. /\ CellValue(d, c, id, b, t, x) = IF rows = {} THEN NaN ELSE Aggregated(c.agg, f)
      /\ CellValue(d, e, id, b, t, x) = IF rows = {} THEN NaN ELSE Aggregated(c.agg, g)
  <2>1. \A i : Contribution(e, rows, i, b, CellStartAt(e, id, x)) = C(i)
    BY <1>1
  <2>2. CellValue(d, c, id, b, t, x) = IF rows = {} THEN NaN ELSE Aggregated(c.agg, f)
    BY DEF CellValue
  <2>3. CellValue(d, e, id, b, t, x) = IF rows = {} THEN NaN
            ELSE Aggregated(c.agg, [i \in T |-> Contribution(e, rows, i, b, CellStartAt(e, id, x))])
    BY <1>1, <1>2 DEF CellValue
  <2> HIDE DEF rows, C, T, f
  <2> QED BY <2>1, <2>2, <2>3
<1>6. CASE Range(c.bands) = Range(e.bands)
  <2>1. S = T
    <3> HIDE DEF S, T, rows
    <3> QED BY <1>3, <1>4, <1>6
  <2> HIDE DEF S, T, rows, C
  <2> QED BY <1>5, <2>1
<1>7. CASE Passes(c.agg)
  <2>1. S \in SUBSET Int /\ IsFiniteSet(S) /\ T \in SUBSET Int /\ IsFiniteSet(T)
    BY SliceImages
  <2>2. \A i : {q \in rows : q.image = i /\ q.band = b} = {} => C(i) = NaN
    BY WithoutBand
  <2> HIDE DEF rows, C, S, T
  <2>3. \A i : (i \in S /\ i \notin T) \/ (i \in T /\ i \notin S)
                  => {q \in rows : q.image = i /\ q.band = b} = {}
    BY <1>3, <1>4
  <2>4. (\A i \in S \ T : C(i) = NaN) /\ \A i \in T \ S : C(i) = NaN
    BY <2>2, <2>3
  <2>5. /\ DOMAIN f = S /\ DOMAIN g = T /\ DOMAIN h = S \cap T
        /\ (\A i \in S : f[i] = C(i)) /\ (\A i \in T : g[i] = C(i)) /\ \A i \in S \cap T : h[i] = C(i)
    OBVIOUS
  <2> HIDE DEF f, g, h
  <2>6. Aggregated(c.agg, f) = Aggregated(c.agg, h)
    <3>1. /\ DOMAIN f \in SUBSET Int /\ IsFiniteSet(DOMAIN f) /\ DOMAIN h \in SUBSET DOMAIN f
          /\ \A i \in DOMAIN h : h[i] = f[i]
          /\ \A i \in (DOMAIN f) \ (DOMAIN h) : f[i] = NaN
      BY <2>1, <2>4, <2>5
    <3> QED BY <1>7, <3>1, PassedOver
  <2>7. Aggregated(c.agg, g) = Aggregated(c.agg, h)
    <3>1. /\ DOMAIN g \in SUBSET Int /\ IsFiniteSet(DOMAIN g) /\ DOMAIN h \in SUBSET DOMAIN g
          /\ \A i \in DOMAIN h : h[i] = g[i]
          /\ \A i \in (DOMAIN g) \ (DOMAIN h) : g[i] = NaN
      BY <2>1, <2>4, <2>5
    <3> QED BY <1>7, <3>1, PassedOver
  <2> QED BY <1>5, <2>6, <2>7
<1> QED BY <1>6, <1>7

-------------------------------------------------------------------------------
\* The cube on a server.

\* A view whose cells begin with its unit is read as it was written, but for the units of its dates.
LEMMA RewrittenAligned ==
    ASSUME NEW v, ViewOK(v), Aligned(v)
    PROVE  LET w == rewritten(v)
           IN  /\ w.win = v.win /\ w.nx = v.nx /\ w.dt = v.dt /\ nt(w) = nt(v)
               /\ \A k : map_time(w, k) = map_time(v, k)
<1> DEFINE w == rewritten(v)
<1>1. w.win = v.win /\ w.nx = v.nx /\ w.dt = v.dt /\ w.t0 = Date(Written(v.t0), v.dt.unit) /\ nt(w) = nt(v)
  BY Rewritten
<1>2. v.t0 = Date(v.t0.p, v.t0.unit) /\ v.dt.unit \in Units
  <2>1. v \in ViewTypes
    BY DEF ViewOK
  <2> QED BY <2>1 DEF ViewTypes, Dates, Date
<1>3. v.t0.unit = v.dt.unit \/ v.t0.unit = "tick"
  BY DEF ViewOK
<1>4. Written(v.t0) = v.t0.p
  <2>1. CASE v.t0.unit \in {"tick", "week"}
    BY <1>2, <2>1, WrittenIs
  <2>2. CASE v.t0.unit \notin {"tick", "week"}
    <3>1. v.t0.unit = v.dt.unit
      BY <1>3, <2>2
    <3>2. Written(Date(v.t0.p, v.dt.unit)) = v.t0.p
      BY <2>2, <3>1 DEF Aligned
    <3> QED BY <1>2, <3>1, <3>2
  <2> QED BY <2>1, <2>2
<1>5. w.t0.p = v.t0.p
  BY <1>1, <1>4 DEF Date
<1>6. ASSUME NEW k PROVE map_time(w, k) = map_time(v, k)
  <2> DEFINE d == Times(v.dt, k)
  <2>1. map_time(w, k) = Plus(w.t0, d) /\ map_time(v, k) = Plus(v.t0, d)
    BY <1>1 DEF map_time
  <2>2. /\ Plus(w.t0, d) = Date(Later(w.t0.p, d.interval, d.unit), d.unit)
        /\ Plus(v.t0, d) = Date(Later(v.t0.p, d.interval, d.unit), d.unit)
    BY PlusIs
  <2> HIDE DEF d
  <2> QED BY <1>5, <2>1, <2>2
<1> QED BY <1>1, <1>6

LEMMA SameChunking ==
    ASSUME NEW v, NEW w, w.win = v.win, w.nx = v.nx, nt(w) = nt(v),
           \A k : map_time(w, k) = map_time(v, k), NEW s
    PROVE  /\ CellWidth(w) = CellWidth(v) /\ ShapeN(w) = ShapeN(v)
           /\ Chunking(w, ShapeN(w), s) = Chunking(v, ShapeN(v), s)
<1>1. CellWidth(w) = CellWidth(v) /\ ShapeN(w) = ShapeN(v)
  BY DEF CellWidth, ShapeN
<1>2. \A b : chunk_extent(w, b) = chunk_extent(v, b)
  BY <1>1 DEF chunk_extent
<1>3. PICK n : n = ShapeN(v)
  OBVIOUS
<1>4. Chunking(w, n, s) = Chunking(v, n, s)
  BY <1>2 DEF Chunking
<1> QED BY <1>1, <1>3, <1>4

LEMMA CubeFields ==
    ASSUME NEW v, NEW bands, NEW s
    PROVE  LET r == Cube(v, bands, s)
           IN  /\ r.view = v /\ r.bands = bands /\ r.agg = s.agg /\ r.mask = s.mask
               /\ r.maskvalues = s.maskvalues /\ r.invert = s.invert /\ r.range = s.range
               /\ r.st = s.st /\ r.sx = s.sx
               /\ r.chunks = Chunking(v, ShapeN(v), ShapeS(s))
BY DEF Cube

\* A server that is sent a cube as JSON reads the chunks of the cube: the file that the JSON
\* names is the catalogue (write, and every statement after it), its view has the same cells
\* (write_json and read), and bands that only one of the cubes has leave the others alone.
THEOREM RemoteReads == Spec => []RemoteAgrees
<1>1. ASSUME CubeInv PROVE RemoteAgrees
  <2> DEFINE c == cubec
             id == chunk.id
             avail == get_available_bands(db)
             w == rewritten(cubec.view)
             r == Cube(w, avail, c)
  <2>1. SUFFICES ASSUME id >= 0, filename # Temporary, ~ unwritten, Aligned(c.view)
                 PROVE  LET q == RemoteCube
                        IN  /\ q.bands = get_available_bands(db)
                            /\ DOMAIN q.chunks.ext = DOMAIN c.chunks.ext
                            /\ (Values(c) \/ Range(q.bands) = Range(c.bands)) =>
                                SameValues(c, chunk.out, q, read_chunk(saved[filename], q, id))
    BY DEF RemoteAgrees
  <2>2. Sound(db) /\ saved[filename] = db
    <3>1. Sound(db) /\ HandleSound
      BY <1>1 DEF CubeInv, CollectionInv
    <3>2. handle = filename /\ filename \in FileNames
      BY <2>1, <3>1 DEF HandleSound
    <3> QED BY <3>1, <3>2 DEF HandleSound
  <2>3. RemoteCube = r
    BY <2>2 DEF RemoteCube
  <2>4. /\ id \in DOMAIN c.chunks.ext /\ chunk.out = read_chunk(db, c, id)
        /\ ViewOK(c.view)
        /\ c.chunks = Chunking(c.view, ShapeN(c.view), ShapeS(c))
    BY <1>1, <2>1, ChunkRead
  <2>5. /\ r.view = w /\ r.bands = avail /\ r.agg = c.agg /\ r.mask = c.mask
        /\ r.maskvalues = c.maskvalues /\ r.invert = c.invert /\ r.range = c.range
        /\ r.chunks = Chunking(w, ShapeN(w), ShapeS(c))
    BY CubeFields
  <2>6. /\ w.win = c.view.win /\ w.nx = c.view.nx /\ w.dt = c.view.dt /\ nt(w) = nt(c.view)
        /\ \A k : map_time(w, k) = map_time(c.view, k)
    BY <2>1, <2>4, RewrittenAligned
  <2> HIDE DEF w
  <2>7. CellWidth(w) = CellWidth(c.view) /\ r.chunks = c.chunks
    <3>1. PICK s : s = ShapeS(c)
      OBVIOUS
    <3>2. PICK v : v = c.view
      OBVIOUS
    <3>3. w.win = v.win /\ w.nx = v.nx /\ nt(w) = nt(v) /\ \A k : map_time(w, k) = map_time(v, k)
      BY <2>6, <3>2
    <3>4. CellWidth(w) = CellWidth(v) /\ Chunking(w, ShapeN(w), s) = Chunking(v, ShapeN(v), s)
      BY <3>3, SameChunking
    <3> QED BY <2>4, <2>5, <3>1, <3>2, <3>4
  <2>8. Alike(c, r)
    BY <2>5, <2>6, <2>7 DEF Alike
  <2> HIDE DEF r, c, id, avail
  <2>9. ASSUME Values(c) \/ Range(r.bands) = Range(c.bands)
        PROVE  SameValues(c, read_chunk(db, c, id), r, read_chunk(db, r, id))
    <3>1. Passes(c.agg) \/ Range(c.bands) = Range(r.bands)
      BY <2>9 DEF Values, Passes
    <3>2. ASSUME NEW k \in DOMAIN c.bands, NEW l \in DOMAIN r.bands, NEW t, NEW x, c.bands[k] = r.bands[l]
          PROVE  CellValue(db, c, id, c.bands[k], t, x) = CellValue(db, r, id, r.bands[l], t, x)
      <4>1. PICK b : b = c.bands[k]
        OBVIOUS
      <4>2. b \in Range(c.bands) /\ b \in Range(r.bands) /\ b = r.bands[l]
        BY <3>2, <4>1 DEF Range
      <4>3. CellValue(db, c, id, b, t, x) = CellValue(db, r, id, b, t, x)
        BY <2>2, <2>8, <3>1, <4>2, OtherBands
      <4> QED BY <4>1, <4>2, <4>3
    <3>3. c.chunks.size[id] = r.chunks.size[id]
      BY <2>7
    <3>4. \A k \in DOMAIN c.bands, l \in DOMAIN r.bands : \A t, x :
              c.bands[k] = r.bands[l] =>
                  CellValue(db, c, id, c.bands[k], t, x) = CellValue(db, r, id, r.bands[l], t, x)
      BY <3>2
    <3> QED BY <3>3, <3>4, SameWhen
  <2>10. r.bands = get_available_bands(db)
    BY <2>5 DEF avail
  <2> QED BY <2>2, <2>3, <2>4, <2>7, <2>9, <2>10
<1> QED BY <1>1, InvAlways, PTL

-------------------------------------------------------------------------------
\* Units counted from the beginning of a cell.

\* Months after the start of one.
LEMMA StartLater ==
    ASSUME NEW m \in Int, NEW k \in Int
    PROVE  AddMonths(MonthStart(m), k) = MonthStart(m + k)
<1> DEFINE p == MonthStart(m)
<1>1. p \in Int /\ Month(p) = m /\ p % TicksPerDay = 0
  BY StartOfMonth
<1>2. Day(p - p) = 0
  <2>1. p - p = 0
    BY <1>1
  <2>2. 0 \div TicksPerDay = 0
    BY Calendar
  <2> QED BY <2>1, <2>2 DEF Day
<1>3. m + k \in Int /\ MonthStart(m + k) \in Int /\ LengthOf(m + k) \in Nat \ {0}
  BY StartOfMonth, FirstDayType
<1>4. AddMonths(p, k) = DayOfMonth(m + k, 0) + 0
  BY <1>1, <1>2 DEF AddMonths
<1>5. DayOfMonth(m + k, 0) = MonthStart(m + k) + 0 * TicksPerDay
  BY <1>3 DEF DayOfMonth, LengthOf
<1>6. 0 * TicksPerDay = 0
  BY Calendar
<1> QED BY <1>3, <1>4, <1>5, <1>6

\* A date at the beginning of a unit; weeks count from the first date, and need the beginning of a day.
StartOf(q, u) ==
    /\ u = "week" => q % TicksPerDay = 0
    /\ u \in {"day", "month", "year"} => Written(Date(q, u)) = q

\* Units later it is the beginning of a unit again.
LEMMA StartsAgain ==
    ASSUME NEW u \in {"day", "month", "year"}, NEW q \in Int, StartOf(q, u), NEW n \in Nat
    PROVE  Written(Date(Later(q, n, u), u)) = Later(q, n, u)
<1>1. Day(q) \in Int /\ Month(q) \in Int /\ Year(q) \in Int
  BY DayInMonth, MonthOfYearIs
<1>2. CASE u = "day"
  <2>1. q = Day(q) * TicksPerDay
    BY <1>2, WrittenIs DEF StartOf
  <2>2. Later(q, n, u) = q + n * TicksPerDay /\ Day(q + n * TicksPerDay) = Day(q) + n
    BY <1>2, LaterIs, AddedDays
  <2>3. (Day(q) + n) * TicksPerDay = Day(q) * TicksPerDay + n * TicksPerDay
    BY <1>1, Calendar
  <2>4. Written(Date(Later(q, n, u), u)) = Day(Later(q, n, u)) * TicksPerDay
    BY <1>2, WrittenIs
  <2> QED BY <2>1, <2>2, <2>3, <2>4
<1>3. CASE u = "month"
  <2>1. q = MonthStart(Month(q))
    BY <1>3, WrittenIs DEF StartOf
  <2>2. PICK m \in Int : m = Month(q)
    BY <1>1
  <2>3. Later(q, n, u) = AddMonths(MonthStart(m), n)
    BY <1>3, <2>1, <2>2, LaterIs
  <2>4. Later(q, n, u) = MonthStart(m + n)
    BY <2>3, StartLater
  <2>5. m + n \in Int
    OBVIOUS
  <2>6. Month(MonthStart(m + n)) = m + n
    BY <2>5, StartOfMonth
  <2> QED BY <1>3, <2>4, <2>6, WrittenIs
<1>4. CASE u = "year"
  <2>1. q = MonthStart(Year(q) * Months)
    BY <1>4, WrittenIs DEF StartOf
  <2>2. PICK y \in Int : y = Year(q)
    BY <1>1
  <2>3. PICK m \in Int, k \in Int : m = y * Months /\ k = n * Months
    BY StartOfYear
  <2>4. Later(q, n, u) = AddMonths(MonthStart(m), k)
    BY <1>4, <2>1, <2>2, <2>3, LaterIs
  <2>5. Later(q, n, u) = MonthStart(m + k)
    BY <2>4, StartLater
  <2>6. m + k \in Int /\ m + k = (y + n) * Months /\ y + n \in Int
    BY <2>3, Calendar
  <2>7. Year(MonthStart(m + k)) = (m + k) \div Months
    BY <2>6, StartOfMonth
  <2>8. (m + k) \div Months = y + n
    BY <2>6, StartOfYear
  <2> QED BY <1>4, <2>5, <2>6, <2>7, <2>8, WrittenIs
<1> QED BY <1>2, <1>3, <1>4

\* Dates at least n units after the beginning of one do not lie before the date n units later.
LEMMA UnitsAfter ==
    ASSUME NEW u \in Units, NEW q \in Int, StartOf(q, u), NEW n \in Nat, NEW p \in Int, q <= p, Diff(p, q, u) >= n
    PROVE  Later(q, n, u) <= p
<1> DEFINE m == Later(q, n, u)
<1>1. m \in Int /\ m >= q /\ Diff(m, q, u) = n
  <2>1. Diff(q, q, u) = 0
    BY DiffSelf
  <2>2. q <= q
    OBVIOUS
  <2>3. m \in Int /\ m >= q /\ Diff(m, q, u) = Diff(q, q, u) + n
    BY <2>2, LaterDiff
  <2> HIDE DEF m
  <2> QED BY <2>1, <2>3
<1> HIDE DEF m
<1>2. SUFFICES ASSUME p < m PROVE FALSE
  BY <1>1 DEF m
<1>3. Diff(p, q, u) = n
  <2>1. Diff(p, q, u) \in Nat /\ Diff(p, q, u) <= Diff(m, q, u)
    BY <1>1, <1>2, DiffOrder
  <2> QED BY <1>1, <2>1
<1>4. /\ Day(p) \in Int /\ Month(p) \in Int /\ Year(p) \in Int /\ Day(q) \in Int /\ Month(q) \in Int
      /\ Year(q) \in Int /\ Day(m) \in Int /\ Month(m) \in Int /\ Year(m) \in Int
      /\ Day(q) <= Day(p) /\ Day(q) <= Day(m)
  BY <1>1, DayInMonth, MonthOfYearIs, LaterMonth
<1>5. CASE u = "tick"
  BY <1>1, <1>2, <1>3, <1>5, DiffIs
<1>6. CASE u \in {"day", "month", "year"}
  <2>1. Written(Date(m, u)) = m
    BY <1>6, StartsAgain DEF m
  <2>2. Written(Date(p, u)) = Written(Date(m, u))
    <3>1. u = "day" => Day(p) = Day(m)
      <4>1. u = "day" => Diff(p, q, u) = Day(p) - Day(q) /\ Diff(m, q, u) = Day(m) - Day(q)
        BY DiffIs
      <4> QED BY <1>1, <1>3, <1>4, <4>1
    <3>2. u = "month" => Month(p) = Month(m)
      <4>1. u = "month" => Diff(p, q, u) = Month(p) - Month(q) /\ Diff(m, q, u) = Month(m) - Month(q)
        BY DiffIs
      <4> QED BY <1>1, <1>3, <1>4, <4>1
    <3>3. u = "year" => Year(p) = Year(m)
      <4>1. u = "year" => Diff(p, q, u) = Year(p) - Year(q) /\ Diff(m, q, u) = Year(m) - Year(q)
        BY DiffIs
      <4> QED BY <1>1, <1>3, <1>4, <4>1
    <3> QED BY <1>6, <3>1, <3>2, <3>3, WrittenIs
  <2>3. Written(Date(p, u)) <= p
    BY WrittenBefore
  <2> QED BY <1>1, <1>2, <2>1, <2>2, <2>3
<1>7. CASE u = "week"
  <2> DEFINE a == Day(p) - Day(q)
             b == Day(m) - Day(q)
             w == n * DaysPerWeek
  <2>1. a \in Nat /\ b \in Nat /\ w \in Nat
    BY <1>4, Calendar, SMT
  <2>2. a \div DaysPerWeek = n
    <3>1. Diff(p, q, u) = Quot(a, DaysPerWeek)
      BY <1>7, DiffIs
    <3> HIDE DEF a
    <3> QED BY <1>3, <2>1, <3>1, Calendar, QuotOfNat
  <2>3. m = q + w * TicksPerDay
    BY <1>7, LaterIs DEF m
  <2>4. Day(m) = Day(q) + w /\ m % TicksPerDay = 0
    <3> HIDE DEF w
    <3>1. Day(q + w * TicksPerDay) = Day(q) + w
      BY <2>1, AddedDays
    <3>2. (q + w * TicksPerDay) % TicksPerDay = q % TicksPerDay
      <4>1. q \in Int /\ w \in Int /\ TicksPerDay \in Nat \ {0}
        BY <2>1, Calendar
      <4> QED BY <4>1, DivPlus, Zenon
    <3>3. q % TicksPerDay = 0
      BY <1>7 DEF StartOf
    <3> QED BY <2>3, <3>1, <3>2, <3>3
  <2>5. w <= a
    <3>1. a = DaysPerWeek * (a \div DaysPerWeek) + (a % DaysPerWeek) /\ a % DaysPerWeek \in 0..(DaysPerWeek - 1)
      <4>1. a \in Int /\ DaysPerWeek \in Nat \ {0}
        BY <2>1, Calendar
      <4> HIDE DEF a
      <4> QED BY <4>1, DivMod, Zenon
    <3>2. DaysPerWeek * n = w
      BY Calendar
    <3> HIDE DEF a, w
    <3> QED BY <2>1, <2>2, <3>1, <3>2, Calendar
  <2>6. Day(m) <= Day(p)
    <3>1. w <= Day(p) - Day(q)
      BY <2>5
    <3> HIDE DEF w
    <3> QED BY <1>4, <2>1, <2>4, <3>1
  <2>7. TicksPerDay * Day(m) <= TicksPerDay * Day(p)
    BY <1>4, <2>6, Calendar, TimesOrder
  <2>8. m = Day(m) * TicksPerDay + 0
    BY <1>1, <2>4, TimeOfDay
  <2>9. PICK r \in Nat : p = Day(p) * TicksPerDay + r
    BY TimeOfDay
  <2>10. /\ TicksPerDay * Day(m) = Day(m) * TicksPerDay /\ TicksPerDay * Day(p) = Day(p) * TicksPerDay
         /\ Day(m) * TicksPerDay \in Int /\ Day(p) * TicksPerDay \in Int
    BY <1>4, Calendar, SMT
  <2> HIDE DEF a, b, w
  <2> QED BY <1>1, <1>2, <2>7, <2>8, <2>9, <2>10
<1> QED BY <1>5, <1>6, <1>7, UnitsAre

\* Counting from a date that is n units later gives n units less.
LEMMA DiffFromLater ==
    ASSUME NEW u \in Units, NEW q \in Int, NEW n \in Nat, NEW p \in Int, Later(q, n, u) <= p
    PROVE  Diff(p, Later(q, n, u), u) = Diff(p, q, u) - n
<1> DEFINE m == Later(q, n, u)
<1>1. m \in Int /\ m >= q /\ Diff(m, q, u) = n
  <2>1. Diff(q, q, u) = 0
    BY DiffSelf
  <2>2. q <= q
    OBVIOUS
  <2>3. m \in Int /\ m >= q /\ Diff(m, q, u) = Diff(q, q, u) + n
    BY <2>2, LaterDiff
  <2> HIDE DEF m
  <2> QED BY <2>1, <2>3
<1>2. m <= p
  OBVIOUS
<1>3. SUFFICES Diff(p, m, u) = Diff(p, q, u) - n
  OBVIOUS
<1>4. u = "week" => m = q + n * DaysPerWeek * TicksPerDay
  BY LaterIs
<1> HIDE DEF m
<1>5. /\ Day(p) \in Int /\ Month(p) \in Int /\ Year(p) \in Int /\ Day(q) \in Int /\ Month(q) \in Int
      /\ Year(q) \in Int /\ Day(m) \in Int /\ Month(m) \in Int /\ Year(m) \in Int
      /\ Day(m) <= Day(p)
  BY <1>1, <1>2, DayInMonth, MonthOfYearIs, LaterMonth
<1>6. CASE u # "week"
  <2>1. u \in {"tick", "day", "month", "year"}
    BY <1>6, UnitsAre
  <2> QED BY <1>1, <1>5, <2>1, DiffIs
<1>7. CASE u = "week"
  <2> DEFINE w == n * DaysPerWeek
             a == Day(p) - Day(m)
  <2>1. w \in Nat /\ a \in Nat
    BY <1>5, Calendar, SMT
  <2>2. Day(m) = Day(q) + w
    <3>1. m = q + w * TicksPerDay
      BY <1>4, <1>7
    <3> HIDE DEF w
    <3> QED BY <2>1, <3>1, AddedDays
  <2>3. Day(p) - Day(q) = a + w
    <3> HIDE DEF w
    <3> QED BY <1>5, <2>1, <2>2
  <2>4. (a + w) \div DaysPerWeek = a \div DaysPerWeek + n
    <3>1. a \in Int /\ n \in Int /\ DaysPerWeek \in Nat \ {0}
      BY <2>1, Calendar
    <3> HIDE DEF a
    <3> QED BY <3>1, DivPlus, Zenon
  <2>5. Diff(p, m, u) = Quot(a, DaysPerWeek) /\ Diff(p, q, u) = Quot(a + w, DaysPerWeek)
    <3>1. Diff(p, q, u) = Quot(Day(p) - Day(q), DaysPerWeek)
      BY <1>7, DiffIs
    <3>2. Diff(p, m, u) = Quot(a, DaysPerWeek)
      BY <1>7, DiffIs
    <3> HIDE DEF a, w
    <3> QED BY <2>3, <3>1, <3>2
  <2> HIDE DEF a, w
  <2>6. Quot(a, DaysPerWeek) = a \div DaysPerWeek /\ Quot(a + w, DaysPerWeek) = (a + w) \div DaysPerWeek
    <3>1. PICK e \in Nat : e = a + w
      BY <2>1
    <3>2. DaysPerWeek \in Nat \ {0}
      BY Calendar
    <3>3. Quot(a, DaysPerWeek) = a \div DaysPerWeek /\ Quot(e, DaysPerWeek) = e \div DaysPerWeek
      BY <2>1, <3>2, QuotOfNat
    <3> QED BY <3>1, <3>3
  <2>7. a \div DaysPerWeek \in Int
    BY <2>1, Calendar
  <2> QED BY <2>4, <2>5, <2>6, <2>7
<1> QED BY <1>6, <1>7

\* The slice of a date in a chunk is its cell, counted from the first cell of the chunk.
LEMMA SliceIs ==
    ASSUME NEW v, ViewOK(v), NEW k \in Nat, NEW p \in Int, map_time(v, k).p <= p, NEW ext, ext.t0 = map_time(v, k)
    PROVE  slice_of(v, ext, p) = cube_time(v, p) - k
<1> DEFINE u == v.dt.unit
           i == v.dt.interval
           n == i * k
           q == v.t0.p
           m == Later(q, n, u)
           a == Diff(p, m, u)
<1>1. u \in Units /\ i \in Nat \ {0} /\ q \in Int /\ n \in Nat
  BY ViewTime, CellStart
<1>2. map_time(v, k) = Date(m, u) /\ map_time(v, k).p = m /\ m \in Int /\ q <= m
  <2>1. map_time(v, k) = Date(m, u) /\ map_time(v, k).p \in Int /\ map_time(v, k).p >= v.t0.p
    BY CellStart
  <2>2. Date(m, u).p = m
    BY DEF Date
  <2> HIDE DEF m
  <2> QED BY <2>1, <2>2, <1>1
<1>3. m <= p /\ q <= p
  <2> HIDE DEF m, q
  <2> QED BY <1>1, <1>2
<1>4. Minus(Date(p, u), ext.t0).interval = a
  <2>1. Coarser(u, u) = u
    BY DEF Coarser
  <2>2. Date(p, u).p = p /\ Date(p, u).unit = u /\ Date(m, u).p = m /\ Date(m, u).unit = u
    BY DEF Date
  <2>3. ext.t0 = Date(m, u)
    BY <1>2
  <2> HIDE DEF u, m
  <2>4. Minus(Date(p, u), Date(m, u)) = Duration(Diff(p, m, u), u)
    BY <2>1, <2>2, MinusIs
  <2> QED BY <2>3, <2>4 DEF Duration
<1>5. slice_of(v, ext, p) = Quot(a, i)
  BY <1>4 DEF slice_of
<1>6. a = Diff(p, q, u) - n
  <2> HIDE DEF u, n, q
  <2> QED BY <1>1, <1>3, DiffFromLater
<1>7. a \in Nat
  <2> HIDE DEF u, m
  <2> QED BY <1>1, <1>2, <1>3, DiffOrder
<1>8. cube_time(v, p) = Diff(p, q, u) \div i /\ Diff(p, q, u) \in Nat
  <2>1. v.t0.p <= p
    BY <1>3
  <2> QED BY <2>1, ViewTime
<1>9. PICK c \in Nat : c = Diff(p, q, u)
  BY <1>8
<1> HIDE DEF a, u, q, m
<1>10. c = a + k * i
  <2>1. n = k * i
    BY <1>1
  <2> HIDE DEF n
  <2> QED BY <1>1, <1>6, <1>7, <1>9, <2>1
<1>11. c \div i = a \div i + k /\ a \div i \in Int
  <2>1. a \in Int /\ k \in Int
    BY <1>7
  <2>2. (a + k * i) \div i = a \div i + k
    BY <1>1, <2>1, DivPlus, Zenon
  <2>3. a \div i \in Int
    BY <1>1, <2>1, DivMod, Zenon
  <2> QED BY <1>10, <2>2, <2>3
<1>12. Quot(a, i) = a \div i
  BY <1>1, <1>7, QuotOfNat
<1> QED BY <1>5, <1>8, <1>9, <1>11, <1>12

\* If cells begin with units, a date in a cell or a later one does not lie before its beginning; otherwise
\* not before the beginning of the first cell.
LEMMA CellsBegin ==
    ASSUME NEW v, ViewOK(v), NEW k \in Nat, Aligned(v) \/ k = 0, NEW p \in Int, v.t0.p <= p, cube_time(v, p) >= k
    PROVE  map_time(v, k).p <= p
<1> DEFINE u == v.dt.unit
           i == v.dt.interval
           n == i * k
           q == v.t0.p
<1>1. u \in Units /\ i \in Nat \ {0} /\ q \in Int /\ n \in Nat /\ map_time(v, k).p = Later(q, n, u)
  <2>1. map_time(v, k) = Date(Later(q, n, u), u) /\ n \in Nat
    BY CellStart
  <2> QED BY <2>1, ViewTime DEF Date
<1>2. Diff(p, q, u) \in Nat /\ cube_time(v, p) = Diff(p, q, u) \div i
  BY ViewTime
<1>3. CASE k = 0
  <2>1. n = 0
    BY <1>1, <1>3
  <2>2. q <= q
    BY <1>1
  <2> HIDE DEF u, n
  <2>3. Later(q, n, u) = q
    BY <1>1, <2>1, <2>2, LaterDiff
  <2> QED BY <1>1, <2>3
<1>4. CASE Aligned(v)
  <2>1. StartOf(q, u)
    BY <1>4 DEF Aligned, StartOf
  <2>2. Diff(p, q, u) >= n
    <3>1. PICK c \in Nat : c = Diff(p, q, u)
      BY <1>2
    <3> HIDE DEF n
    <3>2. c \div i >= k
      BY <1>2, <3>1
    <3>3. c = i * (c \div i) + (c % i) /\ c % i \in 0..(i - 1) /\ c \div i \in Int
      <4>1. c \in Int /\ i \in Nat \ {0}
        BY <1>1, <3>1
      <4> HIDE DEF i
      <4> QED BY <4>1, DivMod, Zenon
    <3>4. i * k <= i * (c \div i)
      BY <1>1, <3>2, <3>3, TimesOrder
    <3>5. PICK z \in Int : z = i * (c \div i)
      BY <1>1, <3>3
    <3>6. n = i * k
      BY DEF n
    <3>7. c >= n
      BY <1>1, <3>3, <3>4, <3>5, <3>6
    <3> QED BY <3>1, <3>7
  <2> HIDE DEF u, n, q
  <2>3. Later(q, n, u) <= p
    <3>1. q <= p
      BY DEF q
    <3> QED BY <1>1, <2>1, <2>2, <3>1, UnitsAfter
  <2> QED BY <1>1, <2>3
<1> QED BY <1>3, <1>4

-------------------------------------------------------------------------------
\* What a cell of a chunk finds.

\* A cube as it is opened.
CubeOK(c) ==
    /\ ViewOK(c.view) /\ c.st \in Nat \ {0} /\ c.sx \in Nat \ {0}
    /\ c.chunks = Chunking(c.view, ShapeN(c.view), ShapeS(c))

LimitsOf(c, id) == chunk_limits(c.chunks.n, c.chunks.s, id)

\* The cells of a chunk, and where they are.
ChunkCells(c, id) ==
    LET v == c.view
        b == LimitsOf(c, id)
        z == c.chunks.size[id]
        ext == c.chunks.ext[id]
    IN  /\ b.low.t \in Nat /\ b.high.t \in Nat /\ b.low.x \in Nat /\ b.high.x \in Nat
        /\ z.t = b.high.t - b.low.t + 1 /\ z.x = b.high.x - b.low.x + 1
        /\ ext.t0 = map_time(v, b.low.t) /\ ext.t1 = map_time(v, b.high.t + 1)
        /\ CellWidth(v) \in Nat /\ v.win.left \in Int
        /\ ext.left = v.win.left + b.low.x * CellWidth(v)
        /\ ext.right = v.win.left + (b.high.x + 1) * CellWidth(v)
        /\ c.st >= nt(v) => b.low.t = 0

LEMMA ChunkCellsAre ==
    ASSUME NEW c, CubeOK(c), NEW id \in DOMAIN c.chunks.ext
    PROVE  ChunkCells(c, id)
<1> DEFINE v == c.view
           n == ShapeN(v)
           s == ShapeS(c)
           b == chunk_limits(n, s, id)
           w == v.win.right - v.win.left
<1>1. /\ v.win.left \in Int /\ v.win.right \in Int /\ v.win.left < v.win.right /\ v.nx \in Nat \ {0}
  <2>1. c.view \in ViewTypes /\ c.view.win.left < c.view.win.right
    BY DEF CubeOK, ViewOK
  <2> QED BY <2>1 DEF ViewTypes
<1>2. nt(v) \in Nat \ {0}
  BY ViewTime DEF CubeOK
<1>3. n \in Sizes /\ s \in Sizes /\ n.t = nt(v) /\ s.t = c.st
  BY <1>1, <1>2 DEF ShapeN, ShapeS, Sizes, CubeOK
<1>4. /\ id \in ChunkIds(n, s) /\ LimitsOf(c, id) = b
      /\ c.chunks.size[id] = chunk_size(n, s, id)
      /\ c.chunks.ext[id] = chunk_extent(v, bounds_from_chunk(n, s, id))
  BY DEF CubeOK, Chunking, LimitsOf
<1> HIDE DEF n, s
<1>5. /\ b.low.t \in 0..(n.t - 1) /\ b.high.t \in b.low.t..(n.t - 1)
      /\ b.low.x \in 0..(n.x - 1) /\ b.high.x \in b.low.x..(n.x - 1)
      /\ chunk_coords_from_id(n, s, id) \in Coords(n, s)
      /\ b.low.t = Low(n.t, s.t, chunk_coords_from_id(n, s, id).t)
  BY <1>3, <1>4, ChunkLimits
<1>6. n.t \in Nat \ {0} /\ n.x \in Nat \ {0} /\ s.t \in Nat \ {0}
  BY <1>3 DEF Sizes
<1>7. /\ chunk_size(n, s, id).t = b.high.t - b.low.t + 1 /\ chunk_size(n, s, id).x = b.high.x - b.low.x + 1
      /\ bounds_from_chunk(n, s, id).t0 = b.low.t /\ bounds_from_chunk(n, s, id).t1 = b.high.t + 1
      /\ bounds_from_chunk(n, s, id).left = b.low.x /\ bounds_from_chunk(n, s, id).right = b.high.x + 1
  BY DEF chunk_size, SizeOf, bounds_from_chunk, Borders
<1> HIDE DEF b
<1>8. b.low.t \in Nat /\ b.high.t \in Nat /\ b.low.x \in Nat /\ b.high.x \in Nat
  BY <1>5, <1>6
<1>9. CellWidth(v) \in Nat
  <2>1. w \in Nat \ {0} /\ CellWidth(v) = w \div v.nx
    BY <1>1 DEF CellWidth
  <2> HIDE DEF w
  <2> QED BY <1>1, <2>1
<1>10. c.st >= nt(v) => b.low.t = 0
  <2> SUFFICES ASSUME s.t >= n.t PROVE b.low.t = 0
    BY <1>3
  <2>1. PICK k \in 0..(Ceil(n.t, s.t) - 1) : k = chunk_coords_from_id(n, s, id).t
    BY <1>5 DEF Coords
  <2>2. Ceil(n.t, s.t) = 1
    <3>1. n.t + s.t - 1 = s.t * 1 + (n.t - 1) /\ n.t - 1 \in 0..(s.t - 1)
      BY <1>6
    <3>2. (s.t * 1 + (n.t - 1)) \div s.t = 1
      BY <1>6, <3>1, DivModUnique
    <3> QED BY <3>1, <3>2 DEF Ceil
  <2>3. k = 0
    BY <2>1, <2>2
  <2>4. 0 * s.t = 0
    BY <1>6
  <2> QED BY <1>5, <1>6, <2>1, <2>3, <2>4 DEF Low, Smaller
<1>11. /\ c.chunks.ext[id].t0 = map_time(v, b.low.t) /\ c.chunks.ext[id].t1 = map_time(v, b.high.t + 1)
       /\ c.chunks.ext[id].left = v.win.left + b.low.x * CellWidth(v)
       /\ c.chunks.ext[id].right = v.win.left + (b.high.x + 1) * CellWidth(v)
  BY <1>4, <1>7 DEF chunk_extent
<1> QED BY <1>1, <1>4, <1>7, <1>8, <1>9, <1>10, <1>11 DEF ChunkCells

\* A cell of the chunk begins within the bounds of the chunk.
LEMMA CellInBounds ==
    ASSUME NEW c, NEW id, ChunkCells(c, id), NEW k \in 0..(c.chunks.size[id].x - 1)
    PROVE  /\ CellStartAt(c, id, k) = c.view.win.left + (LimitsOf(c, id).low.x + k) * CellWidth(c.view)
           /\ CellStartAt(c, id, k) \in Int
           /\ c.chunks.ext[id].left <= CellStartAt(c, id, k) /\ CellStartAt(c, id, k) <= c.chunks.ext[id].right
           /\ c.chunks.ext[id].left \in Int /\ c.chunks.ext[id].right \in Int
<1>1. PICK l \in Nat, h \in Nat, q \in Nat, w \in Int :
        /\ l = LimitsOf(c, id).low.x /\ h = LimitsOf(c, id).high.x /\ q = CellWidth(c.view) /\ w = c.view.win.left
        /\ c.chunks.size[id].x = h - l + 1
        /\ c.chunks.ext[id].left = w + l * q /\ c.chunks.ext[id].right = w + (h + 1) * q
  BY DEF ChunkCells
<1>2. k \in Nat /\ l + k <= h + 1
  BY <1>1
<1>3. l * q + k * q = (l + k) * q /\ l * q \in Nat /\ k * q \in Nat /\ (l + k) * q \in Nat /\ (h + 1) * q \in Nat
  BY <1>1, <1>2
<1>4. (l + k) * q <= (h + 1) * q
  <2>1. q * (l + k) <= q * (h + 1)
    BY <1>1, <1>2, TimesOrder
  <2>2. q * (l + k) = (l + k) * q /\ q * (h + 1) = (h + 1) * q
    BY <1>1, <1>2
  <2> QED BY <2>1, <2>2
<1>5. CellStartAt(c, id, k) = (w + l * q) + k * q
  BY <1>1 DEF CellStartAt
<1> QED BY <1>1, <1>3, <1>4, <1>5

\* What an image contributes is a value of its file of the band where this has data, or nothing.
LEMMA ContributionIs ==
    ASSUME NEW d, Sound(d), NEW c, NEW i, NEW b, NEW x \in Int
    PROVE  /\ Contribution(c, d.refs, i, b, x) \in Int \cup {NaN}
           /\ Contribution(c, d.refs, i, b, x) # NaN =>
                \E r \in d.refs : /\ r.image = i /\ r.band = b
                                  /\ Info(r.file).left <= x /\ x < Info(r.file).right
                                  /\ Info(r.file).left \in Int /\ Info(r.file).right \in Int
<1> DEFINE of(k) == {r \in d.refs : r.image = i /\ r.band = k}
           r == CHOOSE r \in of(b) : TRUE
           value == IF of(b) = {} THEN NaN ELSE Pixel(r.file, b, x)
           hidden == /\ c.mask # NoMatch /\ of(c.mask) # {}
                     /\ Masked(c, Pixel((CHOOSE q \in of(c.mask) : TRUE).file, c.mask, x))
<1>1. Contribution(c, d.refs, i, b, x) = IF hidden THEN NaN ELSE value
  BY DEF Contribution
<1> HIDE DEF hidden
<1>2. CASE of(b) = {}
  BY <1>1, <1>2
<1>3. CASE of(b) # {}
  <2>1. r \in of(b)
    BY <1>3
  <2> HIDE DEF r
  <2>2. r \in d.refs /\ r.image = i /\ r.band = b
    BY <2>1
  <2>3. r.file \in Descriptors /\ b \in Info(r.file).bands
    BY <2>2 DEF Sound, RefsSound, RefSound
  <2>4. /\ Info(r.file).values[b] \in Int \cup {NaN}
        /\ Info(r.file).left \in Int /\ Info(r.file).right \in Int
    BY <2>3, CubeAssumption, FilesAssumption DEF Info
  <2>5. value = IF Info(r.file).left <= x /\ x < Info(r.file).right THEN Info(r.file).values[b] ELSE NaN
    BY <1>3 DEF Pixel
  <2> HIDE DEF value
  <2> QED BY <1>1, <2>2, <2>4, <2>5
<1> QED BY <1>2, <1>3

\* The images of a slice of a chunk that have a value at a cell are those of the catalogue whose date
\* lies in the cell.
SliceHas(d, c, id, b, t, k, i) ==
    LET x == CellStartAt(c, id, k)
    IN  i \in InSlice(d, c, id, t) /\ Contribution(c, Hits(d, c, id), i, b, x) # NaN

CellHas(d, c, b, t, x, i) ==
    /\ i \in ImageIds(d) /\ d.images[i].date >= c.view.t0.p /\ cube_time(c.view, d.images[i].date) = t
    /\ Contribution(c, d.refs, i, b, x) # NaN

LEMMA FoundContribution ==
    ASSUME NEW d, NEW c, NEW id, NEW b, NEW t, NEW x, NEW i, \E q \in Hits(d, c, id) : q.image = i
    PROVE  Contribution(c, Hits(d, c, id), i, b, x) = Contribution(c, d.refs, i, b, x)
<1>1. PICK q \in Hits(d, c, id) : q.image = i
  OBVIOUS
<1>2. \A r \in d.refs : r.image = i => r \in Hits(d, c, id)
  BY <1>1 DEF Hits, find_range_st
<1>3. \A r \in Hits(d, c, id) : r \in d.refs
  BY DEF Hits, find_range_st
<1>4. \A k : {r \in Hits(d, c, id) : r.image = i /\ r.band = k} = {r \in d.refs : r.image = i /\ r.band = k}
  BY <1>2, <1>3
<1> QED BY <1>4, SameContribution

LEMMA FoundHas ==
    ASSUME NEW d, Sound(d), NEW c, CubeOK(c), NEW id \in DOMAIN c.chunks.ext, NEW b, NEW t, NEW k, NEW i,
           SliceHas(d, c, id, b, t, k, i)
    PROVE  CellHas(d, c, b, LimitsOf(c, id).low.t + t, CellStartAt(c, id, k), i)
<1> DEFINE p == d.images[i].date
           v == c.view
           l == LimitsOf(c, id).low.t
<1>1. ChunkCells(c, id)
  BY ChunkCellsAre
<1>2. PICK q \in Hits(d, c, id) : q.image = i
  BY InSliceIs DEF SliceHas
<1>3. slice_of(v, c.chunks.ext[id], p) = t
  BY InSliceIs DEF SliceHas
<1>4. Contribution(c, d.refs, i, b, CellStartAt(c, id, k)) # NaN
  BY <1>2, FoundContribution DEF SliceHas
<1>5. i \in ImageIds(d) /\ p \in Int /\ v.t0.p <= p
  BY <1>2, HitsWithin DEF CubeOK
<1>6. p >= c.chunks.ext[id].t0.p
  BY <1>2 DEF Hits, find_range_st
<1>7. l \in Nat /\ c.chunks.ext[id].t0 = map_time(v, l)
  BY <1>1 DEF ChunkCells
<1>8. v.t0.p \in Int /\ map_time(v, l).p \in Int /\ ViewOK(v)
  BY <1>7, ViewTime, CellStart DEF CubeOK
<1>9. cube_time(v, p) \in Nat
  BY <1>5, <1>8, ViewTime
<1> HIDE DEF p, v, l
<1>10. map_time(v, l).p <= p
  BY <1>5, <1>6, <1>7, <1>8
<1>11. slice_of(v, c.chunks.ext[id], p) = cube_time(v, p) - l
  BY <1>5, <1>7, <1>8, <1>10, SliceIs
<1>12. cube_time(v, p) = l + t
  BY <1>3, <1>7, <1>9, <1>11
<1>13. p >= v.t0.p
  BY <1>5, <1>8
<1> QED BY <1>4, <1>5, <1>12, <1>13 DEF CellHas, p, v, l

LEMMA HasFound ==
    ASSUME NEW d, Sound(d), WithinExtent(d), NEW c, CubeOK(c), Aligned(c.view) \/ c.st >= nt(c.view),
           NEW id \in DOMAIN c.chunks.ext, NEW b \in Range(c.bands), NEW t \in 0..(c.chunks.size[id].t - 1),
           NEW k \in 0..(c.chunks.size[id].x - 1), NEW i,
           CellHas(d, c, b, LimitsOf(c, id).low.t + t, CellStartAt(c, id, k), i)
    PROVE  SliceHas(d, c, id, b, t, k, i)
<1> DEFINE m == d.images[i]
           p == d.images[i].date
           v == c.view
           l == LimitsOf(c, id).low.t
           h == LimitsOf(c, id).high.t
           ext == c.chunks.ext[id]
           x == CellStartAt(c, id, k)
<1>1. /\ l \in Nat /\ h \in Nat /\ c.chunks.size[id].t = h - l + 1
      /\ ext.t0 = map_time(v, l) /\ ext.t1 = map_time(v, h + 1) /\ (Aligned(v) \/ l = 0)
  BY ChunkCellsAre DEF ChunkCells
<1>2. x \in Int /\ ext.left <= x /\ x <= ext.right /\ ext.left \in Int /\ ext.right \in Int
  BY ChunkCellsAre, CellInBounds
<1>3. /\ i \in ImageIds(d) /\ p >= v.t0.p /\ cube_time(v, p) = l + t
      /\ Contribution(c, d.refs, i, b, x) # NaN
  BY DEF CellHas
<1>4. p \in Int /\ m.left \in Int /\ m.right \in Int
  BY <1>3 DEF Sound, ImagesSound
<1>5. PICK r \in d.refs : /\ r.image = i /\ r.band = b
                          /\ Info(r.file).left <= x /\ x < Info(r.file).right
                          /\ Info(r.file).left \in Int /\ Info(r.file).right \in Int
  <2>1. PICK y \in Int : y = x
    BY <1>2
  <2>2. Contribution(c, d.refs, i, b, y) # NaN
    BY <1>3, <2>1
  <2>3. \E r \in d.refs : /\ r.image = i /\ r.band = b
                          /\ Info(r.file).left <= y /\ y < Info(r.file).right
                          /\ Info(r.file).left \in Int /\ Info(r.file).right \in Int
    BY <2>2, ContributionIs
  <2> HIDE DEF x
  <2> QED BY <2>1, <2>3
<1>6. m.left <= x /\ m.right >= x
  <2>1. m.left <= Info(r.file).left /\ Info(r.file).right <= m.right
    BY <1>5 DEF WithinExtent
  <2> HIDE DEF m, x
  <2> QED BY <1>2, <1>4, <1>5, <2>1
<1>7. m.right >= ext.left /\ m.left <= ext.right
  <2> HIDE DEF m, x, ext
  <2> QED BY <1>2, <1>4, <1>6
<1>8. v.t0.p \in Int /\ ViewOK(v)
  BY ViewTime DEF CubeOK
<1>9. /\ map_time(v, l).p \in Int /\ map_time(v, h + 1).p \in Int /\ map_time(v, h + 1).p >= v.t0.p
      /\ cube_time(v, map_time(v, h + 1).p) = h + 1
  BY <1>1, <1>8, CellStart
<1>10. t \in Nat /\ l + t <= h
  <2> HIDE DEF l, h
  <2> QED BY <1>1
<1> HIDE DEF p, v, l, h, ext, x, m
<1>11. map_time(v, l).p <= p
  <2>1. v.t0.p <= p /\ cube_time(v, p) >= l
    BY <1>1, <1>3, <1>4, <1>8, <1>10
  <2> QED BY <1>1, <1>4, <1>8, <2>1, CellsBegin
<1>12. p <= map_time(v, h + 1).p
  <2> SUFFICES ASSUME map_time(v, h + 1).p < p PROVE FALSE
    BY <1>4, <1>9
  <2>1. map_time(v, h + 1).p <= p /\ v.t0.p <= map_time(v, h + 1).p
    BY <1>4, <1>8, <1>9
  <2>2. cube_time(v, map_time(v, h + 1).p) <= cube_time(v, p)
    BY <1>4, <1>8, <1>9, <2>1, CellOrder
  <2> QED BY <1>1, <1>3, <1>9, <1>10, <2>2
<1>13. r \in Hits(d, c, id)
  <2>1. d.images[r.image].date = p /\ d.images[r.image].left = m.left /\ d.images[r.image].right = m.right
    BY <1>5 DEF p, m
  <2>2. p >= c.chunks.ext[id].t0.p /\ p <= c.chunks.ext[id].t1.p
    BY <1>1, <1>4, <1>9, <1>11, <1>12 DEF ext
  <2>3. m.right >= c.chunks.ext[id].left /\ m.left <= c.chunks.ext[id].right
    BY <1>7 DEF ext
  <2> QED BY <1>5, <2>1, <2>2, <2>3 DEF Hits, find_range_st
<1>14. slice_of(v, ext, p) = t
  <2>1. slice_of(v, ext, p) = cube_time(v, p) - l
    BY <1>1, <1>4, <1>8, <1>11, SliceIs
  <2> QED BY <1>1, <1>3, <1>10, <2>1
<1>15. i \in InSlice(d, c, id, t)
  <2>1. \E q \in Hits(d, c, id) : q.image = i /\ q.band \in Range(c.bands)
    BY <1>5, <1>13
  <2>2. slice_of(c.view, c.chunks.ext[id], d.images[i].date) = t
    BY <1>14 DEF v, ext, p
  <2> QED BY <2>1, <2>2, InSliceIs
<1>16. Contribution(c, Hits(d, c, id), i, b, x) # NaN
  <2>1. Contribution(c, Hits(d, c, id), i, b, x) = Contribution(c, d.refs, i, b, x)
    BY <1>5, <1>13, FoundContribution
  <2> QED BY <1>3, <2>1
<1> QED BY <1>15, <1>16 DEF SliceHas, x

-------------------------------------------------------------------------------
\* The state of the aggregation, image by image.

\* The states of the aggregation of images that have values, and the aggregations that keep
\* one number instead of a list.
States == [v : Int \cup {NaN}, n : Int, list : Seq(Int)]

Running == {"first", "last", "min", "max", "mean"}

LEMMA NoNumber == NaN \notin Int
BY CubeAssumption

\* What an image with value x does to the fields of the state.
LEMMA UpdateIs ==
    ASSUME NEW a \in Running \cup {"median"}, NEW st \in States, NEW x \in Int
    PROVE  /\ update(a, st, x) \in States
           /\ a = "median" => update(a, st, x).list = Append(st.list, x)
           /\ a = "mean" => /\ update(a, st, x).v = IF st.v = NaN THEN x ELSE st.v + x
                            /\ update(a, st, x).n = st.n + 1
           /\ a = "first" => update(a, st, x).v = IF st.v = NaN THEN x ELSE st.v
           /\ a = "last" => update(a, st, x).v = x
           /\ a = "min" => update(a, st, x).v = IF st.v = NaN \/ x < st.v THEN x ELSE st.v
           /\ a = "max" => update(a, st, x).v = IF st.v = NaN \/ x > st.v THEN x ELSE st.v
<1>0. x # NaN
  BY NoNumber
<1> DEFINE w == update(a, st, x)
<1>1. CASE a = "median"
  <2>1. w = [st EXCEPT !.list = Append(@, x)]
    BY <1>0, <1>1, Zenon DEF update
  <2>2. Append(st.list, x) \in Seq(Int)
    BY DEF States
  <2> HIDE DEF w
  <2> QED BY <1>1, <2>1, <2>2 DEF w, States
<1>2. CASE a = "mean"
  <2>1. w = [st EXCEPT !.v = IF @ = NaN THEN x ELSE @ + x, !.n = @ + 1]
    BY <1>0, <1>2, Zenon DEF update
  <2>2. (IF st.v = NaN THEN x ELSE st.v + x) \in Int /\ st.n + 1 \in Int
    BY DEF States
  <2> QED BY <1>2, <2>1, <2>2 DEF States
<1>3. CASE a = "first"
  <2>1. w = [st EXCEPT !.v = IF @ = NaN THEN x ELSE @]
    BY <1>0, <1>3, Zenon DEF update
  <2> QED BY <1>3, <2>1 DEF States
<1>4. CASE a = "last"
  <2>1. w = [st EXCEPT !.v = x]
    BY <1>0, <1>4, Zenon DEF update
  <2> QED BY <1>4, <2>1 DEF States
<1>5. CASE a = "min"
  <2>1. w = [st EXCEPT !.v = IF @ = NaN \/ x < @ THEN x ELSE @]
    BY <1>0, <1>5, Zenon DEF update
  <2> QED BY <1>5, <2>1 DEF States
<1>6. CASE a = "max"
  <2>1. w = [st EXCEPT !.v = IF @ = NaN \/ x > @ THEN x ELSE @]
    BY <1>0, <1>6, Zenon DEF update
  <2> QED BY <1>6, <2>1 DEF States
<1> QED BY <1>1, <1>2, <1>3, <1>4, <1>5, <1>6 DEF Running

\* Numbers for the members of a finite set of ids.
Numbers(value, S) == S \in SUBSET Int /\ IsFiniteSet(S) /\ \A i \in S : value[i] \in Int

\* What the state is after the images in s.
Folded(a, value, s, st) ==
    /\ st \in States
    /\ s = {} => st.v = NaN /\ st.n = 0
    /\ a \in Running /\ s # {} => st.v \in Int
    /\ a = "first" /\ s # {} => st.v = value[Min(s)]
    /\ a = "last" /\ s # {} => st.v = value[Max(s)]
    /\ a = "min" => \A i \in s : st.v <= value[i]
    /\ a = "max" => \A i \in s : st.v >= value[i]
    /\ a \in {"min", "max"} /\ s # {} => \E i \in s : st.v = value[i]
    /\ a = "mean" => st.n = Cardinality(s)

LEMMA FoldStep ==
    ASSUME NEW a \in Running \cup {"median"}, NEW value, NEW S, Numbers(value, S), NEW s \in SUBSET S, s # {},
           NEW st, Folded(a, value, s \ {Max(s)}, st)
    PROVE  Folded(a, value, s, update(a, st, value[Max(s)]))
<1> DEFINE m == Max(s)
           r == s \ {m}
           x == value[m]
           w == update(a, st, x)
<1>1. /\ m \in s /\ r \in SUBSET S /\ \A i \in s : i <= m
      /\ Cardinality(s) \in Nat \ {0} /\ Cardinality(r) = Cardinality(s) - 1
  BY OneImageLess DEF Numbers
<1>2. x \in Int /\ S \in SUBSET Int /\ IsFiniteSet(S) /\ \A i \in S : value[i] \in Int
  BY <1>1 DEF Numbers
<1>3. st \in States /\ (r = {} => st.v = NaN /\ st.n = 0)
  BY DEF Folded
<1>4. NaN \notin Int
  BY NoNumber
<1>5. Folded(a, value, r, st)
  OBVIOUS
<1>6. Max(s) = m
  OBVIOUS
<1>7. s = r \cup {m}
  BY <1>1
<1>8. w \in States
  BY <1>2, <1>3, UpdateIs
<1>9. CASE a = "median"
  BY <1>8, <1>9 DEF Folded, Running
<1>10. CASE a = "first"
  <2>1. w.v = IF st.v = NaN THEN x ELSE st.v
    BY <1>2, <1>3, <1>10, UpdateIs
  <2>2. CASE r = {}
    <3>1. s = {m}
      BY <1>7, <2>2
    <3>2. Min(s) \in s
      BY <1>1, <1>2, FS_Subset, Extremes
    <3>3. Min(s) = m
      BY <3>1, <3>2
    <3> QED BY <1>2, <1>3, <1>8, <1>10, <2>1, <2>2, <3>3 DEF Folded
  <2>3. CASE r # {}
    <3>1. st.v = value[Min(r)] /\ st.v \in Int
      BY <1>5, <1>10, <2>3 DEF Folded, Running
    <3>2. Min(r) \in r /\ \A y \in r : Min(r) <= y
      BY <1>1, <1>2, <2>3, FS_Subset, Extremes
    <3>3. Min(s) \in s /\ \A y \in s : Min(s) <= y
      BY <1>1, <1>2, FS_Subset, Extremes
    <3>4. Min(s) = Min(r)
      <4>1. Min(s) \in Int /\ Min(r) \in Int /\ m \in Int /\ Min(s) <= Min(r) /\ Min(r) <= m
        BY <1>1, <1>2, <3>2, <3>3
      <4>2. Min(s) \in r \/ Min(s) = m
        BY <1>7, <3>3
      <4>3. Min(s) \in r => Min(r) <= Min(s)
        BY <3>2
      <4> QED BY <4>1, <4>2, <4>3
    <3>5. w.v = value[Min(s)] /\ w.v \in Int
      BY <1>4, <2>1, <3>1, <3>4
    <3> QED BY <1>8, <1>10, <1>1, <3>5 DEF Folded
  <2> QED BY <2>2, <2>3
<1>11. CASE a = "last"
  <2>1. w.v = x
    BY <1>2, <1>3, <1>11, UpdateIs
  <2> QED BY <1>1, <1>2, <1>8, <1>11, <2>1 DEF Folded
<1>12. CASE a = "min"
  <2>1. w.v = IF st.v = NaN \/ x < st.v THEN x ELSE st.v
    BY <1>2, <1>3, <1>12, UpdateIs
  <2>2. CASE r = {}
    <3>1. s = {m} /\ w.v = x
      BY <1>3, <1>7, <2>1, <2>2
    <3>2. x <= x
      BY <1>2
    <3>3. \A i \in s : i = m
      BY <3>1
    <3>4. \A i \in s : w.v <= value[i]
      BY <3>1, <3>2, <3>3
    <3>5. \E i \in s : w.v = value[i]
      BY <1>1, <3>1
    <3> QED BY <1>1, <1>2, <1>8, <1>12, <3>1, <3>4, <3>5 DEF Folded
  <2>3. CASE r # {}
    <3>1. st.v \in Int /\ (\A i \in r : st.v <= value[i]) /\ \E i \in r : st.v = value[i]
      BY <1>5, <1>12, <2>3 DEF Folded, Running
    <3>2. w.v \in Int /\ w.v <= x /\ w.v <= st.v /\ (w.v = x \/ w.v = st.v)
      BY <1>2, <1>4, <2>1, <3>1
    <3>3. ASSUME NEW i \in s PROVE w.v <= value[i]
      <4>1. CASE i = m
        BY <3>2, <4>1
      <4>2. CASE i \in r
        <5>1. st.v <= value[i] /\ value[i] \in Int
          BY <1>1, <1>2, <3>1, <4>2
        <5> QED BY <3>1, <3>2, <5>1
      <4> QED BY <1>7, <4>1, <4>2
    <3>4. \E i \in s : w.v = value[i]
      BY <1>1, <1>7, <3>1, <3>2
    <3> QED BY <1>1, <1>8, <1>12, <3>2, <3>3, <3>4 DEF Folded
  <2> QED BY <2>2, <2>3
<1>13. CASE a = "max"
  <2>1. w.v = IF st.v = NaN \/ x > st.v THEN x ELSE st.v
    BY <1>2, <1>3, <1>13, UpdateIs
  <2>2. CASE r = {}
    <3>1. s = {m} /\ w.v = x
      BY <1>3, <1>7, <2>1, <2>2
    <3>2. x >= x
      BY <1>2
    <3>3. \A i \in s : i = m
      BY <3>1
    <3>4. \A i \in s : w.v >= value[i]
      BY <3>1, <3>2, <3>3
    <3>5. \E i \in s : w.v = value[i]
      BY <1>1, <3>1
    <3> QED BY <1>1, <1>2, <1>8, <1>13, <3>1, <3>4, <3>5 DEF Folded
  <2>3. CASE r # {}
    <3>1. st.v \in Int /\ (\A i \in r : st.v >= value[i]) /\ \E i \in r : st.v = value[i]
      BY <1>5, <1>13, <2>3 DEF Folded, Running
    <3>2. w.v \in Int /\ w.v >= x /\ w.v >= st.v /\ (w.v = x \/ w.v = st.v)
      BY <1>2, <1>4, <2>1, <3>1
    <3>3. ASSUME NEW i \in s PROVE w.v >= value[i]
      <4>1. CASE i = m
        BY <3>2, <4>1
      <4>2. CASE i \in r
        <5>1. st.v >= value[i] /\ value[i] \in Int
          BY <1>1, <1>2, <3>1, <4>2
        <5> QED BY <3>1, <3>2, <5>1
      <4> QED BY <1>7, <4>1, <4>2
    <3>4. \E i \in s : w.v = value[i]
      BY <1>1, <1>7, <3>1, <3>2
    <3> QED BY <1>1, <1>8, <1>13, <3>2, <3>3, <3>4 DEF Folded
  <2> QED BY <2>2, <2>3
<1>14. CASE a = "mean"
  <2>1. w.v = (IF st.v = NaN THEN x ELSE st.v + x) /\ w.n = st.n + 1
    BY <1>2, <1>3, <1>14, UpdateIs
  <2>2. st.n = Cardinality(r)
    BY <1>5, <1>14 DEF Folded
  <2>3. w.n = Cardinality(s)
    BY <1>1, <2>1, <2>2
  <2>4. w.v \in Int
    BY <1>2, <1>3, <2>1 DEF States
  <2> QED BY <1>1, <1>8, <1>14, <2>3, <2>4 DEF Folded
<1> QED BY <1>9, <1>10, <1>11, <1>12, <1>13, <1>14 DEF Running

LEMMA StartIs == Start \in States /\ Start.v = NaN /\ Start.n = 0 /\ Start.list = <<>>
<1>1. <<>> \in Seq(Int)
  OBVIOUS
<1> QED BY <1>1 DEF Start, States

LEMMA FoldIs ==
    ASSUME NEW a \in Running \cup {"median"}, NEW value, NEW S, Numbers(value, S), NEW s \in SUBSET S
    PROVE  Folded(a, value, s, ImageFold(a, value, S)[s])
<1> DEFINE F == ImageFold(a, value, S)
           W == {r \in SUBSET S : ~Folded(a, value, r, F[r])}
<1>1. S \in SUBSET Int /\ IsFiniteSet(S)
  BY DEF Numbers
<1>2. \A r \in SUBSET S : F[r] = ImageEquation(a, value, F, r)
  BY <1>1, ImageFoldIs
<1> HIDE DEF F
<1>3. SUFFICES ASSUME W # {} PROVE FALSE
  BY DEF F
<1>4. PICK w \in W : \A x \in w : w \ {x} \notin W
  <2>1. W \in SUBSET SUBSET S
    OBVIOUS
  <2> HIDE DEF W
  <2> QED BY <1>1, <1>3, <2>1, SmallestSet
<1>5. w \in SUBSET S /\ ~Folded(a, value, w, F[w])
  OBVIOUS
<1>6. CASE w = {}
  <2>1. F[w] = Start
    BY <1>2, <1>5, <1>6 DEF ImageEquation
  <2>2. Cardinality({}) = 0
    BY FS_EmptySet
  <2> QED BY <1>5, <1>6, <2>1, <2>2, StartIs DEF Folded
<1>7. CASE w # {}
  <2>1. Max(w) \in w /\ w \ {Max(w)} \in SUBSET S
    BY <1>1, <1>5, <1>7, OneImageLess
  <2>2. Folded(a, value, w \ {Max(w)}, F[w \ {Max(w)}])
    BY <1>4, <2>1
  <2>3. F[w] = update(a, F[w \ {Max(w)}], value[Max(w)])
    BY <1>2, <1>5, <1>7 DEF ImageEquation
  <2> QED BY <1>5, <1>7, <2>2, <2>3, FoldStep
<1> QED BY <1>6, <1>7

-------------------------------------------------------------------------------
\* Ranks of values, and the median.

\* How many values lie below x, and how many at most at x.
Below(f, x) == Cardinality({i \in DOMAIN f : f[i] < x})
AtMost(f, x) == Cardinality({i \in DOMAIN f : f[i] <= x})
Above(f, x) == Cardinality({i \in DOMAIN f : f[i] > x})

\* A function to numbers, not empty.
Sample(f) == DOMAIN f # {} /\ IsFiniteSet(DOMAIN f) /\ \A i \in DOMAIN f : f[i] \in Int

LEMMA SampleRange ==
    ASSUME NEW f, Sample(f)
    PROVE  /\ Range(f) \in SUBSET Int /\ Range(f) # {} /\ IsFiniteSet(Range(f))
<1> DEFINE S == DOMAIN f
           g == [i \in S |-> f[i]]
<1>1. g \in Surjection(S, Range(f))
  BY DEF Surjection, Range
<1>2. IsFiniteSet(Range(f))
  BY <1>1, FS_Surjection DEF Sample
<1>3. Range(f) \in SUBSET Int
  BY DEF Sample, Range
<1>4. Range(f) # {}
  BY DEF Sample, Range
<1> QED BY <1>2, <1>3, <1>4

LEMMA CountsAre ==
    ASSUME NEW f, Sample(f), NEW x \in Int
    PROVE  /\ Below(f, x) \in Nat /\ AtMost(f, x) \in Nat /\ Above(f, x) \in Nat
           /\ Cardinality(DOMAIN f) \in Nat \ {0}
           /\ AtMost(f, x) + Above(f, x) = Cardinality(DOMAIN f)
<1> DEFINE S == DOMAIN f
           B == {i \in S : f[i] < x}
           M == {i \in S : f[i] <= x}
           A == {i \in S : f[i] > x}
<1>1. IsFiniteSet(S) /\ S # {} /\ \A i \in S : f[i] \in Int
  BY DEF Sample
<1>2. B \in SUBSET S /\ M \in SUBSET S /\ A \in SUBSET S
  OBVIOUS
<1>3. IsFiniteSet(B) /\ IsFiniteSet(M) /\ IsFiniteSet(A)
  BY <1>1, <1>2, FS_Subset
<1>4. M \cup A = S /\ M \cap A = {}
  BY <1>1
<1> HIDE DEF M, A, B
<1>5. Cardinality(S) = Cardinality(M) + Cardinality(A) - Cardinality(M \cap A)
  BY <1>3, <1>4, FS_Union
<1>6. Cardinality(M \cap A) = 0 /\ Cardinality(S) # 0
  BY <1>1, <1>4, FS_EmptySet
<1>7. Cardinality(M) \in Nat /\ Cardinality(A) \in Nat /\ Cardinality(B) \in Nat /\ Cardinality(S) \in Nat
  BY <1>1, <1>3, FS_CardinalityType
<1> QED BY <1>5, <1>6, <1>7 DEF Below, AtMost, Above, M, A, B

\* What lies at most at x lies below y > x.
LEMMA CountsOrder ==
    ASSUME NEW f, Sample(f), NEW x \in Int, NEW y \in Int, x < y
    PROVE  AtMost(f, x) <= Below(f, y)
<1> DEFINE B == {i \in DOMAIN f : f[i] < y}
           M == {i \in DOMAIN f : f[i] <= x}
<1>1. IsFiniteSet(DOMAIN f) /\ \A i \in DOMAIN f : f[i] \in Int
  BY DEF Sample
<1>2. M \in SUBSET B /\ B \in SUBSET DOMAIN f
  BY <1>1
<1>3. IsFiniteSet(B)
  BY <1>1, <1>2, FS_Subset
<1> HIDE DEF B, M
<1>4. Cardinality(M) <= Cardinality(B)
  BY <1>2, <1>3, FS_Subset
<1> QED BY <1>4 DEF Below, AtMost, B, M

\* A value is counted at most at itself, and not below.
LEMMA CountsSelf ==
    ASSUME NEW f, Sample(f), NEW x \in Range(f)
    PROVE  Below(f, x) < AtMost(f, x)
<1> DEFINE B == {i \in DOMAIN f : f[i] < x}
           M == {i \in DOMAIN f : f[i] <= x}
<1>1. IsFiniteSet(DOMAIN f) /\ \A i \in DOMAIN f : f[i] \in Int
  BY DEF Sample
<1>2. PICK i \in DOMAIN f : x = f[i]
  BY DEF Range
<1>3. x \in Int /\ i \in M /\ i \notin B
  BY <1>1, <1>2
<1>4. B \in SUBSET M /\ M \in SUBSET DOMAIN f
  BY <1>1, <1>3
<1>5. IsFiniteSet(M)
  BY <1>1, <1>4, FS_Subset
<1> HIDE DEF B, M
<1>6. Cardinality(B) <= Cardinality(M) /\ Cardinality(B) # Cardinality(M)
  BY <1>3, <1>4, <1>5, FS_Subset
<1>7. Cardinality(B) \in Nat /\ Cardinality(M) \in Nat
  BY <1>4, <1>5, FS_Subset, FS_CardinalityType
<1> QED BY <1>6, <1>7 DEF Below, AtMost, B, M

\* x is number k of the values in their order.
Ranked(f, k, x) == x \in Range(f) /\ Below(f, x) < k /\ AtMost(f, x) >= k

LEMMA RankExists ==
    ASSUME NEW f, Sample(f), NEW k \in 1..Cardinality(DOMAIN f)
    PROVE  \E x : Ranked(f, k, x)
<1> DEFINE n == Cardinality(DOMAIN f)
           R == {x \in Range(f) : AtMost(f, x) >= k}
           m == Max(Range(f))
<1>1. Range(f) \in SUBSET Int /\ Range(f) # {} /\ IsFiniteSet(Range(f))
  BY SampleRange
<1>2. m \in Range(f) /\ \A x \in Range(f) : x <= m
  BY <1>1, Extremes
<1>3. {i \in DOMAIN f : f[i] <= m} = DOMAIN f
  BY <1>2 DEF Range
<1>4. AtMost(f, m) = n /\ n \in Nat /\ k \in Nat /\ k <= n /\ k >= 1
  BY <1>1, <1>2, <1>3, CountsAre DEF AtMost
<1>5. m \in R
  BY <1>2, <1>4
<1>6. R \in SUBSET Int /\ IsFiniteSet(R)
  BY <1>1, FS_Subset
<1> DEFINE x == Min(R)
<1>7. x \in R /\ \A y \in R : x <= y
  BY <1>5, <1>6, Extremes
<1> HIDE DEF x
<1>8. x \in Range(f) /\ x \in Int /\ AtMost(f, x) >= k
  BY <1>1, <1>7
<1>9. SUFFICES ASSUME Below(f, x) >= k PROVE FALSE
  <2>1. Below(f, x) \in Nat
    BY <1>8, CountsAre
  <2> QED BY <1>4, <1>8, <2>1 DEF Ranked
<1> DEFINE L == {y \in Range(f) : y < x}
           B == {i \in DOMAIN f : f[i] < x}
<1>10. L \in SUBSET Int /\ IsFiniteSet(L)
  BY <1>1, FS_Subset
<1>11. B # {}
  <2>1. B = {} => Below(f, x) = 0
    BY FS_EmptySet DEF Below
  <2> QED BY <1>4, <1>9, <2>1
<1>12. L # {}
  BY <1>11 DEF Range
<1> DEFINE y == Max(L)
<1>13. y \in L /\ \A l \in L : l <= y
  BY <1>10, <1>12, Extremes
<1> HIDE DEF y
<1>14. y \in Range(f) /\ y \in Int /\ y < x
  BY <1>1, <1>13
<1> DEFINE M == {i \in DOMAIN f : f[i] <= y}
<1>15. B \in SUBSET M /\ M \in SUBSET DOMAIN f
  BY <1>13 DEF Range
<1>16. IsFiniteSet(M)
  BY <1>15, FS_Subset DEF Sample
<1>17. Below(f, x) <= AtMost(f, y)
  <2>1. Below(f, x) = Cardinality(B) /\ AtMost(f, y) = Cardinality(M)
    BY DEF Below, AtMost
  <2> HIDE DEF B, M
  <2> QED BY <1>15, <1>16, <2>1, FS_Subset
<1>18. AtMost(f, y) >= k
  <2>1. Below(f, x) \in Nat /\ AtMost(f, y) \in Nat
    BY <1>8, <1>14, CountsAre
  <2> QED BY <1>4, <1>9, <1>17, <2>1
<1>19. y \in R
  BY <1>14, <1>18
<1> QED BY <1>7, <1>8, <1>14, <1>19

LEMMA RankUnique ==
    ASSUME NEW f, Sample(f), NEW k \in Int, NEW x, Ranked(f, k, x), NEW y, Ranked(f, k, y)
    PROVE  x = y
<1>1. x \in Int /\ y \in Int
  BY SampleRange DEF Ranked
<1>2. /\ Below(f, x) \in Nat /\ Below(f, y) \in Nat /\ AtMost(f, x) \in Nat /\ AtMost(f, y) \in Nat
  BY <1>1, CountsAre
<1>3. x < y => AtMost(f, x) <= Below(f, y)
  BY <1>1, CountsOrder
<1>4. y < x => AtMost(f, y) <= Below(f, x)
  BY <1>1, CountsOrder
<1> QED BY <1>1, <1>2, <1>3, <1>4 DEF Ranked

LEMMA LeastOf ==
    ASSUME NEW S, NEW x \in S, \A y \in S : x <= y
    PROVE  Min(S) \in S /\ \A y \in S : Min(S) <= y
BY Zenon DEF Min

LEMMA GreatestOf ==
    ASSUME NEW S \in SUBSET Int, NEW x \in S, \A y \in S : y <= x
    PROVE  Max(S) \in S /\ \A y \in S : y <= Max(S)
<1>1. \A y \in S : x >= y
  OBVIOUS
<1>2. Max(S) \in S /\ \A y \in S : Max(S) >= y
  BY <1>1, Zenon DEF Max
<1> QED BY <1>2

\* The values that may stand in the middle.
Mid(f) == {y \in Range(f) : 2 * Below(f, y) <= Cardinality(DOMAIN f) /\ 2 * Above(f, y) <= Cardinality(DOMAIN f)}

LEMMA MiddleOdd ==
    ASSUME NEW f, Sample(f), NEW h \in Nat, Cardinality(DOMAIN f) = 2 * h + 1, NEW x, Ranked(f, h + 1, x)
    PROVE  Min(Mid(f)) = x /\ Max(Mid(f)) = x /\ x \in Int
<1>1. \A y \in Range(f) : y \in Int
  BY SampleRange
<1>2. x \in Range(f) /\ x \in Int /\ Below(f, x) < h + 1 /\ AtMost(f, x) >= h + 1
  BY <1>1 DEF Ranked
<1>3. \A y \in Int : /\ Below(f, y) \in Nat /\ AtMost(f, y) \in Nat /\ Above(f, y) \in Nat
                     /\ AtMost(f, y) + Above(f, y) = 2 * h + 1
  BY CountsAre
<1>4. x \in Mid(f)
  <2>1. 2 * Below(f, x) <= 2 * h + 1 /\ 2 * Above(f, x) <= 2 * h + 1
    BY <1>2, <1>3
  <2> QED BY <1>2, <2>1 DEF Mid
<1>5. ASSUME NEW y \in Mid(f) PROVE y = x
  <2>1. y \in Range(f) /\ y \in Int /\ 2 * Below(f, y) <= 2 * h + 1 /\ 2 * Above(f, y) <= 2 * h + 1
    BY <1>1 DEF Mid
  <2>2. Below(f, y) < h + 1 /\ AtMost(f, y) >= h + 1
    BY <1>3, <2>1
  <2>3. Ranked(f, h + 1, y)
    BY <2>1, <2>2 DEF Ranked
  <2> QED BY <2>3, RankUnique
<1>6. Mid(f) = {x}
  BY <1>4, <1>5
<1>7. Min({x}) = x /\ Max({x}) = x
  BY <1>2 DEF Min, Max
<1> QED BY <1>2, <1>6, <1>7

LEMMA MiddleEven ==
    ASSUME NEW f, Sample(f), NEW h \in Nat \ {0}, Cardinality(DOMAIN f) = 2 * h,
           NEW x, Ranked(f, h, x), NEW z, Ranked(f, h + 1, z)
    PROVE  Min(Mid(f)) = x /\ Max(Mid(f)) = z /\ x \in Int /\ z \in Int
<1>1. \A y \in Range(f) : y \in Int
  BY SampleRange
<1>2. x \in Range(f) /\ x \in Int /\ Below(f, x) < h /\ AtMost(f, x) >= h
  BY <1>1 DEF Ranked
<1>3. z \in Range(f) /\ z \in Int /\ Below(f, z) < h + 1 /\ AtMost(f, z) >= h + 1
  BY <1>1 DEF Ranked
<1>4. \A y \in Int : /\ Below(f, y) \in Nat /\ AtMost(f, y) \in Nat /\ Above(f, y) \in Nat
                     /\ AtMost(f, y) + Above(f, y) = 2 * h
  BY CountsAre
<1>5. x \in Mid(f)
  <2>1. 2 * Below(f, x) <= 2 * h /\ 2 * Above(f, x) <= 2 * h
    BY <1>2, <1>4
  <2> QED BY <1>2, <2>1 DEF Mid
<1>6. z \in Mid(f)
  <2>1. 2 * Below(f, z) <= 2 * h /\ 2 * Above(f, z) <= 2 * h
    BY <1>3, <1>4
  <2> QED BY <1>3, <2>1 DEF Mid
<1>7. ASSUME NEW y \in Mid(f) PROVE y \in Int /\ x <= y /\ y <= z
  <2>1. y \in Int /\ 2 * Below(f, y) <= 2 * h /\ 2 * Above(f, y) <= 2 * h
    BY <1>1 DEF Mid
  <2>2. Below(f, y) <= h /\ AtMost(f, y) >= h
    BY <1>4, <2>1
  <2>3. y < x => AtMost(f, y) <= Below(f, x)
    BY <1>2, <2>1, CountsOrder
  <2>4. z < y => AtMost(f, z) <= Below(f, y)
    BY <1>3, <2>1, CountsOrder
  <2>5. ~(y < x)
    BY <1>2, <1>4, <2>1, <2>2, <2>3
  <2>6. ~(z < y)
    BY <1>3, <1>4, <2>1, <2>2, <2>4
  <2> QED BY <1>2, <1>3, <2>1, <2>5, <2>6
<1>8. Min(Mid(f)) = x
  <2>1. Min(Mid(f)) \in Mid(f) /\ \A y \in Mid(f) : Min(Mid(f)) <= y
    BY <1>5, <1>7, LeastOf
  <2>2. PICK c : c = Min(Mid(f))
    OBVIOUS
  <2>3. c \in Mid(f) /\ c <= x
    BY <1>5, <2>1, <2>2
  <2>4. c \in Int /\ x <= c
    BY <1>7, <2>3
  <2> QED BY <1>2, <2>2, <2>3, <2>4
<1>9. Max(Mid(f)) = z
  <2>1. Max(Mid(f)) \in Mid(f) /\ \A y \in Mid(f) : y <= Max(Mid(f))
    BY <1>6, <1>7, GreatestOf, Mid(f) \in SUBSET Int
  <2>2. PICK c : c = Max(Mid(f))
    OBVIOUS
  <2>3. c \in Mid(f) /\ z <= c
    BY <1>6, <2>1, <2>2
  <2>4. c \in Int /\ c <= z
    BY <1>7, <2>3
  <2> QED BY <1>3, <2>2, <2>3, <2>4
<1> QED BY <1>2, <1>3, <1>8, <1>9

\* A list has the values of the images in s, in the order q.
Arranged(value, s, list, q) ==
    /\ q \in Bijection(1..Cardinality(s), s)
    /\ list \in Seq(Int) /\ Len(list) = Cardinality(s)
    /\ \A j \in 1..Cardinality(s) : list[j] = value[q[j]]

LEMMA ArrangedStep ==
    ASSUME NEW value, NEW r, IsFiniteSet(r), NEW list, NEW q, Arranged(value, r, list, q), NEW m, m \notin r,
           value[m] \in Int
    PROVE  \E p : Arranged(value, r \cup {m}, Append(list, value[m]), p)
<1> DEFINE n == Cardinality(r)
           p == [j \in 1..(n + 1) |-> IF j = n + 1 THEN m ELSE q[j]]
           l == Append(list, value[m])
<1>1. n \in Nat /\ Cardinality(r \cup {m}) = n + 1
  BY FS_CardinalityType, FS_AddElement
<1>2. /\ q \in [1..n -> r] /\ \A i, j \in 1..n : q[i] = q[j] => i = j
      /\ \A x \in r : \E j \in 1..n : q[j] = x
      /\ list \in Seq(Int) /\ Len(list) = n
      /\ \A j \in 1..n : list[j] = value[q[j]]
  BY DEF Arranged, Bijection, Injection, IsInjective, Surjection
<1> HIDE DEF n
<1>3. 1..(n + 1) = (1..n) \cup {n + 1} /\ n + 1 \notin 1..n
  BY <1>1
<1>4. p[n + 1] = m /\ \A j \in 1..n : p[j] = q[j]
  BY <1>3
<1>5. p \in [1..(n + 1) -> r \cup {m}]
  BY <1>2, <1>3
<1> HIDE DEF p
<1>6. \A i, j \in 1..(n + 1) : p[i] = p[j] => i = j
  <2> SUFFICES ASSUME NEW i \in 1..(n + 1), NEW j \in 1..(n + 1), p[i] = p[j] PROVE i = j
    OBVIOUS
  <2>1. CASE i \in 1..n /\ j \in 1..n
    BY <1>2, <1>4, <2>1
  <2>2. CASE i = n + 1 /\ j \in 1..n
    BY <1>2, <1>4, <2>2
  <2>3. CASE i \in 1..n /\ j = n + 1
    BY <1>2, <1>4, <2>3
  <2>4. CASE i = n + 1 /\ j = n + 1
    BY <2>4
  <2> QED BY <1>3, <2>1, <2>2, <2>3, <2>4
<1>7. \A x \in r \cup {m} : \E j \in 1..(n + 1) : p[j] = x
  BY <1>2, <1>3, <1>4
<1>8. p \in Bijection(1..(n + 1), r \cup {m})
  BY <1>5, <1>6, <1>7 DEF Bijection, Injection, IsInjective, Surjection
<1>9. l \in Seq(Int) /\ Len(l) = n + 1 /\ l[n + 1] = value[m] /\ \A j \in 1..n : l[j] = list[j]
  BY <1>1, <1>2
<1> HIDE DEF l
<1>10. \A j \in 1..(n + 1) : l[j] = value[p[j]]
  BY <1>2, <1>3, <1>4, <1>9
<1>11. Arranged(value, r \cup {m}, l, p)
  BY <1>1, <1>8, <1>9, <1>10 DEF Arranged
<1> QED BY <1>11 DEF l

LEMMA FoldList ==
    ASSUME NEW value, NEW S, Numbers(value, S), NEW s \in SUBSET S
    PROVE  \E q : Arranged(value, s, ImageFold("median", value, S)[s].list, q)
<1> DEFINE F == ImageFold("median", value, S)
           Good(r) == \E q : Arranged(value, r, F[r].list, q)
           W == {r \in SUBSET S : ~Good(r)}
<1>1. S \in SUBSET Int /\ IsFiniteSet(S) /\ \A i \in S : value[i] \in Int
  BY DEF Numbers
<1>2. \A r \in SUBSET S : F[r] = ImageEquation("median", value, F, r) /\ F[r] \in States
  BY <1>1, ImageFoldIs, FoldIs DEF Folded
<1> HIDE DEF F
<1>3. SUFFICES ASSUME W # {} PROVE FALSE
  BY DEF F
<1>4. PICK w \in W : \A x \in w : w \ {x} \notin W
  <2>1. W \in SUBSET SUBSET S
    OBVIOUS
  <2> HIDE DEF W
  <2> QED BY <1>1, <1>3, <2>1, SmallestSet
<1>5. w \in SUBSET S /\ ~Good(w)
  OBVIOUS
<1>6. CASE w = {}
  <2>1. F[w].list = <<>>
    BY <1>2, <1>5, <1>6, StartIs DEF ImageEquation
  <2>2. Cardinality({}) = 0 /\ 1..0 = {}
    BY FS_EmptySet
  <2> DEFINE q == [j \in {} |-> j]
  <2>3. q \in Bijection({}, {})
    BY DEF Bijection, Injection, IsInjective, Surjection
  <2>4. Arranged(value, {}, <<>>, q)
    BY <2>2, <2>3 DEF Arranged
  <2> QED BY <1>5, <1>6, <2>1, <2>4
<1>7. CASE w # {}
  <2> DEFINE m == Max(w)
             r == w \ {m}
  <2>1. m \in w /\ r \in SUBSET S /\ m \in S
    BY <1>1, <1>5, <1>7, OneImageLess
  <2>2. Good(r)
    BY <1>4, <2>1
  <2>3. F[w] = update("median", F[r], value[m])
    BY <1>2, <1>5, <1>7 DEF ImageEquation
  <2> HIDE DEF m, Good
  <2>4. F[w].list = Append(F[r].list, value[m])
    <3>1. PICK st, x : st = F[r] /\ x = value[m]
      OBVIOUS
    <3>2. st \in States /\ x \in Int
      BY <1>1, <1>2, <2>1, <3>1
    <3>3. "median" \in Running \cup {"median"}
      OBVIOUS
    <3>4. update("median", st, x).list = Append(st.list, x)
      BY <3>2, <3>3, UpdateIs
    <3> QED BY <2>3, <3>1, <3>4
  <2>5. PICK q : Arranged(value, r, F[r].list, q)
    BY <2>2 DEF Good
  <2>6. IsFiniteSet(r) /\ m \notin r /\ r \cup {m} = w
    BY <1>1, <2>1, FS_Subset
  <2>7. \E p : Arranged(value, r \cup {m}, Append(F[r].list, value[m]), p)
    <3> HIDE DEF r
    <3> QED BY <1>1, <2>1, <2>5, <2>6, ArrangedStep
  <2>8. Good(w)
    BY <2>4, <2>6, <2>7 DEF Good
  <2> QED BY <1>5, <2>8
<1> QED BY <1>6, <1>7

LEMMA SameRanks ==
    ASSUME NEW value, Sample(value), NEW list, NEW q, Arranged(value, DOMAIN value, list, q), NEW k, NEW x
    PROVE  Ranked(list, k, x) <=> Ranked(value, k, x)
<1> DEFINE n == Cardinality(DOMAIN value)
           S == DOMAIN value
<1>1. /\ q \in Bijection(1..n, S) /\ q \in [1..n -> S] /\ \A s \in S : \E j \in 1..n : q[j] = s
      /\ DOMAIN list = 1..n /\ \A j \in 1..n : list[j] = value[q[j]]
  BY DEF Arranged, Bijection, Injection, Surjection
<1>2. IsFiniteSet(1..n)
  <2>1. n \in Nat
    BY FS_CardinalityType DEF Sample
  <2> QED BY <2>1, FS_Interval
<1> HIDE DEF n
<1>3. Range(list) = Range(value)
  BY <1>1 DEF Range
<1>4. Below(list, x) = Below(value, x)
  <2> DEFINE J == {j \in 1..n : list[j] < x}
             I == {i \in S : value[i] < x}
  <2>1. \A j \in 1..n : j \in J <=> q[j] \in I
    BY <1>1
  <2>2. J \in SUBSET (1..n) /\ I \in SUBSET S
    OBVIOUS
  <2>3. Cardinality(J) = Cardinality(I)
    <3> HIDE DEF J, I
    <3>1. q \in Bijection(1..n, S)
      BY <1>1
    <3>2. PICK A : A = 1..n
      OBVIOUS
    <3>3. PICK D : D = S
      OBVIOUS
    <3>4. /\ q \in Bijection(A, D) /\ IsFiniteSet(A) /\ J \in SUBSET A /\ I \in SUBSET D
          /\ \A j \in A : j \in J <=> q[j] \in I
      BY <1>2, <2>1, <2>2, <3>1, <3>2, <3>3
    <3> QED BY <3>4, SameNumber
  <2> QED BY <1>1, <2>3 DEF Below
<1>5. AtMost(list, x) = AtMost(value, x)
  <2> DEFINE J == {j \in 1..n : list[j] <= x}
             I == {i \in S : value[i] <= x}
  <2>1. \A j \in 1..n : j \in J <=> q[j] \in I
    BY <1>1
  <2>2. J \in SUBSET (1..n) /\ I \in SUBSET S
    OBVIOUS
  <2>3. Cardinality(J) = Cardinality(I)
    <3> HIDE DEF J, I
    <3>1. q \in Bijection(1..n, S)
      BY <1>1
    <3>2. PICK A : A = 1..n
      OBVIOUS
    <3>3. PICK D : D = S
      OBVIOUS
    <3>4. /\ q \in Bijection(A, D) /\ IsFiniteSet(A) /\ J \in SUBSET A /\ I \in SUBSET D
          /\ \A j \in A : j \in J <=> q[j] \in I
      BY <1>2, <2>1, <2>2, <3>1, <3>2, <3>3
    <3> QED BY <3>4, SameNumber
  <2> QED BY <1>1, <2>3 DEF AtMost
<1> QED BY <1>3, <1>4, <1>5 DEF Ranked

\* The median of the list is the value in the middle.
LEMMA MedianIs ==
    ASSUME NEW value, Sample(value), NEW list, NEW q, Arranged(value, DOMAIN value, list, q)
    PROVE  MedianOf(list) = (Min(Mid(value)) + Max(Mid(value))) \div 2
<1> DEFINE n == Cardinality(DOMAIN value)
           h == n \div 2
<1>1. Len(list) = n /\ list # <<>> /\ n \in Nat \ {0} /\ n = Cardinality(DOMAIN value)
  <2>1. Len(list) = n
    BY DEF Arranged
  <2>2. n \in Nat /\ n # 0
    BY FS_CardinalityType, FS_EmptySet DEF Sample
  <2>3. Len(<<>>) = 0
    OBVIOUS
  <2> QED BY <2>1, <2>2, <2>3
<1> HIDE DEF n
<1>2. /\ h \in Nat /\ h <= n
      /\ n % 2 = 1 => n = 2 * h + 1
      /\ n % 2 # 1 => n = 2 * h /\ h # 0
  <2>1. n \in Nat /\ n # 0
    BY <1>1
  <2> QED BY <2>1
<1>3. h + 1 \in 1..n /\ (n % 2 # 1 => h \in 1..n)
  <2>1. PICK k : k = h
    OBVIOUS
  <2>2. k \in Nat /\ (n = 2 * k + 1 \/ (n = 2 * k /\ k # 0)) /\ n \in Nat /\ (n % 2 # 1 => k # 0)
    BY <1>1, <1>2, <2>1
  <2>3. k + 1 \in 1..n
    BY <2>2
  <2>4. k # 0 => k \in 1..n
    BY <2>2
  <2> QED BY <2>1, <2>2, <2>3, <2>4
<1>4. ASSUME NEW k \in 1..n PROVE Ranked(value, k, Sorted(list, k))
  <2>1. PICK x : Ranked(value, k, x)
    BY <1>1, <1>4, RankExists
  <2>2. Ranked(list, k, x)
    BY <2>1, SameRanks
  <2>3. Sorted(list, k) = CHOOSE y \in Range(list) : Below(list, y) < k /\ AtMost(list, y) >= k
    BY DEF Sorted, Below, AtMost
  <2>4. Ranked(list, k, Sorted(list, k))
    BY <2>2, <2>3 DEF Ranked
  <2> QED BY <2>4, SameRanks
<1> HIDE DEF h
<1>5. CASE n % 2 = 1
  <2>1. Ranked(value, h + 1, Sorted(list, h + 1))
    BY <1>3, <1>4
  <2>2. PICK x : x = Sorted(list, h + 1)
    OBVIOUS
  <2>3. MedianOf(list) = x
    BY <1>1, <1>5, <2>2 DEF MedianOf, h
  <2>4. Min(Mid(value)) = x /\ Max(Mid(value)) = x /\ x \in Int
    BY <1>1, <1>2, <1>5, <2>1, <2>2, MiddleOdd
  <2>5. (x + x) \div 2 = x
    BY <2>4
  <2> QED BY <2>3, <2>4, <2>5
<1>6. CASE n % 2 # 1
  <2>1. Ranked(value, h + 1, Sorted(list, h + 1)) /\ Ranked(value, h, Sorted(list, h))
    BY <1>3, <1>4, <1>6
  <2>2. PICK x, z : x = Sorted(list, h) /\ z = Sorted(list, h + 1)
    OBVIOUS
  <2>3. MedianOf(list) = (z + x) \div 2
    BY <1>1, <1>6, <2>2 DEF MedianOf, h
  <2>4. Min(Mid(value)) = x /\ Max(Mid(value)) = z /\ x \in Int /\ z \in Int
    BY <1>1, <1>2, <1>6, <2>1, <2>2, MiddleEven
  <2>5. z + x = x + z
    BY <2>4
  <2> QED BY <2>3, <2>4, <2>5
<1> QED BY <1>5, <1>6

-------------------------------------------------------------------------------
\* Sums, and the aggregate of a slice.

\* The sum of the values of the images in s, as the mean adds them.
Total(value, S, s) == IF s = {} THEN 0 ELSE ImageFold("mean", value, S)[s].v

LEMMA TotalStep ==
    ASSUME NEW value, NEW S, Numbers(value, S), NEW s \in SUBSET S
    PROVE  /\ Total(value, S, s) \in Int
           /\ s # {} => Total(value, S, s) = value[Max(s)] + Total(value, S, s \ {Max(s)})
<1> DEFINE F == ImageFold("mean", value, S)
<1>1. S \in SUBSET Int /\ IsFiniteSet(S) /\ \A i \in S : value[i] \in Int
  BY DEF Numbers
<1>2. \A r \in SUBSET S : F[r] = ImageEquation("mean", value, F, r)
  BY <1>1, ImageFoldIs
<1>3. \A r \in SUBSET S : Folded("mean", value, r, F[r])
  <2>1. "mean" \in Running
    BY DEF Running
  <2> QED BY <2>1, FoldIs
<1>4. \A r \in SUBSET S : Total(value, S, r) = IF r = {} THEN 0 ELSE F[r].v
  BY DEF Total
<1> HIDE DEF F
<1>5. \A r \in SUBSET S : F[r] \in States /\ (r = {} => F[r].v = NaN) /\ (r # {} => F[r].v \in Int)
  BY <1>3 DEF Folded, Running
<1>6. \A r \in SUBSET S : Total(value, S, r) \in Int
  BY <1>4, <1>5
<1>7. ASSUME s # {} PROVE Total(value, S, s) = value[Max(s)] + Total(value, S, s \ {Max(s)})
  <2> DEFINE m == Max(s)
             r == s \ {m}
  <2>1. m \in s /\ r \in SUBSET S /\ m \in S
    BY <1>1, <1>7, OneImageLess
  <2>2. F[s] = update("mean", F[r], value[m])
    BY <1>2, <1>7 DEF ImageEquation
  <2> HIDE DEF m
  <2>3. PICK st, x : st = F[r] /\ x = value[m]
    OBVIOUS
  <2>4. st \in States /\ x \in Int
    BY <1>1, <1>5, <2>1, <2>3
  <2>5. "mean" \in Running \cup {"median"}
    BY DEF Running
  <2>6. update("mean", st, x).v = IF st.v = NaN THEN x ELSE st.v + x
    BY <2>4, <2>5, UpdateIs
  <2>7. Total(value, S, s) = F[s].v
    BY <1>4, <1>7
  <2>8. CASE r = {}
    <3>1. Total(value, S, r) = 0 /\ st.v = NaN
      BY <1>4, <1>5, <2>1, <2>3, <2>8
    <3>2. F[s].v = x /\ x + 0 = x
      BY <2>2, <2>3, <2>4, <2>6, <3>1
    <3> QED BY <2>3, <2>7, <3>1, <3>2 DEF m
  <2>9. CASE r # {}
    <3>1. Total(value, S, r) = st.v /\ st.v \in Int
      BY <1>4, <1>5, <2>1, <2>3, <2>9
    <3>2. st.v # NaN
      BY <3>1, NoNumber
    <3>3. F[s].v = x + st.v
      BY <2>2, <2>3, <2>4, <2>6, <3>1, <3>2
    <3> QED BY <2>3, <2>7, <3>1, <3>3 DEF m
  <2> QED BY <2>8, <2>9
<1> QED BY <1>6, <1>7

\* Whatever value is taken first.
LEMMA TotalAny ==
    ASSUME NEW value, NEW S, Numbers(value, S), NEW s \in SUBSET S, NEW y \in s
    PROVE  Total(value, S, s) = value[y] + Total(value, S, s \ {y})
<1> DEFINE T(r) == Total(value, S, r)
           Good(r) == \A x \in r : T(r) = value[x] + T(r \ {x})
           W == {r \in SUBSET S : ~Good(r)}
<1>1. S \in SUBSET Int /\ IsFiniteSet(S) /\ \A i \in S : value[i] \in Int
  BY DEF Numbers
<1>2. \A r \in SUBSET S : T(r) \in Int /\ (r # {} => T(r) = value[Max(r)] + T(r \ {Max(r)}))
  BY TotalStep
<1> HIDE DEF T
<1>3. SUFFICES ASSUME W # {} PROVE FALSE
  <2>1. Good(s) => T(s) = value[y] + T(s \ {y})
    OBVIOUS
  <2> HIDE DEF Good
  <2> QED BY <2>1 DEF T
<1>4. PICK w \in W : \A x \in w : w \ {x} \notin W
  <2>1. W \in SUBSET SUBSET S
    OBVIOUS
  <2> HIDE DEF W
  <2> QED BY <1>1, <1>3, <2>1, SmallestSet
<1>5. PICK x \in w : T(w) # value[x] + T(w \ {x})
  OBVIOUS
<1> DEFINE m == Max(w)
<1>6. m \in w /\ w \in SUBSET S /\ T(w) = value[m] + T(w \ {m})
  BY <1>1, <1>2, <1>4, <1>5, OneImageLess
<1> HIDE DEF m
<1>7. x # m
  BY <1>5, <1>6
<1>8. Good(w \ {m}) /\ Good(w \ {x})
  BY <1>4, <1>5, <1>6
<1>9. T(w \ {m}) = value[x] + T((w \ {m}) \ {x})
  BY <1>5, <1>7, <1>8
<1>10. T(w \ {x}) = value[m] + T((w \ {x}) \ {m})
  BY <1>6, <1>7, <1>8
<1>11. (w \ {m}) \ {x} = (w \ {x}) \ {m}
  OBVIOUS
<1>12. PICK u \in Int, v \in Int, k \in Int : u = value[x] /\ v = value[m] /\ k = T((w \ {x}) \ {m})
  BY <1>1, <1>2, <1>5, <1>6
<1>13. T(w) = v + (u + k) /\ value[x] + T(w \ {x}) = u + (v + k)
  BY <1>6, <1>9, <1>10, <1>11, <1>12
<1> QED BY <1>5, <1>12, <1>13

\* SumFunction takes the values in an order of its own.
PickOf(s) == CHOOSE x \in s : TRUE
SumEquation(value, g, s) == IF s = {} THEN 0 ELSE value[PickOf(s)] + g[s \ {PickOf(s)}]
SumFold(value, S) == CHOOSE g : g = [s \in SUBSET S |-> SumEquation(value, g, s)]

LEMMA SumIs ==
    ASSUME NEW value, Numbers(value, DOMAIN value)
    PROVE  SumFunction(value) = Total(value, DOMAIN value, DOMAIN value)
<1> DEFINE S == DOMAIN value
           T(r) == Total(value, S, r)
           g == [s \in SUBSET S |-> T(s)]
           h == SumFold(value, S)
           W == {s \in SUBSET S : h[s] # T(s)}
<1>1. SumFunction(value) = h[S]
  BY DEF SumFunction, SumFunctionOnSet, FoldFunctionOnSet, MapThenFoldSet, SumFold, SumEquation, PickOf
<1>2. IsFiniteSet(S)
  BY DEF Numbers
<1>3. T({}) = 0
  BY DEF Total
<1>4. ASSUME NEW s \in SUBSET S, s # {}
      PROVE  PickOf(s) \in s /\ s \ {PickOf(s)} \in SUBSET S /\ T(s) = value[PickOf(s)] + T(s \ {PickOf(s)})
  <2>1. PickOf(s) \in s
    BY <1>4 DEF PickOf
  <2> QED BY <2>1, TotalAny
<1> HIDE DEF T
<1>5. \A s \in SUBSET S : g[s] = SumEquation(value, g, s)
  BY <1>3, <1>4 DEF SumEquation
<1>6. g = [s \in SUBSET S |-> SumEquation(value, g, s)]
  BY <1>5
<1> HIDE DEF g
<1>7. h = [s \in SUBSET S |-> SumEquation(value, h, s)]
  BY <1>6 DEF SumFold
<1> HIDE DEF h
<1>8. SUFFICES ASSUME W # {} PROVE FALSE
  BY <1>1 DEF T
<1>9. PICK w \in W : \A x \in w : w \ {x} \notin W
  <2>1. W \in SUBSET SUBSET S
    OBVIOUS
  <2> HIDE DEF W
  <2> QED BY <1>2, <1>8, <2>1, SmallestSet
<1>10. w \in SUBSET S /\ h[w] # T(w) /\ h[w] = SumEquation(value, h, w)
  BY <1>7
<1>11. CASE w = {}
  BY <1>3, <1>10, <1>11 DEF SumEquation
<1>12. CASE w # {}
  <2>1. PickOf(w) \in w /\ w \ {PickOf(w)} \in SUBSET S /\ T(w) = value[PickOf(w)] + T(w \ {PickOf(w)})
    BY <1>4, <1>10, <1>12
  <2>2. h[w \ {PickOf(w)}] = T(w \ {PickOf(w)})
    BY <1>9, <2>1
  <2>3. h[w] = value[PickOf(w)] + h[w \ {PickOf(w)}]
    BY <1>10, <1>12 DEF SumEquation
  <2> QED BY <1>10, <2>1, <2>2, <2>3
<1> QED BY <1>11, <1>12

LEMMA AggregateCases ==
    ASSUME NEW a, NEW value, DOMAIN value # {}
    PROVE  /\ a = "first" => Aggregate(a, value) = value[Min(DOMAIN value)]
           /\ a = "last" => Aggregate(a, value) = value[Max(DOMAIN value)]
           /\ a = "min" => Aggregate(a, value) = Min(Range(value))
           /\ a = "max" => Aggregate(a, value) = Max(Range(value))
           /\ a = "mean" => Aggregate(a, value) = SumFunction(value) \div Cardinality(DOMAIN value)
           /\ a = "median" => Aggregate(a, value) = (Min(Mid(value)) + Max(Mid(value))) \div 2
<1>1. CASE a = "first"
  BY <1>1, Zenon DEF Aggregate
<1>2. CASE a = "last"
  BY <1>2, Zenon DEF Aggregate
<1>3. CASE a = "min"
  BY <1>3, Zenon DEF Aggregate
<1>4. CASE a = "max"
  BY <1>4, Zenon DEF Aggregate
<1>5. CASE a = "mean"
  BY <1>5, Zenon DEF Aggregate
<1>6. CASE a = "median"
  BY <1>6, Zenon DEF Aggregate, Mid, Below, Above
<1> QED BY <1>1, <1>2, <1>3, <1>4, <1>5, <1>6

\* Taking the images one by one gives the aggregate of their values.
LEMMA AggregateIs ==
    ASSUME NEW a \in Running \cup {"median"}, NEW value, Numbers(value, DOMAIN value)
    PROVE  Aggregated(a, value) = Aggregate(a, value)
<1> DEFINE S == DOMAIN value
           st == ImageFold(a, value, S)[S]
<1>1. S \in SUBSET Int /\ IsFiniteSet(S) /\ \A i \in S : value[i] \in Int
  BY DEF Numbers
<1>2. CASE S = {}
  BY <1>2, NoImages DEF Aggregate
<1>3. CASE S # {}
  <2>1. Aggregated(a, value) = finalize(a, st) /\ Folded(a, value, S, st)
    BY AggregatedIs, FoldIs
  <2>2. CASE a = "first"
    BY <1>3, <2>1, <2>2, FinalizeIs, AggregateCases DEF Folded
  <2>3. CASE a = "last"
    BY <1>3, <2>1, <2>3, FinalizeIs, AggregateCases DEF Folded
  <2> HIDE DEF st
  <2>4. CASE a = "min"
    <3>1. st.v \in Int /\ (\A i \in S : st.v <= value[i]) /\ \E i \in S : st.v = value[i]
      BY <1>3, <2>1, <2>4 DEF Folded, Running
    <3>2. st.v \in Range(value) /\ \A y \in Range(value) : st.v <= y /\ y \in Int
      BY <1>1, <3>1 DEF Range
    <3>3. PICK c : c = Min(Range(value))
      OBVIOUS
    <3>4. c \in Range(value) /\ c <= st.v
      BY <3>2, <3>3, LeastOf
    <3>5. c = st.v
      BY <3>1, <3>2, <3>4
    <3>6. Aggregated(a, value) = st.v
      BY <2>1, <2>4, FinalizeIs
    <3> QED BY <1>3, <2>4, <3>3, <3>5, <3>6, AggregateCases
  <2>5. CASE a = "max"
    <3>1. st.v \in Int /\ (\A i \in S : st.v >= value[i]) /\ \E i \in S : st.v = value[i]
      BY <1>3, <2>1, <2>5 DEF Folded, Running
    <3>2. st.v \in Range(value) /\ Range(value) \in SUBSET Int /\ \A y \in Range(value) : y <= st.v
      BY <1>1, <3>1 DEF Range
    <3>3. PICK c : c = Max(Range(value))
      OBVIOUS
    <3>4. c \in Range(value) /\ st.v <= c
      BY <3>2, <3>3, GreatestOf
    <3>5. c = st.v
      BY <3>1, <3>2, <3>4
    <3>6. Aggregated(a, value) = st.v
      BY <2>1, <2>5, FinalizeIs
    <3> QED BY <1>3, <2>5, <3>3, <3>5, <3>6, AggregateCases
  <2>6. CASE a = "mean"
    <3>1. st.v \in Int /\ st.n = Cardinality(S)
      BY <1>3, <2>1, <2>6 DEF Folded, Running
    <3>2. st.v = Total(value, S, S)
      BY <1>3, <2>6 DEF Total, st
    <3>3. st.v = SumFunction(value)
      BY <3>2, SumIs
    <3>4. Aggregated(a, value) = st.v \div st.n
      BY <2>1, <2>6, <3>1, NoNumber, FinalizeIs
    <3>5. Aggregate(a, value) = SumFunction(value) \div Cardinality(S)
      BY <1>3, <2>6, AggregateCases
    <3> QED BY <3>1, <3>3, <3>4, <3>5
  <2>7. CASE a = "median"
    <3>1. PICK q : Arranged(value, S, st.list, q)
      BY <1>1, <2>7, FoldList DEF st
    <3>2. Sample(value)
      BY <1>1, <1>3 DEF Sample
    <3>3. Aggregated(a, value) = MedianOf(st.list)
      BY <2>1, <2>7, FinalizeIs
    <3>4. Aggregate(a, value) = (Min(Mid(value)) + Max(Mid(value))) \div 2
      BY <1>3, <2>7, AggregateCases
    <3> QED BY <3>1, <3>2, <3>3, <3>4, MedianIs
  <2> QED BY <2>2, <2>3, <2>4, <2>5, <2>6, <2>7 DEF Running
<1> QED BY <1>2, <1>3

-------------------------------------------------------------------------------
\* Reading agrees with the definition of a cell.

\* The images that have a value for a cell.
Having(d, c, b, t, x) == {i \in ImageIds(d) : CellHas(d, c, b, t, x, i)}

LEMMA ExpectedIs ==
    ASSUME NEW d, NEW c, NEW b, NEW t, NEW x
    PROVE  Expected(d, c, b, t, x)
              = Aggregate(c.agg, [i \in Having(d, c, b, t, x) |-> Contribution(c, d.refs, i, b, x)])
<1> DEFINE in(i) == d.images[i].date >= c.view.t0.p /\ cube_time(c.view, d.images[i].date) = t
           value(i) == Contribution(c, d.refs, i, b, x)
<1>1. Expected(d, c, b, t, x) = Aggregate(c.agg, [i \in {k \in ImageIds(d) : in(k) /\ value(k) # NaN} |-> value(i)])
  BY DEF Expected
<1>2. {k \in ImageIds(d) : in(k) /\ value(k) # NaN} = Having(d, c, b, t, x)
  BY DEF Having, CellHas
<1> QED BY <1>1, <1>2

\* A cell is the aggregate of the images that have a value there.
LEMMA CellIs ==
    ASSUME NEW d, Sound(d), WithinExtent(d), NEW c, CubeOK(c), Aligned(c.view) \/ c.st >= nt(c.view),
           c.agg \in Running \cup {"median"},
           NEW id \in DOMAIN c.chunks.ext, NEW b \in Range(c.bands), NEW t \in 0..(c.chunks.size[id].t - 1),
           NEW k \in 0..(c.chunks.size[id].x - 1)
    PROVE  CellValue(d, c, id, b, t, k) = Expected(d, c, b, LimitsOf(c, id).low.t + t, CellStartAt(c, id, k))
<1> DEFINE s == LimitsOf(c, id).low.t + t
           x == CellStartAt(c, id, k)
           J == Having(d, c, b, s, x)
           I == InSlice(d, c, id, t)
           g == [i \in J |-> Contribution(c, d.refs, i, b, x)]
           f == [i \in I |-> Contribution(c, Hits(d, c, id), i, b, x)]
<1>1. x \in Int
  BY ChunkCellsAre, CellInBounds
<1>2. \A i : SliceHas(d, c, id, b, t, k, i) => CellHas(d, c, b, s, x, i)
  BY FoundHas
<1>3. \A i : CellHas(d, c, b, s, x, i) => SliceHas(d, c, id, b, t, k, i)
  BY HasFound
<1> HIDE DEF s
<1>4. Expected(d, c, b, s, x) = Aggregate(c.agg, g)
  BY ExpectedIs
<1>5. \A i : i \in J <=> i \in I /\ Contribution(c, Hits(d, c, id), i, b, x) # NaN
  BY <1>2, <1>3 DEF Having, CellHas, SliceHas
<1>6. \A i \in I : Contribution(c, Hits(d, c, id), i, b, x) = Contribution(c, d.refs, i, b, x)
  BY InSliceIs, FoundContribution
<1>7. I \in SUBSET Int /\ IsFiniteSet(I) /\ J \in SUBSET I
  BY <1>5, SliceImages
<1>8. Numbers(g, DOMAIN g)
  <2>1. DOMAIN g = J /\ IsFiniteSet(J)
    BY <1>7, FS_Subset
  <2>2. \A i \in J : Contribution(c, d.refs, i, b, x) \in Int
    BY <1>1, <1>5, <1>6, ContributionIs
  <2> HIDE DEF J
  <2> QED BY <1>7, <2>1, <2>2 DEF Numbers
<1>9. Aggregated(c.agg, g) = Aggregate(c.agg, g)
  BY <1>8, AggregateIs
<1>10. CASE Hits(d, c, id) = {}
  <2>1. I = {}
    BY <1>10, InSliceIs
  <2>2. DOMAIN g = {}
    BY <1>5, <2>1
  <2>3. Aggregate(c.agg, g) = NaN
    BY <2>2 DEF Aggregate
  <2>4. CellValue(d, c, id, b, t, k) = NaN
    BY <1>10 DEF CellValue
  <2> QED BY <1>4, <2>3, <2>4 DEF s
<1>11. CASE Hits(d, c, id) # {}
  <2>1. CellValue(d, c, id, b, t, k) = Aggregated(c.agg, f)
    BY <1>11 DEF CellValue
  <2>2. Passes(c.agg)
    BY DEF Passes, Running
  <2>3. DOMAIN f = I /\ DOMAIN g = J
    OBVIOUS
  <2>4. \A i \in J : g[i] = f[i]
    BY <1>5, <1>6
  <2>5. \A i \in I \ J : f[i] = NaN
    BY <1>5
  <2> HIDE DEF f, g, I, J
  <2>6. Aggregated(c.agg, f) = Aggregated(c.agg, g)
    BY <1>7, <2>2, <2>3, <2>4, <2>5, PassedOver
  <2> QED BY <1>4, <1>9, <2>1, <2>6 DEF s
<1> QED BY <1>10, <1>11

\* Reading chunk by chunk loses no image and counts none twice (read_chunk): the slice that an
\* image falls into within its chunk is its slice in the cube, the search by the bounds of the
\* chunk finds every image that has a value in it, and taking the images one by one in the order
\* of their ids gives the aggregate of their values.
THEOREM ReadsCorrect == Spec => []ReadsAgree
<1>1. ASSUME CubeInv PROVE ReadsAgree
  <2> DEFINE c == cubec
             id == chunk.id
             x(k) == c.view.win.left + (LimitsOf(c, id).low.x + k) * CellWidth(c.view)
  <2>1. SUFFICES ASSUME id >= 0, Values(c), WithinExtent(db), Aligned(c.view) \/ c.st >= nt(c.view),
                        NEW e \in Indices(c, id)
                 PROVE  At(chunk.out, e) = Expected(db, c, c.bands[e[1]], LimitsOf(c, id).low.t + e[2], x(e[3]))
    BY DEF ReadsAgree, Indices, LimitsOf
  <2>2. /\ id \in DOMAIN c.chunks.ext /\ chunk.out = read_chunk(db, c, id)
        /\ CubeOK(c) /\ c.agg \in Aggregations
    BY <1>1, <2>1, ChunkRead DEF CubeOK
  <2>3. Sound(db)
    BY <1>1 DEF CubeInv, CollectionInv
  <2>4. c.agg \in Running \cup {"median"}
    BY <2>1, <2>2 DEF Values, Aggregations, Running
  <2> HIDE DEF c, id
  <2>5. PICK k, t, l : k = e[1] /\ t = e[2] /\ l = e[3]
    OBVIOUS
  <2>6. k \in DOMAIN c.bands /\ t \in 0..(c.chunks.size[id].t - 1) /\ l \in 0..(c.chunks.size[id].x - 1)
    BY <2>1, <2>5 DEF Indices
  <2>7. At(chunk.out, e) = CellValue(db, c, id, c.bands[k], t, l)
    BY <2>1, <2>2, <2>5, ElementIs
  <2>8. PICK b : b = c.bands[k]
    OBVIOUS
  <2>9. b \in Range(c.bands)
    BY <2>6, <2>8 DEF Range
  <2>10. CellValue(db, c, id, b, t, l) = Expected(db, c, b, LimitsOf(c, id).low.t + t, CellStartAt(c, id, l))
    BY <2>1, <2>2, <2>3, <2>4, <2>6, <2>9, CellIs
  <2>11. CellStartAt(c, id, l) = x(l)
    BY <2>2, <2>6, ChunkCellsAre, CellInBounds
  <2> QED BY <2>5, <2>7, <2>8, <2>10, <2>11
<1> QED BY <1>1, InvAlways, PTL

================================================================================
