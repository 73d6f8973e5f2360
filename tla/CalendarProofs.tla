---------------------------- MODULE CalendarProofs --------------------------
(***************************************************************************)
(* Schedules on the calendar, for every start_date and any number of runs. *)
(***************************************************************************)
EXTENDS Calendar, TLAPS

-----------------------------------------------------------------------------
(* Years                                                                   *)

\* Days from 0001-01-01 to the first of the year.
NewYear(y) ==
  365 * (y - 1) + ((y - 1) \div 4) - ((y - 1) \div 100) + ((y - 1) \div 400)

LeapDay(y) == IF Leap(y) THEN 1 ELSE 0

LEMMA YearLength ==
  ASSUME NEW y \in Int
  PROVE  /\ NewYear(y) \in Int /\ NewYear(y + 1) \in Int
         /\ NewYear(y + 1) = NewYear(y) + 365 + LeapDay(y)
<1>1. /\ (y \div 4) - ((y - 1) \div 4) = IF y % 4 = 0 THEN 1 ELSE 0
      /\ (y \div 100) - ((y - 1) \div 100) = IF y % 100 = 0 THEN 1 ELSE 0
      /\ (y \div 400) - ((y - 1) \div 400) = IF y % 400 = 0 THEN 1 ELSE 0
  OBVIOUS
<1>2. (y % 100 = 0 => y % 4 = 0) /\ (y % 400 = 0 => y % 100 = 0)
  OBVIOUS
<1>3. NewYear(y + 1) = 365 * y + (y \div 4) - (y \div 100) + (y \div 400)
  BY DEF NewYear
<1> QED
  BY <1>1, <1>2, <1>3 DEF NewYear, LeapDay, Leap

\* A later year begins later.
LEMMA YearsInOrder ==
  ASSUME NEW y \in Int, NEW z \in Int, y <= z
  PROVE  NewYear(y) <= NewYear(z)
BY DEF NewYear

\* Where DateOf looks for the year of a day.
LEMMA YearInReach ==
  ASSUME NEW y \in Nat, NEW n \in Int, n >= -365, NewYear(y) <= n, n < NewYear(y + 1)
  PROVE  y \in (n \div 366)..((n \div 365) + 1)
BY DEF NewYear

-----------------------------------------------------------------------------
(* Months                                                                  *)

\* Days from the first of the year to the first of the month.
Elapsed(y, m) ==
  CASE m = 1 -> 0 [] m = 2 -> 31
    [] m = 3 -> 59 + LeapDay(y) [] m = 4 -> 90 + LeapDay(y)
    [] m = 5 -> 120 + LeapDay(y) [] m = 6 -> 151 + LeapDay(y)
    [] m = 7 -> 181 + LeapDay(y) [] m = 8 -> 212 + LeapDay(y)
    [] m = 9 -> 243 + LeapDay(y) [] m = 10 -> 273 + LeapDay(y)
    [] m = 11 -> 304 + LeapDay(y) [] m = 12 -> 334 + LeapDay(y)

LEMMA MonthBegins ==
  ASSUME NEW y \in Int, NEW m \in Month
  PROVE  DaysBeforeMonth(y, m) = NewYear(y) + Elapsed(y, m)
<1>1. m \in {1, 2, 3, 4, 5, 6, 7, 8, 9, 10, 11, 12}
  BY DEF Month
<1> DEFINE inYear == <<0, 31, 59, 90, 120, 151, 181, 212, 243, 273, 304, 334>>
<1>2. inYear[m] + (IF m > 2 /\ Leap(y) THEN 1 ELSE 0) = Elapsed(y, m)
  BY <1>1 DEF Elapsed, LeapDay
<1>3. DaysBeforeMonth(y, m) =
        NewYear(y) + inYear[m] + (IF m > 2 /\ Leap(y) THEN 1 ELSE 0)
  BY DEF DaysBeforeMonth, NewYear
<1>4. inYear[m] \in Int /\ NewYear(y) \in Int
  BY <1>1, YearLength
<1> QED
  BY <1>2, <1>3, <1>4

\* A month ends where the next one begins, December with the year.
LEMMA MonthLength ==
  ASSUME NEW y \in Int, NEW m \in Month
  PROVE  /\ Elapsed(y, m) \in Nat /\ DaysInMonth(y, m) \in 28..31
         /\ m < 12 => Elapsed(y, m) + DaysInMonth(y, m) = Elapsed(y, m + 1)
         /\ m = 12 => Elapsed(y, m) + DaysInMonth(y, m) = 365 + LeapDay(y)
<1>1. m \in {1, 2, 3, 4, 5, 6, 7, 8, 9, 10, 11, 12}
  BY DEF Month
<1> QED
  BY <1>1 DEF Elapsed, LeapDay, DaysInMonth

LEMMA MonthsInOrder ==
  ASSUME NEW y \in Int, NEW m \in Month, NEW k \in Month, m < k
  PROVE  /\ Elapsed(y, m) \in Nat /\ Elapsed(y, k) \in Nat
         /\ Elapsed(y, m) + DaysInMonth(y, m) <= Elapsed(y, k)
<1>1. /\ m \in {1, 2, 3, 4, 5, 6, 7, 8, 9, 10, 11, 12}
      /\ k \in {1, 2, 3, 4, 5, 6, 7, 8, 9, 10, 11, 12}
  BY DEF Month
<1> QED
  BY <1>1 DEF Elapsed, LeapDay, DaysInMonth

-----------------------------------------------------------------------------
(* Dates                                                                   *)

\* The days of a year lie between its beginning and the next year's.
LEMMA DayInYear ==
  ASSUME NEW y \in Int, NEW m \in Month, NEW d \in 1..DaysInMonth(y, m)
  PROVE  LET n == DaysBeforeMonth(y, m) + d - 1
         IN  n \in Int /\ NewYear(y) <= n /\ n < NewYear(y + 1)
<1>1. d \in Int /\ 1 <= d /\ d <= DaysInMonth(y, m)
  BY MonthLength
<1>2. /\ DaysBeforeMonth(y, m) = NewYear(y) + Elapsed(y, m)
      /\ NewYear(y) \in Int /\ NewYear(y + 1) = NewYear(y) + 365 + LeapDay(y)
  BY MonthBegins, YearLength
<1>3. Elapsed(y, m) \in Nat /\ Elapsed(y, m) + DaysInMonth(y, m) <= 365 + LeapDay(y)
  <2>1. CASE m = 12
    BY <2>1, MonthLength DEF LeapDay
  <2>2. CASE m # 12
    <3>1. m < 12 /\ 12 \in Month
      BY <2>2 DEF Month
    <3>2. Elapsed(y, m) + DaysInMonth(y, m) <= Elapsed(y, 12)
      BY <3>1, MonthsInOrder
    <3>3. Elapsed(y, 12) = 334 + LeapDay(y)
      BY DEF Elapsed
    <3> QED
      BY <3>2, <3>3, MonthLength DEF LeapDay
  <2> QED
    BY <2>1, <2>2
<1> QED
  BY <1>1, <1>2, <1>3, MonthLength DEF LeapDay

\* DateOf finds the date of a day: no other year or month holds it.  (A report of
\* the year 0 ends on a date after its first month.)
LEMMA DateOfDay ==
  ASSUME NEW y \in Nat, NEW m \in Month, NEW d \in 1..DaysInMonth(y, m), y = 0 => m > 1
  PROVE  DateOf(DaysBeforeMonth(y, m) + d - 1) = Date(y, m, d)
<1> DEFINE n == DaysBeforeMonth(y, m) + d - 1
           InYear(year) == DaysBeforeMonth(year, 1) <= n /\ n < DaysBeforeMonth(year + 1, 1)
           Reach == (n \div 366)..((n \div 365) + 1)
           InMonthOf(month) == /\ DaysBeforeMonth(y, month) <= n
                               /\ n < DaysBeforeMonth(y, month) + DaysInMonth(y, month)
<1>0. /\ n \in Int /\ NewYear(y) <= n /\ n < NewYear(y + 1) /\ y \in Int
      /\ d \in Int /\ 1 <= d /\ d <= DaysInMonth(y, m)
  BY DayInYear, MonthLength
<1>1. n \in Int /\ n >= -365
  <2>1. NewYear(1) = 0 /\ NewYear(0) = -366 /\ NewYear(y) \in Int
    <3>1. 0 \div 4 = 0 /\ 0 \div 100 = 0 /\ 0 \div 400 = 0 /\ 0 % 4 = 0 /\ 0 % 100 = 0 /\ 0 % 400 = 0
      OBVIOUS
    <3>2. NewYear(0) \in Int /\ NewYear(0 + 1) = NewYear(0) + 365 + LeapDay(0)
      BY YearLength
    <3>3. LeapDay(0) = 1
      BY <3>1 DEF LeapDay, Leap
    <3>4. NewYear(1) = 0
      <4>1. 1 - 1 = 0 /\ 365 * 0 = 0
        OBVIOUS
      <4> QED
        BY <3>1, <4>1 DEF NewYear
    <3>5. NewYear(y) \in Int
      BY <1>0, YearLength
    <3> QED
      BY <3>2, <3>3, <3>4, <3>5
  <2>2. CASE y = 0
    <3>1. 1 \in Month /\ 1 < m
      BY <2>2 DEF Month
    <3>2. Elapsed(y, 1) + DaysInMonth(y, 1) <= Elapsed(y, m) /\ Elapsed(y, m) \in Nat
      BY <1>0, <3>1, MonthsInOrder
    <3>3. Elapsed(y, 1) = 0 /\ DaysInMonth(y, 1) = 31
      BY DEF Elapsed, DaysInMonth
    <3>4. DaysBeforeMonth(y, m) = NewYear(y) + Elapsed(y, m)
      BY <1>0, MonthBegins
    <3> QED
      BY <1>0, <2>1, <2>2, <3>2, <3>3, <3>4
  <2>3. CASE y # 0
    <3>1. 1 <= y
      BY <2>3
    <3>2. NewYear(1) <= NewYear(y)
      BY <1>0, <3>1, YearsInOrder
    <3> QED
      BY <1>0, <2>1, <3>2
  <2> QED
    BY <2>2, <2>3
<1>2. \A year \in Int : InYear(year) <=> NewYear(year) <= n /\ n < NewYear(year + 1)
  <2> SUFFICES ASSUME NEW year \in Int
               PROVE  InYear(year) <=> NewYear(year) <= n /\ n < NewYear(year + 1)
    OBVIOUS
  <2>1. \A z \in Int : DaysBeforeMonth(z, 1) = NewYear(z)
    <3> SUFFICES ASSUME NEW z \in Int
                 PROVE  DaysBeforeMonth(z, 1) = NewYear(z)
      OBVIOUS
    <3>1. DaysBeforeMonth(z, 1) = NewYear(z) + Elapsed(z, 1)
      BY MonthBegins DEF Month
    <3>2. Elapsed(z, 1) = 0 /\ NewYear(z) \in Int
      BY YearLength DEF Elapsed
    <3> QED
      BY <3>1, <3>2
  <2> HIDE DEF n
  <2> QED
    BY <2>1
<1> HIDE DEF n, InYear
<1>3. y \in Reach /\ InYear(y)
  BY <1>0, <1>1, <1>2, YearInReach
<1>4. \A year \in Reach : InYear(year) => year = y
  <2> SUFFICES ASSUME NEW year \in Reach, InYear(year)
               PROVE  year = y
    OBVIOUS
  <2>1. year \in Int
    BY <1>1
  <2>2. /\ NewYear(year) <= n /\ n < NewYear(year + 1)
        /\ NewYear(year) \in Int /\ NewYear(year + 1) \in Int
        /\ NewYear(y) \in Int /\ NewYear(y + 1) \in Int
    BY <1>0, <1>2, <2>1, YearLength
  <2>3. CASE year < y
    <3>1. NewYear(year + 1) <= NewYear(y)
      BY <1>0, <2>1, <2>3, YearsInOrder
    <3> QED
      BY <1>0, <2>2, <3>1
  <2>4. CASE y < year
    <3>1. NewYear(y + 1) <= NewYear(year)
      BY <1>0, <2>1, <2>4, YearsInOrder
    <3> QED
      BY <1>0, <2>2, <3>1
  <2> QED
    BY <1>0, <2>1, <2>3, <2>4
<1>5. (CHOOSE year \in Reach : InYear(year)) = y
  BY <1>3, <1>4
<1>6. /\ n = DaysBeforeMonth(y, m) + d - 1 /\ NewYear(y) \in Int
      /\ \A k \in Month : DaysBeforeMonth(y, k) = NewYear(y) + Elapsed(y, k)
  BY <1>0, MonthBegins, YearLength DEF n
<1>7. InMonthOf(m)
  BY <1>0, <1>6, MonthLength
<1>8. \A k \in Month : InMonthOf(k) => k = m
  <2> SUFFICES ASSUME NEW k \in Month, InMonthOf(k), k # m
               PROVE  FALSE
    OBVIOUS
  <2>1. k \in Int /\ m \in Int
    BY DEF Month
  <2>2. /\ Elapsed(y, k) \in Nat /\ Elapsed(y, m) \in Nat
        /\ DaysInMonth(y, k) \in Int /\ DaysInMonth(y, m) \in Int
    BY <1>0, MonthLength
  <2>3. CASE k < m
    <3>1. Elapsed(y, k) + DaysInMonth(y, k) <= Elapsed(y, m)
      BY <1>0, <2>3, MonthsInOrder
    <3> QED
      BY <1>0, <1>6, <2>2, <3>1
  <2>4. CASE m < k
    <3>1. Elapsed(y, m) + DaysInMonth(y, m) <= Elapsed(y, k)
      BY <1>0, <2>4, MonthsInOrder
    <3> QED
      BY <1>0, <1>6, <2>2, <3>1
  <2> QED
    BY <2>1, <2>3, <2>4
<1>9. (CHOOSE month \in Month : InMonthOf(month)) = m
  <2> HIDE DEF InMonthOf
  <2> QED
    BY <1>7, <1>8
<1>10. DateOf(n) = Date(y, m, n - DaysBeforeMonth(y, m) + 1)
  BY <1>5, <1>9 DEF DateOf, InYear
<1>11. n - DaysBeforeMonth(y, m) + 1 = d
  BY <1>0, <1>6, MonthLength
<1> QED
  BY <1>10, <1>11 DEF n

NextMonthYear(y, m) == IF m = 12 THEN y + 1 ELSE y
NextMonth(m) == IF m = 12 THEN 1 ELSE m + 1

LEMMA NextMonthBegins ==
  ASSUME NEW y \in Int, NEW m \in Month
  PROVE  /\ NextMonthYear(y, m) \in Int /\ NextMonth(m) \in Month
         /\ DaysBeforeMonth(y, m) \in Int
         /\ DaysBeforeMonth(NextMonthYear(y, m), NextMonth(m)) =
              DaysBeforeMonth(y, m) + DaysInMonth(y, m)
<1>1. /\ DaysBeforeMonth(y, m) = NewYear(y) + Elapsed(y, m)
      /\ NewYear(y) \in Int /\ NewYear(y + 1) = NewYear(y) + 365 + LeapDay(y)
      /\ Elapsed(y, m) \in Nat /\ DaysInMonth(y, m) \in Int
  BY MonthBegins, YearLength, MonthLength
<1>2. CASE m = 12
  <2>1. NextMonthYear(y, m) = y + 1 /\ NextMonth(m) = 1 /\ 1 \in Month
    BY <1>2 DEF NextMonthYear, NextMonth, Month
  <2>2. DaysBeforeMonth(y + 1, 1) = NewYear(y + 1) + Elapsed(y + 1, 1)
    BY <2>1, MonthBegins
  <2>3. Elapsed(y + 1, 1) = 0
    BY DEF Elapsed
  <2>4. Elapsed(y, m) + DaysInMonth(y, m) = 365 + LeapDay(y)
    BY <1>2, MonthLength
  <2> QED
    BY <1>1, <2>1, <2>2, <2>3, <2>4 DEF LeapDay
<1>3. CASE m # 12
  <2>1. NextMonthYear(y, m) = y /\ NextMonth(m) = m + 1 /\ m + 1 \in Month /\ m < 12
    BY <1>3 DEF NextMonthYear, NextMonth, Month
  <2>2. DaysBeforeMonth(y, m + 1) = NewYear(y) + Elapsed(y, m + 1)
    BY <2>1, MonthBegins
  <2>3. Elapsed(y, m) + DaysInMonth(y, m) = Elapsed(y, m + 1)
    BY <2>1, MonthLength
  <2> QED
    BY <1>1, <2>1, <2>2, <2>3
<1> QED
  BY <1>2, <1>3

\* A day beyond the month is one of the next month's.
Spilled(y, m, d) ==
  IF d <= DaysInMonth(y, m)
    THEN Date(y, m, d)
    ELSE Date(NextMonthYear(y, m), NextMonth(m), d - DaysInMonth(y, m))

LEMMA Spill ==
  ASSUME NEW y \in Nat, NEW m \in Month, NEW d \in Nat \ {0}, y = 0 => m > 1,
         d <= DaysInMonth(y, m) + 28
  PROVE  /\ DateOf(DaysBeforeMonth(y, m) + d - 1) = Spilled(y, m, d)
         /\ y > 0 => IsDate(Spilled(y, m, d))
         /\ DayNumber(Spilled(y, m, d)) = DaysBeforeMonth(y, m) + d - 1
<1>0. y \in Int /\ DaysInMonth(y, m) \in 28..31 /\ DaysBeforeMonth(y, m) \in Int
  BY MonthLength, NextMonthBegins
<1>1. CASE d <= DaysInMonth(y, m)
  <2>1. d \in 1..DaysInMonth(y, m)
    BY <1>0, <1>1
  <2>2. Spilled(y, m, d) = [year |-> y, month |-> m, day |-> d]
    BY <1>1 DEF Spilled, Date
  <2> QED
    BY <1>0, <2>1, <2>2, DateOfDay DEF IsDate, DayNumber, Date
<1>2. CASE ~(d <= DaysInMonth(y, m))
  <2> DEFINE z == NextMonthYear(y, m)
             k == NextMonth(m)
             e == d - DaysInMonth(y, m)
  <2>1. y > 0 => z > 0
    BY DEF NextMonthYear
  <2>2. z \in Nat /\ (z = 0 => k > 1) /\ k \in Month /\ z \in Int
    BY DEF NextMonthYear, NextMonth, Month
  <2>3. DaysInMonth(z, k) \in 28..31
    BY <2>2, MonthLength
  <2>4. e \in 1..DaysInMonth(z, k) /\ e \in Int
    BY <1>0, <1>2, <2>3
  <2>5. DaysBeforeMonth(z, k) = DaysBeforeMonth(y, m) + DaysInMonth(y, m)
    BY <1>0, NextMonthBegins
  <2>6. DaysBeforeMonth(z, k) + e - 1 = DaysBeforeMonth(y, m) + d - 1
    BY <1>0, <2>5
  <2>7. Spilled(y, m, d) = [year |-> z, month |-> k, day |-> e]
    BY <1>2 DEF Spilled, Date
  <2> HIDE DEF z, k, e
  <2>8. DateOf(DaysBeforeMonth(z, k) + e - 1) = Date(z, k, e)
    BY <2>2, <2>4, DateOfDay
  <2> QED
    BY <2>1, <2>2, <2>4, <2>6, <2>7, <2>8 DEF IsDate, DayNumber, Date
<1> QED
  BY <1>1, <1>2

-----------------------------------------------------------------------------
(* AddDate                                                                 *)

\* A month begins after every earlier one has ended.
LEMMA LaterMonth ==
  ASSUME NEW y \in Int, NEW m \in Month, NEW z \in Int, NEW k \in Month,
         y < z \/ (y = z /\ m < k)
  PROVE  DaysBeforeMonth(y, m) + DaysInMonth(y, m) <= DaysBeforeMonth(z, k)
<1>1. /\ DaysBeforeMonth(y, m) = NewYear(y) + Elapsed(y, m)
      /\ DaysBeforeMonth(z, k) = NewYear(z) + Elapsed(z, k)
      /\ NewYear(y) \in Int /\ NewYear(z) \in Int /\ NewYear(y + 1) \in Int
      /\ Elapsed(y, m) \in Nat /\ Elapsed(z, k) \in Nat
      /\ DaysInMonth(y, m) \in 28..31
  BY MonthBegins, YearLength, MonthLength
<1>2. CASE y = z /\ m < k
  <2>1. Elapsed(y, m) + DaysInMonth(y, m) <= Elapsed(y, k)
    BY <1>2, MonthsInOrder
  <2> QED
    BY <1>1, <1>2, <2>1
<1>3. CASE y < z
  <2>1. DaysInMonth(y, m) \in 1..DaysInMonth(y, m)
    BY <1>1
  <2>2. DaysBeforeMonth(y, m) + DaysInMonth(y, m) - 1 < NewYear(y + 1)
    BY <2>1, DayInYear
  <2>3. NewYear(y + 1) <= NewYear(z)
    BY <1>3, YearsInOrder
  <2> QED
    BY <1>1, <2>2, <2>3
<1> QED
  BY <1>2, <1>3

\* Days added to a date spill into the next month.
LEMMA AddDays ==
  ASSUME NEW y \in Nat \ {0}, NEW m \in Month, NEW d \in 1..DaysInMonth(y, m),
         NEW k \in 0..28
  PROVE  AddDate(Date(y, m, d), 0, k) = Spilled(y, m, d + k)
<1>1. /\ (12 * y + m - 1 + 0) \div 12 = y
      /\ ((12 * y + m - 1 + 0) % 12) + 1 = m
  BY DEF Month
<1>2. MonthIndex(Date(y, m, d)) = 12 * y + m - 1 /\ Date(y, m, d).day = d
  BY DEF MonthIndex, Date
<1>3. AddDate(Date(y, m, d), 0, k) = DateOf(DaysBeforeMonth(y, m) + d + k - 1)
  BY <1>1, <1>2 DEF AddDate
<1>4. /\ DaysInMonth(y, m) \in 28..31 /\ DaysBeforeMonth(y, m) \in Int
      /\ d + k \in Nat \ {0} /\ d + k <= DaysInMonth(y, m) + 28
  BY MonthLength, NextMonthBegins
<1>5. DaysBeforeMonth(y, m) + d + k - 1 = DaysBeforeMonth(y, m) + (d + k) - 1
  BY <1>4
<1> QED
  BY <1>3, <1>4, <1>5, Spill

\* A month added to a date is the same day of the next month, spilling into the
\* one after it.
LEMMA AddMonth ==
  ASSUME NEW y \in Nat, NEW m \in Month, NEW d \in 1..31
  PROVE  /\ AddDate(Date(y, m, d), 1, 0) =
              Spilled(NextMonthYear(y, m), NextMonth(m), d)
         /\ d = 1 => DayNumber(AddDate(Date(y, m, d), 1, 0)) =
                       DaysBeforeMonth(y, m) + DaysInMonth(y, m)
<1> DEFINE z == NextMonthYear(y, m)
           k == NextMonth(m)
<1>1. /\ (12 * y + m - 1 + 1) \div 12 = z
      /\ ((12 * y + m - 1 + 1) % 12) + 1 = k
  BY DEF Month, NextMonthYear, NextMonth
<1>2. MonthIndex(Date(y, m, d)) = 12 * y + m - 1 /\ Date(y, m, d).day = d
  BY DEF MonthIndex, Date
<1>3. /\ z \in Nat /\ k \in Month /\ (z = 0 => k > 1) /\ z \in Int
  BY DEF NextMonthYear, NextMonth, Month
<1>4. /\ DaysBeforeMonth(z, k) = DaysBeforeMonth(y, m) + DaysInMonth(y, m)
      /\ DaysBeforeMonth(z, k) \in Int
  BY <1>3, NextMonthBegins
<1> HIDE DEF z, k
<1>5. AddDate(Date(y, m, d), 1, 0) = DateOf(DaysBeforeMonth(z, k) + d + 0 - 1)
  BY <1>1, <1>2 DEF AddDate
<1>6. DaysInMonth(z, k) \in 28..31 /\ d \in Nat \ {0} /\ d <= DaysInMonth(z, k) + 28
  BY <1>3, MonthLength
<1>7. DaysBeforeMonth(z, k) + d + 0 - 1 = DaysBeforeMonth(z, k) + d - 1
  BY <1>4, <1>6
<1>8. /\ AddDate(Date(y, m, d), 1, 0) = Spilled(z, k, d)
      /\ DayNumber(Spilled(z, k, d)) = DaysBeforeMonth(z, k) + d - 1
  BY <1>3, <1>5, <1>6, <1>7, Spill
<1>9. d = 1 => DaysBeforeMonth(z, k) + d - 1 = DaysBeforeMonth(y, m) + DaysInMonth(y, m)
  BY <1>4
<1> QED
  BY <1>8, <1>9 DEF z, k

-----------------------------------------------------------------------------
(* Runs                                                                    *)

Dates == { t \in [year : Nat \ {0}, month : Month, day : 1..31] : IsDate(t) }

\* Where the rule stands in its months (months is counted from start_date's).
Schedule ==
  /\ frequency \in Frequency /\ start \in Dates /\ run \in Dates /\ runs \in Nat
  /\ MonthlySkipsAtMostOnce

LEMMA DatesAre ==
  ASSUME NEW t
  PROVE  t \in Dates <=>
           \E y \in Nat \ {0}, m \in Month, d \in 1..31 :
             t = Date(y, m, d) /\ d <= DaysInMonth(y, m)
<1>1. ASSUME t \in Dates
      PROVE  \E y \in Nat \ {0}, m \in Month, d \in 1..31 :
               t = Date(y, m, d) /\ d <= DaysInMonth(y, m)
  <2>1. /\ t.year \in Nat \ {0} /\ t.month \in Month /\ t.day \in 1..31
        /\ t.day \in 1..DaysInMonth(t.year, t.month)
        /\ t = Date(t.year, t.month, t.day)
    BY <1>1 DEF Dates, IsDate, Date
  <2>2. DaysInMonth(t.year, t.month) \in Int
    BY <2>1, MonthLength
  <2>3. t.day <= DaysInMonth(t.year, t.month)
    BY <2>1, <2>2
  <2> QED
    BY <2>1, <2>3
<1>2. ASSUME NEW y \in Nat \ {0}, NEW m \in Month, NEW d \in 1..31,
             t = Date(y, m, d), d <= DaysInMonth(y, m)
      PROVE  t \in Dates
  <2>1. DaysInMonth(y, m) \in 28..31 /\ d \in 1..DaysInMonth(y, m)
    BY <1>2, MonthLength
  <2> QED
    BY <1>2, <2>1 DEF Dates, IsDate, Date
<1> QED
  BY <1>1, <1>2

\* What spills over is a date again.
LEMMA SpilledDate ==
  ASSUME NEW y \in Nat \ {0}, NEW m \in Month, NEW d \in Nat \ {0},
         d <= DaysInMonth(y, m) + 28
  PROVE  Spilled(y, m, d) \in Dates
<1>1. y \in Nat /\ y \in Int /\ DaysInMonth(y, m) \in 28..31
  BY MonthLength
<1>2. CASE d <= DaysInMonth(y, m)
  <2>1. d \in 1..31 /\ Spilled(y, m, d) = Date(y, m, d)
    BY <1>1, <1>2 DEF Spilled
  <2> QED
    BY <1>2, <2>1, DatesAre
<1>3. CASE ~(d <= DaysInMonth(y, m))
  <2> DEFINE z == NextMonthYear(y, m)
             k == NextMonth(m)
             e == d - DaysInMonth(y, m)
  <2>1. z \in Nat \ {0} /\ k \in Month /\ z \in Int
    BY <1>1 DEF NextMonthYear, NextMonth, Month
  <2>2. Spilled(y, m, d) = Date(z, k, e) /\ e \in 1..28
    BY <1>1, <1>3 DEF Spilled
  <2> HIDE DEF z, k, e
  <2>3. DaysInMonth(z, k) \in 28..31
    BY <2>1, MonthLength
  <2>4. e \in 1..31 /\ e <= DaysInMonth(z, k)
    BY <2>2, <2>3
  <2> QED
    BY <2>1, <2>2, <2>4, DatesAre
<1> QED
  BY <1>2, <1>3

\* The next run is a date, the rule's period later; a monthly one is on the same
\* day of the next month, or, past its end, on the first days of the month after.
LEMMA NextRun ==
  ASSUME NEW f \in Frequency, NEW t \in Dates
  PROVE  LET next == NextRunDate(f, t)
         IN  /\ next \in Dates
             /\ DayNumber(next) - DayNumber(t) \in
                  CASE f = "daily"   -> {1}
                    [] f = "weekly"  -> {7}
                    [] f = "monthly" -> 28..31
             /\ f = "monthly" =>
                  \/ MonthIndex(next) = MonthIndex(t) + 1 /\ next.day = t.day
                  \/ /\ MonthIndex(next) = MonthIndex(t) + 2
                     /\ next.day <= 3 /\ t.day >= 29
<1>1. PICK y \in Nat \ {0}, m \in Month, d \in 1..31 :
        t = Date(y, m, d) /\ d <= DaysInMonth(y, m)
  BY DatesAre
<1>2. /\ DaysInMonth(y, m) \in 28..31 /\ d \in 1..DaysInMonth(y, m) /\ y \in Int /\ y \in Nat
      /\ DaysBeforeMonth(y, m) \in Int
      /\ DayNumber(t) = DaysBeforeMonth(y, m) + d - 1
  BY <1>1, MonthLength, NextMonthBegins DEF DayNumber, Date
<1>3. ASSUME NEW k \in {1, 7}
      PROVE  /\ AddDate(t, 0, k) \in Dates
             /\ DayNumber(AddDate(t, 0, k)) - DayNumber(t) = k
  <2>1. k \in 0..28 /\ d + k \in Nat \ {0} /\ d + k <= DaysInMonth(y, m) + 28
    BY <1>2
  <2>2. AddDate(t, 0, k) = Spilled(y, m, d + k)
    BY <1>1, <1>2, <2>1, AddDays
  <2>3. DayNumber(Spilled(y, m, d + k)) = DaysBeforeMonth(y, m) + (d + k) - 1
    BY <1>2, <2>1, Spill
  <2>4. Spilled(y, m, d + k) \in Dates
    BY <2>1, SpilledDate
  <2> QED
    BY <1>2, <2>1, <2>2, <2>3, <2>4
<1>4. CASE f = "daily"
  BY <1>3, <1>4 DEF NextRunDate
<1>5. CASE f = "weekly"
  BY <1>3, <1>5 DEF NextRunDate
<1>6. CASE f = "monthly"
  <2> DEFINE z == NextMonthYear(y, m)
             k == NextMonth(m)
             z2 == NextMonthYear(z, k)
             k2 == NextMonth(k)
             next == NextRunDate(f, t)
  <2>1. /\ z \in Nat \ {0} /\ z \in Int /\ k \in Month /\ 12 * z + k = 12 * y + m + 1
        /\ 12 * z2 + k2 = 12 * y + m + 2
    BY DEF NextMonthYear, NextMonth, Month
  <2>2. next = Spilled(z, k, d)
    BY <1>1, <1>6, AddMonth DEF NextRunDate
  <2>3. /\ DaysBeforeMonth(z, k) = DaysBeforeMonth(y, m) + DaysInMonth(y, m)
        /\ MonthIndex(t) = 12 * y + m - 1 /\ t.day = d
    BY <1>1, <1>2, NextMonthBegins DEF MonthIndex, Date
  <2>4. next = IF d <= DaysInMonth(z, k) THEN Date(z, k, d)
               ELSE Date(z2, k2, d - DaysInMonth(z, k))
    BY <2>2 DEF Spilled
  <2>5. m \in Int /\ k \in Int /\ d \in Int
    BY <2>1 DEF Month
  <2>11. z2 \in Int /\ k2 \in Int
    BY <2>1, <2>5 DEF NextMonthYear, NextMonth
  <2> HIDE DEF z, k, z2, k2, next
  <2>6. /\ DaysInMonth(z, k) \in 28..31 /\ d \in Nat \ {0}
        /\ d <= DaysInMonth(z, k) + 28
    BY <2>1, MonthLength
  <2>7. next \in Dates
    BY <2>1, <2>2, <2>6, SpilledDate
  <2>8. DayNumber(next) = DaysBeforeMonth(z, k) + d - 1
    BY <2>1, <2>2, <2>6, Spill
  <2>9. DayNumber(next) - DayNumber(t) \in 28..31
    BY <1>2, <2>3, <2>5, <2>8
  <2>10. \/ MonthIndex(next) = MonthIndex(t) + 1 /\ next.day = t.day
         \/ /\ MonthIndex(next) = MonthIndex(t) + 2
            /\ next.day <= 3 /\ t.day >= 29
    <3>1. CASE d <= DaysInMonth(z, k)
      <4>1. MonthIndex(next) = 12 * z + k - 1 /\ next.day = d
        BY <2>4, <3>1 DEF MonthIndex, Date
      <4> QED
        BY <2>1, <2>3, <2>5, <4>1
    <3>2. CASE ~(d <= DaysInMonth(z, k))
      <4>1. MonthIndex(next) = 12 * z2 + k2 - 1 /\ next.day = d - DaysInMonth(z, k)
        BY <2>4, <3>2 DEF MonthIndex, Date
      <4> QED
        BY <2>1, <2>3, <2>5, <2>6, <2>11, <3>2, <4>1
    <3> QED
      BY <3>1, <3>2
  <2> QED
    BY <1>6, <2>7, <2>9, <2>10 DEF next
<1> QED
  BY <1>4, <1>5, <1>6 DEF Frequency

LEMMA InitSchedule ==
  ASSUME CalendarAssumption, Init
  PROVE  Schedule
<1>1. start \in Dates /\ run = start /\ runs = 0 /\ frequency \in Frequency
  BY DEF CalendarAssumption, Init, Dates
<1>2. MonthIndex(start) \in Int
  BY <1>1 DEF Dates, MonthIndex, Month
<1> QED
  BY <1>1, <1>2 DEF Schedule, MonthlySkipsAtMostOnce

LEMMA AdvanceSchedule ==
  ASSUME Schedule, Advance
  PROVE  Schedule'
<1>1. /\ frequency \in Frequency /\ start \in Dates /\ run \in Dates /\ runs \in Nat
      /\ run' = NextRunDate(frequency, run) /\ runs' = runs + 1
      /\ frequency' = frequency /\ start' = start
  BY DEF Schedule, Advance
<1>2. /\ run' \in Dates
      /\ frequency = "monthly" =>
           \/ MonthIndex(run') = MonthIndex(run) + 1 /\ run'.day = run.day
           \/ MonthIndex(run') = MonthIndex(run) + 2 /\ run'.day <= 3 /\ run.day >= 29
  BY <1>1, NextRun
<1>3. \A t \in Dates : MonthIndex(t) \in Int /\ t.day \in Int
  BY DEF Dates, MonthIndex, Month
<1>4. MonthlySkipsAtMostOnce'
  <2> SUFFICES ASSUME frequency = "monthly"
               PROVE  LET months == MonthIndex(run') - MonthIndex(start)
                      IN  \/ months = runs + 1 /\ run'.day = start.day
                          \/ months = runs + 2 /\ run'.day <= 3 /\ start.day >= 29
    BY <1>1 DEF MonthlySkipsAtMostOnce
  <2>1. /\ MonthIndex(run') \in Int /\ MonthIndex(run) \in Int /\ MonthIndex(start) \in Int
        /\ run'.day \in Int /\ run.day \in Int /\ start.day \in Int
    BY <1>1, <1>2, <1>3
  <2>2. \/ MonthIndex(run) - MonthIndex(start) = runs /\ run.day = start.day
        \/ MonthIndex(run) - MonthIndex(start) = runs + 1 /\ run.day <= 3 /\ start.day >= 29
    BY DEF Schedule, MonthlySkipsAtMostOnce
  <2> QED
    BY <1>1, <1>2, <2>1, <2>2
<1> QED
  BY <1>1, <1>2, <1>4 DEF Schedule

LEMMA SpecSchedule ==
  ASSUME CalendarAssumption
  PROVE  Spec => []Schedule
<1>1. Init => Schedule
  BY InitSchedule
<1>2. Schedule /\ [Next]_vars => Schedule'
  <2>1. ASSUME Schedule, UNCHANGED vars
        PROVE  Schedule'
    BY <2>1 DEF Schedule, vars, MonthlySkipsAtMostOnce
  <2> QED
    BY <2>1, AdvanceSchedule DEF Next
<1> QED
  BY <1>1, <1>2, PTL DEF Spec

\* Every next_run_date is a date of the calendar, one day, seven days or 28 to 31
\* days after the run it follows, whatever start_date is and however long the
\* rule runs: schedule.NextRunDate moves a rule forward, and only forward.
THEOREM SpecRunsMoveForward ==
  ASSUME CalendarAssumption
  PROVE  Spec => RunsMoveForward
<1> DEFINE Forward == /\ IsDate(run')
                      /\ DayNumber(run') - DayNumber(run) \in
                           CASE frequency = "daily"   -> {1}
                             [] frequency = "weekly"  -> {7}
                             [] frequency = "monthly" -> 28..31
<1>1. ASSUME Schedule, Advance
      PROVE  Forward
  <2>1. run \in Dates /\ frequency \in Frequency /\ run' = NextRunDate(frequency, run)
    BY <1>1 DEF Schedule, Advance
  <2>2. /\ run' \in Dates
        /\ DayNumber(run') - DayNumber(run) \in
             CASE frequency = "daily"   -> {1}
               [] frequency = "weekly"  -> {7}
               [] frequency = "monthly" -> 28..31
    BY <2>1, NextRun
  <2> QED
    BY <2>2 DEF Dates
<1>2. Schedule /\ [Next]_vars => [Forward]_vars
  BY <1>1 DEF Next
<1>3. Spec => []Schedule
  BY SpecSchedule
<1> QED
  BY <1>2, <1>3, PTL DEF Spec, RunsMoveForward

\* A monthly rule misses at most one month of its whole life, whatever its
\* start_date and however often it runs, and never runs twice in a month.
THEOREM SpecMonthlySkipsAtMostOnce ==
  ASSUME CalendarAssumption
  PROVE  Spec => []MonthlySkipsAtMostOnce
<1>1. Spec => []Schedule
  BY SpecSchedule
<1>2. Schedule => MonthlySkipsAtMostOnce
  BY DEF Schedule
<1> QED
  BY <1>1, <1>2, PTL

\* A month's report takes the dates of its month and no other.
LEMMA MonthOfDate ==
  ASSUME NEW t \in Dates, NEW y \in Nat, NEW m \in Month
  PROVE  InMonth(t, y, m) <=> y = t.year /\ m = t.month
<1>1. PICK z \in Nat \ {0}, k \in Month, d \in 1..31 :
        t = Date(z, k, d) /\ d <= DaysInMonth(z, k)
  BY DatesAre
<1>2. /\ t.year = z /\ t.month = k /\ z \in Int /\ y \in Int
      /\ DayNumber(t) = DaysBeforeMonth(z, k) + d - 1
  BY <1>1 DEF DayNumber, Date
<1>3. /\ DaysBeforeMonth(z, k) \in Int /\ DaysBeforeMonth(y, m) \in Int
      /\ DaysInMonth(z, k) \in 28..31 /\ DaysInMonth(y, m) \in 28..31
      /\ d \in Int /\ 1 <= d
  BY <1>2, NextMonthBegins, MonthLength
<1> DEFINE first == Date(y, m, 1)
<1>4. /\ MonthBounds(y, m).from = first
      /\ MonthBounds(y, m).to = AddDate(first, 1, 0)
  BY DEF MonthBounds
<1>5. DayNumber(first) = DaysBeforeMonth(y, m)
  BY <1>3 DEF DayNumber, Date
<1>6. DayNumber(AddDate(first, 1, 0)) = DaysBeforeMonth(y, m) + DaysInMonth(y, m)
  BY AddMonth
<1>7. InMonth(t, y, m) <=>
        /\ DaysBeforeMonth(y, m) <= DaysBeforeMonth(z, k) + d - 1
        /\ DaysBeforeMonth(z, k) + d - 1 < DaysBeforeMonth(y, m) + DaysInMonth(y, m)
  BY <1>2, <1>4, <1>5, <1>6 DEF InMonth
<1>8. CASE y = z /\ m = k
  BY <1>1, <1>2, <1>3, <1>7, <1>8
<1>9. CASE y < z \/ (y = z /\ m < k)
  <2>1. DaysBeforeMonth(y, m) + DaysInMonth(y, m) <= DaysBeforeMonth(z, k)
    BY <1>2, <1>9, LaterMonth
  <2> QED
    BY <1>2, <1>3, <1>7, <1>9, <2>1 DEF Month
<1>10. CASE z < y \/ (z = y /\ k < m)
  <2>1. DaysBeforeMonth(z, k) + DaysInMonth(z, k) <= DaysBeforeMonth(y, m)
    BY <1>2, <1>10, LaterMonth
  <2> QED
    BY <1>1, <1>2, <1>3, <1>7, <1>10, <2>1 DEF Month
<1>11. m \in Int /\ k \in Int
  BY DEF Month
<1>12. \/ y = z /\ m = k
       \/ y < z \/ (y = z /\ m < k)
       \/ z < y \/ (z = y /\ k < m)
  BY <1>2, <1>11
<1> QED
  BY <1>8, <1>9, <1>10, <1>12

\* Every run of every rule belongs to one month's report, its own: the half-open
\* bounds of schedule.MonthBounds leave no day out and count none twice.
THEOREM SpecMonthsPartitionDays ==
  ASSUME CalendarAssumption
  PROVE  Spec => []MonthsPartitionDays
<1>1. Schedule => MonthsPartitionDays
  <2> SUFFICES ASSUME Schedule,
                      NEW y \in (run.year - 1)..(run.year + 1), NEW m \in Month
               PROVE  InMonth(run, y, m) <=> y = run.year /\ m = run.month
    BY DEF MonthsPartitionDays
  <2>1. run \in Dates
    BY DEF Schedule
  <2>2. y \in Nat
    BY <2>1 DEF Dates
  <2> QED
    BY <2>1, <2>2, MonthOfDate
<1>2. Spec => []Schedule
  BY SpecSchedule
<1> QED
  BY <1>1, <1>2, PTL
=============================================================================
