------------------------------ MODULE Calendar ------------------------------
(***************************************************************************)
(* Dates and schedules (pkg/schedule): one rule without end_date, run      *)
(* after run.  Dates are UTC days; NormalizeDate drops the time of day, so *)
(* a date here is what it returns.  time.Date and time.AddDate are the     *)
(* standard library's: a date out of range spills into the next month.     *)
(***************************************************************************)
EXTENDS Integers

CONSTANTS
  StartYear,      \* years start_date may be in
  MaxRuns         \* bound: how many runs of the rule are looked at

ASSUME CalendarAssumption ==
  StartYear \subseteq Nat \ {0} /\ MaxRuns \in Nat

VARIABLES
  frequency,
  start,          \* start_date
  run,            \* next_run_date
  runs            \* runs since start_date

vars == <<frequency, start, run, runs>>

Frequency == {"daily", "weekly", "monthly"}
Month == 1..12

-----------------------------------------------------------------------------
(* package time                                                            *)

Leap(y) == y % 4 = 0 /\ (y % 100 # 0 \/ y % 400 = 0)

DaysInMonth(y, m) ==
  IF m = 2 THEN IF Leap(y) THEN 29 ELSE 28
  ELSE IF m \in {4, 6, 9, 11} THEN 30 ELSE 31

Date(y, m, d) == [year |-> y, month |-> m, day |-> d]

IsDate(t) ==
  /\ t.year \in Nat \ {0} /\ t.month \in Month
  /\ t.day \in 1..DaysInMonth(t.year, t.month)

\* Days from 0001-01-01 to the first of the month.
DaysBeforeMonth(y, m) ==
  LET p == y - 1
      inYear == <<0, 31, 59, 90, 120, 151, 181, 212, 243, 273, 304, 334>>
  IN  365 * p + (p \div 4) - (p \div 100) + (p \div 400)
        + inYear[m] + (IF m > 2 /\ Leap(y) THEN 1 ELSE 0)

DayNumber(t) == DaysBeforeMonth(t.year, t.month) + t.day - 1

\* The date that many days after 0001-01-01.
DateOf(n) ==
  LET y == CHOOSE year \in (n \div 366)..((n \div 365) + 1) :
             DaysBeforeMonth(year, 1) <= n /\ n < DaysBeforeMonth(year + 1, 1)
      m == CHOOSE month \in Month :
             /\ DaysBeforeMonth(y, month) <= n
             /\ n < DaysBeforeMonth(y, month) + DaysInMonth(y, month)
  IN  Date(y, m, n - DaysBeforeMonth(y, m) + 1)

MonthIndex(t) == 12 * t.year + t.month - 1

\* t.AddDate(0, months, days) is time.Date(y, m + months, d + days): months
\* beyond December move the year on, days beyond the month move the month on.
AddDate(t, months, days) ==
  LET i == MonthIndex(t) + months
  IN  DateOf(DaysBeforeMonth(i \div 12, (i % 12) + 1) + t.day + days - 1)

-----------------------------------------------------------------------------
(* pkg/schedule                                                            *)

\* Variant with a bug: a month is thirty days.
NextRunDate_ThirtyDays(f, from) ==
  CASE f = "daily"   -> AddDate(from, 0, 1)
    [] f = "weekly"  -> AddDate(from, 0, 7)
    [] f = "monthly" -> AddDate(from, 0, 30)

\* Variant with a bug: the month's argument in the place of the days'.
NextRunDate_Swapped(f, from) ==
  CASE f = "daily"   -> AddDate(from, 0, 1)
    [] f = "weekly"  -> AddDate(from, 7, 0)
    [] f = "monthly" -> AddDate(from, 0, 1)

NextRunDate(f, from) ==
  CASE f = "daily"   -> AddDate(from, 0, 1)
    [] f = "weekly"  -> AddDate(from, 0, 7)
    [] f = "monthly" -> AddDate(from, 1, 0)

\* Variant with a bug: the bounds of a closed range.
MonthBounds_Closed(year, month) ==
  LET first == Date(year, month, 1)
  IN  [from |-> first, to |-> AddDate(first, 1, -1)]

MonthBounds(year, month) ==
  LET first == Date(year, month, 1)
  IN  [from |-> first, to |-> AddDate(first, 1, 0)]

\* What the report's queries take as the month's transactions:
\* transaction_date >= $2 AND transaction_date < $3.
InMonth(t, year, month) ==
  LET bounds == MonthBounds(year, month)
  IN  DayNumber(bounds.from) <= DayNumber(t) /\ DayNumber(t) < DayNumber(bounds.to)

-----------------------------------------------------------------------------
Init ==
  /\ frequency \in Frequency
  /\ start \in { t \in [year : StartYear, month : Month, day : 1..31] : IsDate(t) }
  /\ run = start
  /\ runs = 0

\* nextSchedule moves the rule on after a run.
Advance ==
  /\ runs < MaxRuns
  /\ run' = NextRunDate(frequency, run)
  /\ runs' = runs + 1
  /\ UNCHANGED <<frequency, start>>

Next == Advance

Spec == Init /\ [][Next]_vars

-----------------------------------------------------------------------------
(* Properties                                                              *)

\* Every next_run_date is a date of the calendar, and lies after the run it
\* follows by the rule's period: what the recurring engine takes for granted
\* of schedule.NextRunDate (RecurringStore!NextRunDateAssumption).
RunsMoveForward ==
  [][ /\ IsDate(run')
      /\ DayNumber(run') - DayNumber(run) \in
           CASE frequency = "daily"   -> {1}
             [] frequency = "weekly"  -> {7}
             [] frequency = "monthly" -> 28..31 ]_vars

\* A monthly rule keeps its day of the month until it meets a month that is too
\* short; then it skips that month, runs on one of the first three days of the
\* next one, and stays on that day.  So it never runs twice in a month, and over
\* its whole life it misses at most one.
MonthlySkipsAtMostOnce ==
  frequency = "monthly" =>
    LET months == MonthIndex(run) - MonthIndex(start)
    IN  \/ months = runs /\ run.day = start.day
        \/ months = runs + 1 /\ run.day <= 3 /\ start.day >= 29

\* Every day belongs to one month's report, its own.
MonthsPartitionDays ==
  \A y \in (run.year - 1)..(run.year + 1), m \in Month :
    InMonth(run, y, m) <=> y = run.year /\ m = run.month
=============================================================================
