\* Starts on every day of a year before a leap year, of a leap year, and of the
\* year before 2100, which is none; runs until two years later.
CONSTANTS
  StartYear = {2023, 2024, 2099}
  MaxRuns = 26
SPECIFICATION Spec
INVARIANTS
  MonthlySkipsAtMostOnce
  MonthsPartitionDays
PROPERTIES
  RunsMoveForward
CHECK_DEADLOCK FALSE
