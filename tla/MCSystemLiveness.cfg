\* Two clients, one of which may delete the rule the other one updates, and two
\* rules of one category, due on one day.
CONSTANTS
  MaxRule = 2
  Category = {c1}
  Frequency = {"daily"}
  LastDay = 0
  InputDate = {0}
  NextRunDate <- MCNextRunDate
  Worker = {w1}
  Client = {u1, u2}
  MaxCalls = 3
  MaxRecurringPast = 1
  MaxRecurringFuture = 1
  BatchSize = 1
  NoDate = NoDate
  NoRow = NoRow
  NoTx = NoTx
SPECIFICATION FairSpec
PROPERTIES
  RequestsReturn
  DueRunsLeaveTheQueue
