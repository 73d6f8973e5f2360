\* Two requests are enough: an update and the deletion of its rule.
CONSTANTS
  MaxRule = 1
  Category = {c1}
  Frequency <- MCFrequency
  LastDay = 0
  InputDate = {0}
  NextRunDate <- MCNextRunDate
  Worker = {w1}
  Client = {u1, u2}
  MaxCalls = 3
  MaxRecurringPast = 1
  MaxRecurringFuture = 1
  BatchSize = 1
  NoDate = NoDate
  NoRow = NoRow
  NoTx = NoTx
SPECIFICATION Spec
INVARIANT
  NoPanic
