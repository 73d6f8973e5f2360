\* Two workers, two rules that may share a category, days of downtime.
CONSTANTS
  MaxRule = 2
  Category = {c1, c2}
  Frequency <- MCFrequency
  LastDay = 3
  InputDate = {0, 1}
  NextRunDate <- MCNextRunDate
  Worker = {w1, w2}
  BatchSize = 2
  NoDate = NoDate
  NoRow = NoRow
  NoTx = NoTx
SYMMETRY MCSymmetry
SPECIFICATION Spec
INVARIANTS
  LocksMatchTransactions
  EveryOccurrencePosted
PROPERTIES
  DeletedStaysDeleted
