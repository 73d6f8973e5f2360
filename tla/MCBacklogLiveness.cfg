\* Liveness needs every behaviour, so no symmetry and a short calendar.
CONSTANTS
  MaxRule = 2
  Category = {c1}
  Frequency <- MCFrequency
  LastDay = 1
  InputDate = {0, 1}
  NextRunDate <- MCNextRunDate
  Worker = {w1, w2}
  BatchSize = 1
  NoDate = NoDate
  NoRow = NoRow
  NoTx = NoTx
SPECIFICATION FairSpec
PROPERTIES
  BacklogDrains
