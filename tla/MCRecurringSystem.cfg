\* One worker meets two concurrent requests on one rule (three accepted requests
\* in all: create it, then change it twice, or change and delete it).
CONSTANTS
  MaxRule = 1
  Category = {c1, c2}
  Frequency <- MCFrequency
  LastDay = 2
  InputDate = {0, 1}
  NextRunDate <- MCNextRunDate
  Worker = {w1}
  Client = {u1, u2}
  MaxCalls = 3
  MaxRecurringPast = 1
  MaxRecurringFuture = 1
  BatchSize = 2
  NoDate = NoDate
  NoRow = NoRow
  NoTx = NoTx
SYMMETRY MCSymmetry
SPECIFICATION Spec
INVARIANTS
  TypeOK
  RuleWellFormed
  NoDuplicateGeneration
  SnapshotFresh
  EveryOccurrencePosted
PROPERTY
  PostsAtomically
