CONSTANTS
  User = {u1, u2}
  Name = {food}
  MaxCategory = 2
  MaxTransaction = 2
  MaxBudget = 2
  MaxRule = 1
  Month = {1}
  Amount = {1}
  LimitWindow = 1
  LastTick = 2
  Request = {q1, q2}
  MaxCalls = 5
  NoRow = NoRow
SYMMETRY MCSymmetry
SPECIFICATION Spec
INVARIANTS
  LedgerTypeOK
  ReferencesOwned
  ClientRowsApart
  SummaryAddsUp
  BudgetsWithinExpenses
  PagesPartitionList
PROPERTY
  ImplementsBook
CHECK_DEADLOCK FALSE
