\* No second category of a name and type, as the service's conflict says.
CONSTANTS
  User = {u1, u2}
  Name = {food}
  MaxCategory = 2
  MaxTransaction = 2
  MaxBudget = 2
  MaxRule = 1
  Month = {1, 2}
  Amount = {1}
  LimitWindow = 1
  LastTick = 2
  Request = {q1, q2}
  MaxCalls = 4
  NoRow = NoRow
SPECIFICATION Spec
INVARIANT
  CategoryNamesUnique
CHECK_DEADLOCK FALSE
