CONSTANTS
  Width = 12
  MaxAmountCents = 1000
  Whole <- MCWhole
  Garbage = Garbage
  Minus = Minus
  Plus = Plus
SPECIFICATION Spec
INVARIANT
  MaximumRespected
CHECK_DEADLOCK FALSE
