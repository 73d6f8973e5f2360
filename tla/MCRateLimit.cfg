CONSTANTS
  Key = {k1}
  Window = 4
  Limit = 2
  Second = 2
  LastTick = 6
  Caller = {c1, c2, c3}
  MaxCalls = 6
  NoCall = NoCall
SYMMETRY MCSymmetry
SPECIFICATION Spec
INVARIANTS
  TypeOK
  WindowRespected
  RetrySuffices
CHECK_DEADLOCK FALSE
