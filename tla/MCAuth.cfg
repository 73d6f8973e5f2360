CONSTANTS
  Spelling = {"ann@x", "Ann@x"}
  Normal <- MCNormal
  WellFormed = {"ann@x"}
  Password = {"p1", "p2"}
  Acceptable = {"p1"}
  Ttl = 3
  Tick = 2
  None = None
  Request = {q1, q2}
  Ip = {"i1"}
  Window = 2
  Limit = 2
  LastTick = 3
  MaxCalls = 3
SYMMETRY MCSymmetry
SPECIFICATION Spec
INVARIANTS
  TypeOK
  TokensHonest
PROPERTY
  ImplementsRegistry
CHECK_DEADLOCK FALSE
