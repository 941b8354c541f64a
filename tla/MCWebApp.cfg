SPECIFICATION Spec
CONSTANTS
  p1 = p1  p2 = p2  c1 = c1  NoCon = NoCon
  Request = {p1, p2}
  Con = {c1}
  Setups <- MCSetups
  MaxPending = 1
INVARIANTS LeftClean CauseKept CacheTrue
PROPERTIES Exchange GoneEnds
CHECK_DEADLOCK FALSE
