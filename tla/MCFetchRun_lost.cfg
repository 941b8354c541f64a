SPECIFICATION Spec
CONSTANTS
  p1 = p1  p2 = p2  c1 = c1  NoCon = NoCon
  Call = {p1, p2}
  Con = {c1}
  shape <- MCShape
  MaxCancels = 0
  MaxFaults = 0
INVARIANT CancelRaises
CHECK_DEADLOCK FALSE
