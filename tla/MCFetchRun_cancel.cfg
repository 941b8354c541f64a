SPECIFICATION FairSpec
CONSTANTS
  p1 = p1  p2 = p2  c1 = c1  NoCon = NoCon
  Call = {p1, p2}
  Con = {c1}
  shape <- MCShape
  MaxCancels = 2
  MaxFaults = 1
INVARIANTS TypeOK GivenBackIdle NoStrayCancel CancellationKept
PROPERTY CallEnds
CHECK_DEADLOCK FALSE
