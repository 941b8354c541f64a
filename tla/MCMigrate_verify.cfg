SPECIFICATION Spec
CONSTANTS
  p1 = p1
  p2 = p2
  t = t
  u = u
  tracking = tracking
  Proc = {p1}
  NumFiles = 3
  Object = {t, u, tracking}
  Table = {t, u, tracking}
  TrackingTable = tracking
  Script <- ReviewScripts
  Selections <- ReviewSelections
  Forced = {}
  AskModes = {FALSE}
  Databases <- ReviewDatabases
  MaxRuns = 1
  MaxFaults = 0
INVARIANT VerifiedBeforeRecorded
CHECK_DEADLOCK FALSE
