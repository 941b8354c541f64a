SPECIFICATION FairSpec
CONSTANTS
  p1 = p1
  p2 = p2
  t = t
  u = u
  tracking = tracking
  Proc = {p1, p2}
  NumFiles = 2
  Object = {t, u, tracking}
  Table = {t, u, tracking}
  TrackingTable = tracking
  Script <- OverlapScripts
  Selections <- OverlapSelections
  Forced = {2}
  AskModes = {FALSE}
  Databases <- OverlapDatabases
  MaxRuns = 2
  MaxFaults = 1
INVARIANTS InOrder RecordedJustified ReportIsTrue
PROPERTY RunEnds
CHECK_DEADLOCK FALSE
