SPECIFICATION FairSpec
CONSTANTS
  p1 = p1
  p2 = p2
  t = t
  u = u
  tracking = tracking
  Proc = {p1}
  NumFiles = 3
  Object = {t, u, tracking}
  Table = {t, u, tracking}
  TrackingTable = tracking
  Script <- ReviewScripts
  Selections <- ReviewSelections
  Forced = {1}
  AskModes = {TRUE, FALSE}
  Databases <- ReviewDatabases
  MaxRuns = 2
  MaxFaults = 1
INVARIANTS TypeOK InOrder RecordedJustified OnlyPending ReportIsTrue ExitIsTrue Bootstraps
PROPERTIES KeepsLedger RunEnds
CHECK_DEADLOCK FALSE
