SPECIFICATION Spec
CONSTANTS
  p1 = p1  p2 = p2
  Proc = {p1, p2}
  Invalid = {"/", "-"}
  MaxSlugLen = 5
  Digest <- MCDigest
  Extras <- MCExtras
  Setups <- MCSetups
  MaxCommands = 2
  Fixture = 2
INVARIANTS SweepSparesOwned ProjectSwept EnsureDelivers ModeRestored MigrationAtomic
CHECK_DEADLOCK FALSE
