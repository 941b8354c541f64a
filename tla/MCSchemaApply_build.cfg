SPECIFICATION FairSpec
CONSTANTS
  a = a  b = b  c = c  outside = outside  NoName = NoName
  NumFiles = 5
  Name = {a, b, c, outside}
  Permission = {4}
  Version <- MCVersion
  Content <- MCContent
  Edits <- MCEdits
  Scopes <- MCScopes
  MaxCalls = 2
  MaxFaults = 1
INVARIANTS TypeOK YieldsAll OnlyCyclesStop DoneIsBuilt RetriesConverge
PROPERTIES KeepsOrder CallEnds
CHECK_DEADLOCK FALSE
