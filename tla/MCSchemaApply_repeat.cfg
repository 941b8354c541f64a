SPECIFICATION Spec
CONSTANTS
  a = a  b = b  c = c  outside = outside  NoName = NoName
  NumFiles = 5
  Name = {a, b, c, outside}
  Permission = {4}
  Version <- MCVersion
  Content <- MCContent
  Edits <- MCEdits
  Scopes <- MCScopes
  MaxCalls = 2
  MaxFaults = 0
INVARIANT SafeToRepeat
CHECK_DEADLOCK FALSE
