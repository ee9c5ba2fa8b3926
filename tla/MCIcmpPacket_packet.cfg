SPECIFICATION Spec
CONSTANTS
  B = 4
  K = 2
  EchoRequest = 2
  Pings <- MCPings
  Strings <- MCStrings
  Ids = {7, 12}
  HeaderWords = {4, 5, 6}
  Junk = {0, 3}
INVARIANTS
  Verifies
  ReadsBack
PROPERTIES
  NeverWraps
