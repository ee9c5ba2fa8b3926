SPECIFICATION FairSpec
CONSTANTS
  Req = {r1}
  NoReq = NoReq
  MaxServers = 4
  MaxTasks = 1
  IndexMod = 4
  MaxPing = 4
  MaxArray = 5
CHECK_DEADLOCK FALSE
INVARIANT MadeRight
PROPERTIES
  Advances
  EndsUnlessEndless
