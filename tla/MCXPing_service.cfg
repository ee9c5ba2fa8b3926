SPECIFICATION FairSpec
CONSTANTS
  Req = {r1, r2}
  NoReq = NoReq
  Addr = {a1, a2}
  NoTask = NoTask
  NoReply = NoReply
  MaxServers = 2
  MaxTasks = 2
  PipeCap = 2
  Capacity = 1
  ThreadId = 0
  ShortPid = 7
  OtherPackets <- MCOtherPackets
  ClockAdvances = TRUE
  Sizes = {0, 1, 2}
  BadCodes = {405, 1002}
  Reuse = FALSE
PROPERTIES
  Implements
  EventuallyAnswered
