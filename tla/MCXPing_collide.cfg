SPECIFICATION Spec
CONSTANTS
  Req = {r1, r2, r3}
  NoReq = NoReq
  Addr = {a1, a2, a3}
  NoTask = NoTask
  NoReply = NoReply
  MaxServers = 2
  MaxTasks = 2
  PipeCap = 6
  Capacity = 2
  ThreadId = 0
  ShortPid = 7
  OtherPackets <- MCOtherPackets
  ClockAdvances = FALSE
  Sizes = {1, 2}
  BadCodes = {405}
  Reuse = FALSE
SYMMETRY Symmetry
PROPERTY OnlyPastEndBreaks
