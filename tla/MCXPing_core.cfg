SPECIFICATION Spec
CONSTANTS
  Req = {r1, r2, r3}
  NoReq = NoReq
  Addr = {a1, a2, a3}
  NoTask = NoTask
  NoReply = NoReply
  MaxServers = 2
  MaxTasks = 3
  PipeCap = 2
  Capacity = 2
  ThreadId = 0
  ShortPid = 7
  OtherPackets <- MCOtherPackets
  ClockAdvances = TRUE
  Sizes = {1, 2}
  BadCodes = {405}
  Reuse = FALSE
SYMMETRY Symmetry
INVARIANTS
  OneOwner
  DoneCountExact
  SlotsExact
  NotifyBalance
  TimersOwned
  DoingMapLive
  DoingMapFinds
  ReplyReachesItsTask
  RestsSettledOrCaught
  RequestTracked
PROPERTIES
  HandedBackUntouched
  DropsOnlyWhileWorking
CHECK_DEADLOCK FALSE
