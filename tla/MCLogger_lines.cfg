SPECIFICATION FairSpec
CONSTANTS
  Thread = {t1, t2}
  Level = {20, 30, 40}
  LogLevel = 30
  PipeCap = 1
  MaxLines = 3
INVARIANTS
  Accounted
  WakeUps
  ProgramOrder
PROPERTY EveryLineWritten
