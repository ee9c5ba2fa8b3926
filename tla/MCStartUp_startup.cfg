SPECIFICATION FairSpec
CONSTANTS
  WorkerNum = 2
  ServerModulus = 2
  MaxTasks = 4
INVARIANTS
  LagBounded
  ObjectsOutlive
  MasterThere
  UndefinedBeforeService
PROPERTIES
  Served
