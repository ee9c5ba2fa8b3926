---------------------------- MODULE StartUpProofs ----------------------------
(***************************************************************************)
(* Theorems of StartUp, for any number of workers and of requests.         *)
(***************************************************************************)
EXTENDS StartUp, TLAPS

\* Where main is before it joins anything, and while it does.
Early   == {"initLogger", "newServer", "newWorker", "run", "sleep"}
Closing == {"join", "delete", "destroy"}

Idle(o) == thr[o] \in {"none", "exited"}

\* What main's place says of the object it is at, and of the objects there are.
Position ==
  /\ mpc = "initLogger" => cur = Log /\ alive = {Log} /\ inst[Log] = "null"
  /\ mpc = "newWorker" => cur \in Worker
  /\ mpc = "sleep" => cur = Server
  /\ mpc = "run" => cur \in alive
  /\ mpc \in {"newWorker", "sleep"} \/ (mpc = "run" /\ cur \in Worker)
       => Server \in alive
  /\ mpc \in Closing => \A o \in alive : o >= cur
  /\ mpc = "end" => alive = {}
  /\ mpc \in {"delete", "destroy"} => inst[cur] # "thread"

\* The workers registered so far; all of them when the HTTP thread starts.
Registered ==
  /\ mpc \in {"initLogger", "newServer"} \/ (mpc = "run" /\ cur = Log)
       => workers = <<>>
  /\ mpc = "newWorker" => Len(workers) = cur - 1
  /\ mpc = "run" /\ cur \in Worker => Len(workers) = cur
  /\ mpc = "sleep" \/ (mpc = "run" /\ cur = Server)
       => Len(workers) = WorkerNum
  /\ thr[Server] # "none" => Len(workers) = WorkerNum

\* A handle is kept as long as its thread runs, and an object that has a
\* thread is not started again.
Handles ==
  \A o \in Obj :
    /\ ~Idle(o) => inst[o] = "thread"
    /\ mpc \in Early => (ended[o] <=> thr[o] = "none")
    /\ mpc \in Early => base[o] # "freed"

\* Past its first stage a thread has its pipe.
PipeFirst ==
  \A o \in Obj \ {Log} :
    thr[o] \in {"base", "http", "bind", "socket", "loop"} => o \in pipe

\* The HTTP thread runs only while main waits for it, and requests have come
\* in only if it loops.
Serving ==
  /\ ~Idle(Server) => mpc = "join" /\ cur = Server
  /\ sent > 0 \/ notified # 0 => thr[Server] = "loop"
  /\ \A w \in Worker : queue[w] + open[w] > 0 => sent > 0

SafetyInv ==
  /\ TypeOK
  /\ Position
  /\ Registered
  /\ Handles
  /\ PipeFirst
  /\ Serving
  /\ ObjectsOutlive

LEMMA SafetyInit == Init => SafetyInv
BY StartUpAssumption
DEF Init, SafetyInv, TypeOK, Position, Registered, Handles, PipeFirst, Serving,
    ObjectsOutlive, Idle, Server, Worker, Log, Obj, MainPc, Stage, Early, Closing

\* Waiting for a thread touches only handles of threads that have ended, and
\* leaves cur's without one.
LEMMA JoinedHandles ==
  ASSUME TypeOK, NEW i \in AfterJoin
  PROVE  /\ i \in [Obj -> {"null", "garbage", "thread"}]
         /\ i[cur] # "thread"
         /\ \A x \in Obj : i[x] = inst[x] \/ x = cur \/ thr[x] = "exited"
         /\ inst[cur] = "thread" => thr[cur] = "exited"
<1>1. CASE i = inst /\ inst[cur] # "thread"
  BY <1>1 DEF TypeOK
<1>2. ASSUME NEW o \in Named, inst[o] = "thread", thr[o] = "exited",
             i = [inst EXCEPT ![o] = "garbage", ![cur] = "null"]
      PROVE  /\ i \in [Obj -> {"null", "garbage", "thread"}]
             /\ i[cur] # "thread"
             /\ \A x \in Obj : i[x] = inst[x] \/ x = cur \/ thr[x] = "exited"
             /\ inst[cur] = "thread" => thr[cur] = "exited"
  <2>1. o \in Obj /\ cur \in Obj /\ (inst[cur] = "thread" => o = cur)
    BY <1>2 DEF Named, TypeOK
  <2> QED
    BY <1>2, <2>1 DEF TypeOK
<1> QED
  BY <1>1, <1>2 DEF AfterJoin

\* runIt leaves the other objects and their threads alone.
LEMMA RunItLocal ==
  ASSUME TypeOK, NEW o \in Obj, RunIt(o), NEW x \in Obj, x # o
  PROVE  thr'[x] = thr[x] /\ inst'[x] = inst[x] /\ ended'[x] = ended[x]
BY DEF TypeOK, RunIt, wrapVars

LEMMA ServerOrWorker ==
  /\ Server \in Obj /\ Log \in Obj /\ Server # Log
  /\ \A w \in Worker : w \in Obj /\ w # Server /\ w # Log
BY StartUpAssumption DEF Server, Worker, Log, Obj

LEMMA SafetyStep == SafetyInv /\ [Next]_vars => SafetyInv'
<1> SUFFICES ASSUME SafetyInv, [Next]_vars PROVE SafetyInv'
  OBVIOUS
<1> USE StartUpAssumption
    DEF SafetyInv, Idle,
        mainVars, wrapVars, initVars, loopVars
<1>1. CASE InitLogger
  <2>1. TypeOK'
    BY <1>1 DEF InitLogger, Log, MainPc, Obj, Position, Server, Stage,
       TypeOK, Worker
  <2>2. Position'
    BY <1>1 DEF InitLogger, Closing, Early, Handles, Log, Obj, Position,
       Server, TypeOK, Worker
  <2>3. Registered'
    <3>1. workers = <<>> /\ Len(workers) = 0 /\ workers' = workers /\ thr' = thr
      BY <1>1 DEF InitLogger, Registered
    <3> QED
      BY <3>1, <1>1 DEF InitLogger, Position, Registered, Server, Worker, Log
  <2>4. Handles'
    BY <1>1 DEF InitLogger, Early, Handles, Log, Obj, ObjectsOutlive,
       Position, Server, Stage, TypeOK, Worker
  <2>5. PipeFirst'
    BY <1>1 DEF InitLogger, Log, Obj, PipeFirst, Position, Server, Stage,
       TypeOK, Worker
  <2>6. Serving'
    BY <1>1 DEF InitLogger, Handles, Log, Obj, Position, Server, Serving,
       Stage, TypeOK, Worker
  <2>7. ObjectsOutlive'
    BY <1>1 DEF InitLogger, Closing, Early, Handles, Log, Obj,
       ObjectsOutlive, Position, Server, Stage, TypeOK, Worker
  <2> QED BY <2>1, <2>2, <2>3, <2>4, <2>5, <2>6, <2>7
<1>2. CASE NewServer
  <2>1. TypeOK'
    <3>1. 1 \in Obj /\ Server \in Obj
      BY DEF Obj, Server
    <3> QED
      BY <3>1, <1>2 DEF NewServer, TypeOK, MainPc
  <2>2. Position'
    BY <1>2 DEF NewServer, Closing, Early, Handles, Log, Obj, Position,
       Server, TypeOK, Worker
  <2>3. Registered'
    <3>1. workers = <<>> /\ Len(workers) = 0 /\ workers' = workers /\ thr' = thr
      BY <1>2 DEF NewServer, Registered
    <3> QED
      BY <3>1, <1>2 DEF NewServer, Position, Registered, Server, Worker, Log
  <2>4. Handles'
    BY <1>2 DEF NewServer, Early, Handles, Log, Obj, ObjectsOutlive,
       Position, Server, Stage, TypeOK, Worker
  <2>5. PipeFirst'
    BY <1>2 DEF NewServer, Log, Obj, PipeFirst, Position, Server, Stage,
       TypeOK, Worker
  <2>6. Serving'
    BY <1>2 DEF NewServer, Handles, Log, Obj, Position, Server, Serving,
       Stage, TypeOK, Worker
  <2>7. ObjectsOutlive'
    BY <1>2 DEF NewServer, Closing, Early, Handles, Log, Obj,
       ObjectsOutlive, Position, Server, Stage, TypeOK, Worker
  <2> QED BY <2>1, <2>2, <2>3, <2>4, <2>5, <2>6, <2>7
<1>3. CASE NewWorker
  <2>1. TypeOK'
    <3>1. cur \in Worker
      BY <1>3 DEF NewWorker, Position
    <3>2. workers' \in Seq(Worker) /\ alive' \subseteq Obj
      BY <3>1, <1>3 DEF NewWorker, TypeOK
    <3> QED
      BY <3>2, <1>3 DEF NewWorker, TypeOK, MainPc
  <2>2. Position'
    BY <1>3 DEF NewWorker, Closing, Early, Handles, Log, Obj, Position,
       Server, TypeOK, Worker
  <2>3. Registered'
    BY <1>3 DEF NewWorker, Log, Obj, Position, Registered, Server, Stage,
       TypeOK, Worker
  <2>4. Handles'
    BY <1>3 DEF NewWorker, Early, Handles, Log, Obj, ObjectsOutlive,
       Position, Server, Stage, TypeOK, Worker
  <2>5. PipeFirst'
    BY <1>3 DEF NewWorker, Log, Obj, PipeFirst, Position, Server, Stage,
       TypeOK, Worker
  <2>6. Serving'
    BY <1>3 DEF NewWorker, Handles, Log, Obj, Position, Server, Serving,
       Stage, TypeOK, Worker
  <2>7. ObjectsOutlive'
    BY <1>3 DEF NewWorker, Closing, Early, Handles, Log, Obj,
       ObjectsOutlive, Position, Server, Stage, TypeOK, Worker
  <2> QED BY <2>1, <2>2, <2>3, <2>4, <2>5, <2>6, <2>7
<1>4. CASE RunLogger
  <2>1. TypeOK'
    BY <1>4 DEF RunLogger, RunIt, FirstStage, Log, MainPc, Obj, Position,
       Server, Stage, TypeOK, Worker
  <2>2. Position'
    BY <1>4 DEF RunLogger, RunIt, FirstStage, Closing, Early, Handles,
       Log, Obj, Position, Server, TypeOK, Worker
  <2>3. Registered'
    <3>1. workers = <<>> /\ Len(workers) = 0 /\ workers' = workers 
          /\ thr'[Server] = thr[Server]
      BY <1>4 DEF RunLogger, RunIt, Registered, TypeOK, Server, Log, Obj
    <3> QED
      BY <3>1, <1>4 DEF RunLogger, Position, Registered, Server, Worker, Log
  <2>4. Handles'
    <3>1. ASSUME NEW o \in Obj, o # cur
          PROVE  inst'[o] = inst[o] /\ ended'[o] = ended[o] /\ thr'[o] = thr[o]
      BY <3>1, <1>4, RunItLocal DEF RunLogger, TypeOK
    <3>2. \/ UNCHANGED <<inst, ended, thr>>
          \/ /\ inst'[cur] = "thread" /\ ended'[cur] = FALSE
             /\ thr'[cur] \in {"pipe", "loop"}
          \/ UNCHANGED <<ended, thr>> /\ thr[cur] = "none"
      BY <1>4 DEF RunLogger, RunIt, FirstStage, Handles, Early, TypeOK
    <3>3. base' = base /\ mpc \in Early
      BY <1>4 DEF RunLogger, Early
    <3> QED
      BY <3>1, <3>2, <3>3 DEF Handles, TypeOK, Early
  <2>5. PipeFirst'
    BY <1>4 DEF RunLogger, RunIt, FirstStage, Log, Obj, PipeFirst,
       Position, Server, Stage, TypeOK, Worker
  <2>6. Serving'
    <3>1. thr'[Server] = thr[Server] /\ Idle(Server)
      BY <1>4, RunItLocal, ServerOrWorker DEF RunLogger, Serving
    <3> QED
      BY <3>1, <1>4 DEF RunLogger, Serving
  <2>7. ObjectsOutlive'
    BY <1>4 DEF RunLogger, RunIt, FirstStage, Closing, Early, Handles,
       Log, Obj, ObjectsOutlive, Position, Server, Stage, TypeOK, Worker
  <2> QED BY <2>1, <2>2, <2>3, <2>4, <2>5, <2>6, <2>7
<1>5. CASE RunWorker
  <2>1. TypeOK'
    <3>1. cur \in alive /\ cur \in Obj
      BY <1>5 DEF RunWorker, Position, TypeOK
    <3>2. inst' \in [Obj -> {"null", "garbage", "thread"}]
          /\ ended' \in [Obj -> BOOLEAN]
      BY <3>1, <1>5 DEF RunWorker, RunIt, TypeOK
    <3>3. thr' \in [Obj -> Stage \cup {"none", "loop", "exited"}]
      BY <3>1, <1>5 DEF RunWorker, RunIt, FirstStage, TypeOK, Stage
    <3>4. mpc' \in MainPc /\ cur' \in Obj
      BY <3>1, <1>5 DEF RunWorker, MainPc, Obj, Worker, Server, Log, TypeOK
    <3> QED
      BY <3>2, <3>3, <3>4, <1>5 DEF RunWorker, TypeOK
  <2>2. Position'
    BY <1>5 DEF RunWorker, RunIt, FirstStage, Closing, Early, Handles,
       Log, Obj, Position, Server, TypeOK, Worker
  <2>3. Registered'
    <3>1. /\ thr'[Server] = thr[Server] /\ workers' = workers
          /\ Len(workers) = cur
      BY <1>5, RunItLocal, ServerOrWorker DEF RunWorker, Registered
    <3> QED
      BY <3>1, <1>5 DEF RunWorker, Registered, Worker, Server, Log
  <2>4. Handles'
    <3>1. ASSUME NEW o \in Obj, o # cur
          PROVE  inst'[o] = inst[o] /\ ended'[o] = ended[o] /\ thr'[o] = thr[o]
      BY <3>1, <1>5, RunItLocal DEF RunWorker, TypeOK
    <3>2. \/ UNCHANGED <<inst, ended, thr>>
          \/ /\ inst'[cur] = "thread" /\ ended'[cur] = FALSE
             /\ thr'[cur] \in {"pipe", "loop"}
          \/ UNCHANGED <<ended, thr>> /\ thr[cur] = "none"
      BY <1>5 DEF RunWorker, RunIt, FirstStage, Handles, Early, TypeOK
    <3>3. base' = base /\ mpc \in Early
      BY <1>5 DEF RunWorker, Early
    <3> QED
      BY <3>1, <3>2, <3>3 DEF Handles, TypeOK, Early
  <2>5. PipeFirst'
    BY <1>5 DEF RunWorker, RunIt, FirstStage, Log, Obj, PipeFirst,
       Position, Server, Stage, TypeOK, Worker
  <2>6. Serving'
    <3>1. thr'[Server] = thr[Server] /\ Idle(Server)
      BY <1>5, RunItLocal, ServerOrWorker DEF RunWorker, Serving
    <3> QED
      BY <3>1, <1>5 DEF RunWorker, Serving
  <2>7. ObjectsOutlive'
    BY <1>5 DEF RunWorker, RunIt, FirstStage, Closing, Early, Handles,
       Log, Obj, ObjectsOutlive, Position, Server, Stage, TypeOK, Worker
  <2> QED BY <2>1, <2>2, <2>3, <2>4, <2>5, <2>6, <2>7
<1>6. CASE RunServer
  <2>1. TypeOK'
    BY <1>6 DEF RunServer, RunIt, FirstStage, Log, MainPc, Obj, Position,
       Server, Stage, TypeOK, Worker
  <2>2. Position'
    BY <1>6 DEF RunServer, RunIt, FirstStage, Closing, Early, Handles,
       Log, Obj, Position, Server, TypeOK, Worker
  <2>3. Registered'
    BY <1>6 DEF RunServer, RunIt, FirstStage, Log, Obj, Position,
       Registered, Server, Stage, TypeOK, Worker
  <2>4. Handles'
    BY <1>6 DEF RunServer, RunIt, FirstStage, Early, Handles, Log, Obj,
       ObjectsOutlive, Position, Server, Stage, TypeOK, Worker
  <2>5. PipeFirst'
    BY <1>6 DEF RunServer, RunIt, FirstStage, Log, Obj, PipeFirst,
       Position, Server, Stage, TypeOK, Worker
  <2>6. Serving'
    BY <1>6 DEF RunServer, RunIt, FirstStage, Handles, Log, Obj, Position,
       Server, Serving, Stage, TypeOK, Worker
  <2>7. ObjectsOutlive'
    BY <1>6 DEF RunServer, RunIt, FirstStage, Closing, Early, Handles,
       Log, Obj, ObjectsOutlive, Position, Server, Stage, TypeOK, Worker
  <2> QED BY <2>1, <2>2, <2>3, <2>4, <2>5, <2>6, <2>7
<1>7. CASE Wake
  <2>1. TypeOK'
    BY <1>7 DEF Wake, Log, MainPc, Obj, Position, Server, Stage, TypeOK,
       Worker
  <2>2. Position'
    BY <1>7 DEF Wake, Closing, Early, Handles, Log, Obj, Position, Server,
       TypeOK, Worker
  <2>3. Registered'
    BY <1>7 DEF Wake, Log, Obj, Position, Registered, Server, Stage,
       TypeOK, Worker
  <2>4. Handles'
    BY <1>7 DEF Wake, Early, Handles, Log, Obj, ObjectsOutlive, Position,
       Server, Stage, TypeOK, Worker
  <2>5. PipeFirst'
    BY <1>7 DEF Wake, Log, Obj, PipeFirst, Position, Server, Stage,
       TypeOK, Worker
  <2>6. Serving'
    BY <1>7 DEF Wake, Handles, Log, Obj, Position, Server, Serving, Stage,
       TypeOK, Worker
  <2>7. ObjectsOutlive'
    BY <1>7 DEF Wake, Closing, Early, Handles, Log, Obj, ObjectsOutlive,
       Position, Server, Stage, TypeOK, Worker
  <2> QED BY <2>1, <2>2, <2>3, <2>4, <2>5, <2>6, <2>7
<1>8. CASE Join
  <2>1. /\ inst' \in [Obj -> {"null", "garbage", "thread"}]
        /\ inst'[cur] # "thread"
        /\ \A x \in Obj : inst'[x] = inst[x] \/ Idle(x)
    <3>1. inst' \in AfterJoin
      BY <1>8 DEF Join
    <3>2. inst[cur] # "thread" => Idle(cur)
      BY DEF Handles, TypeOK
    <3> QED
      BY <3>1, <3>2, JoinedHandles
  <2>2. /\ mpc = "join" /\ mpc' = "delete"
        /\ UNCHANGED <<cur, alive, workers, ended, initVars, loopVars>>
    BY <1>8 DEF Join
  <2>3. thr[Server] \in {"none", "exited"} \/ cur # Server
    <3>1. inst[cur] = "thread" => thr[cur] = "exited"
      BY <1>8, JoinedHandles DEF Join
    <3> QED
      BY <3>1 DEF Handles, TypeOK
  <2>4. TypeOK'
    BY <2>1, <2>2 DEF TypeOK, MainPc
  <2>5. Position'
    BY <2>1, <2>2 DEF Position, Closing
  <2>6. Registered'
    BY <2>2 DEF Registered
  <2>7. Handles'
    BY <2>1, <2>2 DEF Handles, Early
  <2>8. PipeFirst'
    BY <2>2 DEF PipeFirst
  <2>9. Serving'
    BY <2>2, <2>3 DEF Serving
  <2>10. ObjectsOutlive'
    BY <2>2 DEF ObjectsOutlive
  <2> QED BY <2>4, <2>5, <2>6, <2>7, <2>8, <2>9, <2>10
<1>9. CASE Delete
  <2>1. TypeOK'
    BY <1>9 DEF Delete, Log, MainPc, Obj, Position, Server, Stage, TypeOK,
       Worker
  <2>2. Position'
    BY <1>9 DEF Delete, Closing, Early, Handles, Log, Obj, Position,
       Server, TypeOK, Worker
  <2>3. Registered'
    BY <1>9 DEF Delete, Log, Obj, Position, Registered, Server, Stage,
       TypeOK, Worker
  <2>4. Handles'
    BY <1>9 DEF Delete, Early, Handles, Log, Obj, ObjectsOutlive,
       Position, Server, Stage, TypeOK, Worker
  <2>5. PipeFirst'
    BY <1>9 DEF Delete, Log, Obj, PipeFirst, Position, Server, Stage,
       TypeOK, Worker
  <2>6. Serving'
    BY <1>9 DEF Delete, Handles, Log, Obj, Position, Server, Serving,
       Stage, TypeOK, Worker
  <2>7. ObjectsOutlive'
    BY <1>9 DEF Delete, Closing, Early, Handles, Log, Obj, ObjectsOutlive,
       Position, Server, Stage, TypeOK, Worker
  <2> QED BY <2>1, <2>2, <2>3, <2>4, <2>5, <2>6, <2>7
<1>10. CASE Destroy
  <2>1. PICK i \in AfterJoin : inst' = [i EXCEPT ![cur] = "null"]
    BY <1>10 DEF Destroy
  <2>2. /\ inst' \in [Obj -> {"null", "garbage", "thread"}]
        /\ \A x \in Obj : inst'[x] = inst[x] \/ Idle(x)
        /\ Idle(cur)
    BY <2>1, JoinedHandles DEF Handles, TypeOK
  <2>3. /\ mpc = "destroy"
        /\ ended' = [ended EXCEPT ![cur] = TRUE]
        /\ alive' = alive \ {cur}
        /\ mpc' = IF cur = Log THEN "end" ELSE "join"
        /\ cur' = IF cur = Log THEN cur ELSE cur + 1
        /\ UNCHANGED <<workers, initVars, loopVars>>
    BY <1>10 DEF Destroy
  <2>4. \A o \in alive : o \in Obj /\ o >= cur
    BY <2>3 DEF Position, Closing, TypeOK
  <2>5. TypeOK'
    BY <2>2, <2>3 DEF TypeOK, MainPc, Obj, Log
  <2>6. Position'
    BY <2>3, <2>4 DEF Position, Closing, TypeOK, Obj, Log
  <2>7. Registered'
    BY <2>3 DEF Registered
  <2>8. Handles'
    BY <2>2, <2>3 DEF Handles, Early
  <2>9. PipeFirst'
    BY <2>3 DEF PipeFirst
  <2>10. Serving'
    BY <2>2, <2>3 DEF Serving, Server
  <2>11. ObjectsOutlive'
    BY <2>2, <2>3 DEF ObjectsOutlive
  <2> QED BY <2>5, <2>6, <2>7, <2>8, <2>9, <2>10, <2>11
<1>11. ASSUME NEW o \in Obj, SetUp(o) PROVE SafetyInv'
  <2>1. TypeOK'
    BY <1>11 DEF SetUp, NextStage, Log, MainPc, Obj, Position, Server,
       Stage, TypeOK, Worker
  <2>2. Position'
    BY <1>11 DEF SetUp, NextStage, Closing, Early, Handles, Log, Obj,
       Position, Server, TypeOK, Worker
  <2>3. Registered'
    <3>1. thr'[Server] # "none" => thr[Server] # "none"
      BY <1>11, ServerOrWorker DEF SetUp, Stage, TypeOK
    <3> QED
      BY <3>1, <1>11 DEF SetUp, Registered
  <2>4. Handles'
    <3>1. /\ \A x \in Obj : x # o => thr'[x] = thr[x] /\ base'[x] = base[x]
          /\ thr[o] \in Stage /\ thr'[o] \notin {"none", "exited"}
          /\ base'[o] = base[o] \/ base'[o] = "made"
      BY <1>11 DEF SetUp, NextStage, Stage, TypeOK
    <3> QED
      BY <3>1, <1>11 DEF SetUp, Handles, Stage
  <2>5. PipeFirst'
    BY <1>11 DEF SetUp, NextStage, Log, Obj, PipeFirst, Position, Server,
       Stage, TypeOK, Worker
  <2>6. Serving'
    <3>1. /\ thr[Server] = "loop" => thr'[Server] = "loop"
          /\ Idle(Server) => Idle(Server)'
      BY <1>11 DEF SetUp, Stage, Server, Obj, TypeOK
    <3> QED
      BY <3>1, <1>11 DEF SetUp, Serving
  <2>7. ObjectsOutlive'
    BY <1>11 DEF SetUp, NextStage, Closing, Early, Handles, Log, Obj,
       ObjectsOutlive, Position, Server, Stage, TypeOK, Worker
  <2> QED BY <2>1, <2>2, <2>3, <2>4, <2>5, <2>6, <2>7
<1>12. ASSUME NEW o \in Obj, SetUpFails(o) PROVE SafetyInv'
  <2>1. TypeOK'
    BY <1>12 DEF SetUpFails, Log, MainPc, Obj, Position, Server, Stage,
       TypeOK, Worker
  <2>2. Position'
    BY <1>12 DEF SetUpFails, Closing, Early, Handles, Log, Obj, Position,
       Server, TypeOK, Worker
  <2>3. Registered'
    BY <1>12 DEF SetUpFails, Log, Obj, Position, Registered, Server,
       Stage, TypeOK, Worker
  <2>4. Handles'
    BY <1>12 DEF SetUpFails, Early, Handles, Log, Obj, ObjectsOutlive,
       Position, Server, Stage, TypeOK, Worker
  <2>5. PipeFirst'
    BY <1>12 DEF SetUpFails, Log, Obj, PipeFirst, Position, Server, Stage,
       TypeOK, Worker
  <2>6. Serving'
    BY <1>12 DEF SetUpFails, Handles, Log, Obj, Position, Server, Serving,
       Stage, TypeOK, Worker
  <2>7. ObjectsOutlive'
    BY <1>12 DEF SetUpFails, Closing, Early, Handles, Log, Obj,
       ObjectsOutlive, Position, Server, Stage, TypeOK, Worker
  <2> QED BY <2>1, <2>2, <2>3, <2>4, <2>5, <2>6, <2>7
<1>13. CASE HandleRequest
  <2>1. TypeOK'
    <3>1. Len(workers) = WorkerNum
      BY <1>13 DEF HandleRequest, Registered
    <3>2. FirstTurn \subseteq 0..(WorkerNum - 1)
      BY <3>1 DEF FirstTurn, TypeOK
    <3>3. PICK i \in FirstTurn :
            /\ queue' = [queue EXCEPT ![workers[i + 1]] = @ + 1]
            /\ notified' = workers[i + 1]
            /\ turn' = (i + 1) % ServerModulus
      BY <1>13 DEF HandleRequest
    <3>4. workers[i + 1] \in Worker
      BY <3>1, <3>2, <3>3 DEF TypeOK
    <3>5. turn' \in -1..(WorkerNum - 1) /\ notified' \in 0..WorkerNum
      BY <3>2, <3>3, <3>4 DEF Worker
    <3>6. queue' \in [Worker -> Nat]
      BY <3>3, <3>4 DEF TypeOK
    <3>7. /\ sent' \in Nat
          /\ UNCHANGED <<mainVars, wrapVars, initVars, bytes, missed, open>>
      BY <1>13 DEF HandleRequest, TypeOK
    <3> QED
      BY <3>5, <3>6, <3>7 DEF TypeOK
  <2>2. Position'
    BY <1>13 DEF HandleRequest, FirstTurn, Closing, Early, Handles, Log,
       Obj, Position, Server, TypeOK, Worker
  <2>3. Registered'
    BY <1>13 DEF HandleRequest, FirstTurn, Log, Obj, Position, Registered,
       Server, Stage, TypeOK, Worker
  <2>4. Handles'
    BY <1>13 DEF HandleRequest, FirstTurn, Early, Handles, Log, Obj,
       ObjectsOutlive, Position, Server, Stage, TypeOK, Worker
  <2>5. PipeFirst'
    BY <1>13 DEF HandleRequest, FirstTurn, Log, Obj, PipeFirst, Position,
       Server, Stage, TypeOK, Worker
  <2>6. Serving'
    BY <1>13 DEF HandleRequest, FirstTurn, Handles, Log, Obj, Position,
       Server, Serving, Stage, TypeOK, Worker
  <2>7. ObjectsOutlive'
    BY <1>13 DEF HandleRequest, FirstTurn, Closing, Early, Handles, Log,
       Obj, ObjectsOutlive, Position, Server, Stage, TypeOK, Worker
  <2> QED BY <2>1, <2>2, <2>3, <2>4, <2>5, <2>6, <2>7
<1>14. CASE Notify
  <2>1. TypeOK'
    <3>1. ASSUME NEW f \in [Worker -> Nat], NEW w \in Worker
          PROVE  [f EXCEPT ![w] = @ + 1] \in [Worker -> Nat]
      OBVIOUS
    <3>2. notified \in Worker /\ bytes \in [Worker -> Nat]
          /\ missed \in [Worker -> Nat]
      BY <1>14 DEF Notify, TypeOK
    <3>3. \/ bytes' = bytes
          \/ \E w \in Worker : bytes' = [bytes EXCEPT ![w] = @ + 1]
      BY <1>14 DEF Notify
    <3>4. missed' = missed \/ missed' = [missed EXCEPT ![notified] = @ + 1]
      BY <1>14 DEF Notify
    <3>5. bytes' \in [Worker -> Nat]
      BY <3>1, <3>2, <3>3
    <3>6. missed' \in [Worker -> Nat]
      BY <3>1, <3>2, <3>4
    <3> QED
      BY <3>5, <3>6, <1>14 DEF Notify, TypeOK
  <2>2. Position'
    BY <1>14 DEF Notify, Closing, Early, Handles, Log, Obj, Position,
       Server, TypeOK, Worker
  <2>3. Registered'
    BY <1>14 DEF Notify, Log, Obj, Position, Registered, Server, Stage,
       TypeOK, Worker
  <2>4. Handles'
    BY <1>14 DEF Notify, Early, Handles, Log, Obj, ObjectsOutlive,
       Position, Server, Stage, TypeOK, Worker
  <2>5. PipeFirst'
    BY <1>14 DEF Notify, Log, Obj, PipeFirst, Position, Server, Stage,
       TypeOK, Worker
  <2>6. Serving'
    BY <1>14 DEF Notify, Handles, Log, Obj, Position, Server, Serving,
       Stage, TypeOK, Worker
  <2>7. ObjectsOutlive'
    BY <1>14 DEF Notify, Closing, Early, Handles, Log, Obj,
       ObjectsOutlive, Position, Server, Stage, TypeOK, Worker
  <2> QED BY <2>1, <2>2, <2>3, <2>4, <2>5, <2>6, <2>7
<1>15. ASSUME NEW w \in Worker, TakeTask(w) PROVE SafetyInv'
  <2>1. TypeOK'
    <3>1. bytes' \in [Worker -> Nat]
      BY <1>15 DEF TakeTask, TypeOK
    <3>2. CASE queue[w] = 0
      BY <3>1, <3>2, <1>15 DEF TakeTask, TypeOK
    <3>3. CASE queue[w] # 0
      <4>1. queue' = [queue EXCEPT ![w] = @ - 1]
            /\ open' = [open EXCEPT ![w] = @ + 1]
        BY <3>3, <1>15 DEF TakeTask
      <4>2. queue' \in [Worker -> Nat]
        BY <3>3, <4>1 DEF TypeOK
      <4>3. open' \in [Worker -> Nat]
        BY <4>1 DEF TypeOK
      <4> QED
        BY <3>1, <4>2, <4>3, <1>15 DEF TakeTask, TypeOK
    <3> QED
      BY <3>2, <3>3
  <2>2. Position'
    BY <1>15 DEF TakeTask, Closing, Early, Handles, Log, Obj, Position,
       Server, TypeOK, Worker
  <2>3. Registered'
    BY <1>15 DEF TakeTask, Log, Obj, Position, Registered, Server, Stage,
       TypeOK, Worker
  <2>4. Handles'
    BY <1>15 DEF TakeTask, Early, Handles, Log, Obj, ObjectsOutlive,
       Position, Server, Stage, TypeOK, Worker
  <2>5. PipeFirst'
    BY <1>15 DEF TakeTask, Log, Obj, PipeFirst, Position, Server, Stage,
       TypeOK, Worker
  <2>6. Serving'
    BY <1>15 DEF TakeTask, Handles, Position, Serving, Stage, TypeOK
  <2>7. ObjectsOutlive'
    BY <1>15 DEF TakeTask, Closing, Early, Handles, Log, Obj,
       ObjectsOutlive, Position, Server, Stage, TypeOK, Worker
  <2> QED BY <2>1, <2>2, <2>3, <2>4, <2>5, <2>6, <2>7
<1>16. ASSUME NEW w \in Worker, SendToMaster(w) PROVE SafetyInv'
  <2>1. TypeOK'
    <3>1. open' = [open EXCEPT ![w] = @ - 1] /\ open[w] > 0
      BY <1>16 DEF SendToMaster
    <3>2. open' \in [Worker -> Nat]
      BY <3>1 DEF TypeOK
    <3>3. UNCHANGED <<mainVars, wrapVars, initVars, turn, notified, sent, queue,
                      bytes, missed>>
      BY <1>16 DEF SendToMaster
    <3> QED
      BY <3>2, <3>3 DEF TypeOK
  <2>2. Position'
    BY <1>16 DEF SendToMaster, Closing, Early, Handles, Log, Obj,
       Position, Server, TypeOK, Worker
  <2>3. Registered'
    BY <1>16 DEF SendToMaster, Log, Obj, Position, Registered, Server,
       Stage, TypeOK, Worker
  <2>4. Handles'
    BY <1>16 DEF SendToMaster, Early, Handles, Log, Obj, ObjectsOutlive,
       Position, Server, Stage, TypeOK, Worker
  <2>5. PipeFirst'
    BY <1>16 DEF SendToMaster, Log, Obj, PipeFirst, Position, Server,
       Stage, TypeOK, Worker
  <2>6. Serving'
    BY <1>16 DEF SendToMaster, Handles, Position, Serving, Stage, TypeOK
  <2>7. ObjectsOutlive'
    BY <1>16 DEF SendToMaster, Closing, Early, Handles, Log, Obj,
       ObjectsOutlive, Position, Server, Stage, TypeOK, Worker
  <2> QED BY <2>1, <2>2, <2>3, <2>4, <2>5, <2>6, <2>7
<1>17. CASE JoinUndefined
  <2>1. /\ mpc \in Closing /\ mpc' \in {"hung", "crashed"}
        /\ inst[cur] = "garbage"
        /\ \/ thr' = thr /\ notified' = notified
           \/ /\ thr' = [o \in Obj |-> IF thr[o] = "none" THEN "none"
                                                       ELSE "exited"]
              /\ notified' = 0
        /\ UNCHANGED <<cur, alive, workers, wrapVars, pipe, base,
                       turn, sent, queue, bytes, missed, open>>
    BY <1>17 DEF JoinUndefined, Closing
  <2>2. Idle(Server) /\ sent = 0 /\ notified = 0
    <3>1. Idle(cur)
      BY <2>1 DEF Handles, TypeOK
    <3> QED
      BY <2>1, <3>1 DEF Serving, TypeOK
  <2>3. \A x \in Obj : thr'[x] \in {thr[x], "exited"}
                      /\ (thr[x] = "none" <=> thr'[x] = "none")
    BY <2>1 DEF TypeOK
  <2>4. Server \in Obj
    BY ServerOrWorker
  <2>5. TypeOK'
    <3>1. thr' \in [Obj -> Stage \cup {"none", "loop", "exited"}]
      BY <2>1 DEF TypeOK
    <3> QED
      BY <2>1, <3>1 DEF TypeOK, MainPc
  <2>6. Position'
    BY <2>1 DEF Position, Closing
  <2>7. Registered'
    BY <2>1, <2>3, <2>4 DEF Registered
  <2>8. Handles'
    BY <2>1, <2>3 DEF Handles, Early
  <2>9. PipeFirst'
    BY <2>1, <2>3 DEF PipeFirst
  <2>10. Serving'
    BY <2>1, <2>2, <2>3, <2>4 DEF Serving
  <2>11. ObjectsOutlive'
    BY <2>1, <2>3 DEF ObjectsOutlive
  <2> QED BY <2>5, <2>6, <2>7, <2>8, <2>9, <2>10, <2>11
<1>18. CASE UNCHANGED vars
  BY <1>18 DEF vars, TypeOK, Position, Registered, Handles, PipeFirst, Serving,
                ObjectsOutlive
<1> QED
  BY <1>1, <1>2, <1>3, <1>4, <1>5, <1>6, <1>7, <1>8, <1>9, <1>10, <1>11,
     <1>12, <1>13, <1>14, <1>15, <1>16, <1>17, <1>18
  DEF Next, Main, Waiting

\* Type correctness, which the index into workers makes depend on the rest.
THEOREM TypeCorrect == Spec => []TypeOK
<1>1. SafetyInv => TypeOK
  BY DEF SafetyInv
<1> QED
  BY <1>1, SafetyInit, SafetyStep, PTL DEF Spec

\* No thread works on an object whose destructor has begun, whatever fails
\* while the process starts (ThreadWorker::join, the destructors).
THEOREM Outlive == Spec => []ObjectsOutlive
<1>1. SafetyInv => ObjectsOutlive
  BY DEF SafetyInv
<1> QED
  BY <1>1, SafetyInit, SafetyStep, PTL DEF Spec

\* A worker with tasks always has its master (sendToMaster).
THEOREM Master == Spec => []MasterThere
<1>1. SafetyInv => MasterThere
  <2> SUFFICES ASSUME SafetyInv, NEW w \in Worker, queue[w] + open[w] > 0
               PROVE  Server \in alive /\ Server \in pipe
    BY DEF MasterThere
  <2>1. thr[Server] = "loop"
    BY DEF SafetyInv, Serving
  <2>2. Server \in Obj \ {Log}
    BY StartUpAssumption DEF Server, Log, Obj
  <2> QED
    BY <2>1, <2>2 DEF SafetyInv, PipeFirst, ObjectsOutlive
<1> QED
  BY <1>1, SafetyInit, SafetyStep, PTL DEF Spec

\* No request has come in when main is where pthread_join may do anything: the
\* HTTP thread would be looping, and main waiting for it.
THEOREM NothingLost == Spec => []UndefinedBeforeService
<1>1. SafetyInv => UndefinedBeforeService
  BY DEF SafetyInv, TypeOK, Serving, Idle, UndefinedBeforeService
<1> QED
  BY <1>1, SafetyInit, SafetyStep, PTL DEF Spec

-----------------------------------------------------------------------------
(***************************************************************************)
(* The bytes of the start.                                                 *)
(***************************************************************************)
LEMMA LagStep ==
  ASSUME SafetyInv, LagBounded, [Next]_vars
  PROVE  LagBounded'
<1>0. TypeOK /\ Serving /\ Handles
  BY DEF SafetyInv
<1> USE <1>0 DEF LagBounded, mainVars, wrapVars, initVars, loopVars
<1>1. CASE HandleRequest
  <2>1. PICK i \in FirstTurn :
          /\ queue' = [queue EXCEPT ![workers[i + 1]] = @ + 1]
          /\ notified' = workers[i + 1]
    BY <1>1 DEF HandleRequest
  <2>2. notified = 0 /\ bytes' = bytes /\ missed' = missed
    BY <1>1 DEF HandleRequest
  <2> SUFFICES ASSUME NEW w \in Worker
               PROVE  queue'[w] <= bytes'[w] + missed'[w]
                                     + (IF notified' = w THEN 1 ELSE 0)
    OBVIOUS
  <2>3. w # 0
    BY DEF Worker
  <2>4. queue[w] <= bytes[w] + missed[w]
    BY <2>2, <2>3 DEF TypeOK
  <2>5. queue'[w] = IF notified' = w THEN queue[w] + 1 ELSE queue[w]
    BY <2>1 DEF TypeOK
  <2> QED
    BY <2>2, <2>4, <2>5 DEF TypeOK
<1>2. CASE Notify
  <2> SUFFICES ASSUME NEW w \in Worker
               PROVE  queue'[w] <= bytes'[w] + missed'[w]
                                     + (IF notified' = w THEN 1 ELSE 0)
    OBVIOUS
  <2>1. queue' = queue /\ notified' = 0 /\ notified \in Worker /\ w # 0
    BY <1>2 DEF Notify, Worker
  <2>2. queue[w] \in Nat /\ bytes[w] \in Nat /\ missed[w] \in Nat
    BY DEF TypeOK
  <2>3. queue[w] <= bytes[w] + missed[w] + (IF notified = w THEN 1 ELSE 0)
    OBVIOUS
  <2>4. \/ bytes' = bytes
        \/ \E x \in Worker : bytes' = [bytes EXCEPT ![x] = @ + 1]
    BY <1>2 DEF Notify
  <2>5. \/ bytes' = [bytes EXCEPT ![notified] = @ + 1] /\ missed' = missed
        \/ missed' = [missed EXCEPT ![notified] = @ + 1]
    BY <1>2 DEF Notify
  <2>6. bytes'[w] = bytes[w] \/ bytes'[w] = bytes[w] + 1
    BY <2>4 DEF TypeOK
  <2>7. missed'[w] = missed[w] \/ missed'[w] = missed[w] + 1
    BY <2>5 DEF TypeOK
  <2>8. notified = w => bytes'[w] = bytes[w] + 1 \/ missed'[w] = missed[w] + 1
    BY <2>5 DEF TypeOK
  <2>9. queue[w] <= bytes'[w] + missed'[w]
    <3>1. CASE notified = w
      BY <3>1, <2>2, <2>3, <2>6, <2>7, <2>8
    <3>2. CASE notified # w
      BY <3>2, <2>2, <2>3, <2>6, <2>7
    <3> QED
      BY <3>1, <3>2
  <2> QED
    BY <2>1, <2>2, <2>6, <2>7, <2>9
<1>3. ASSUME NEW v \in Worker, TakeTask(v) PROVE LagBounded'
  <2> SUFFICES ASSUME NEW w \in Worker
               PROVE  queue'[w] <= bytes'[w] + missed'[w]
                                     + (IF notified' = w THEN 1 ELSE 0)
    OBVIOUS
  <2>1. /\ bytes' = [bytes EXCEPT ![v] = @ - 1] /\ bytes[v] > 0
        /\ \/ queue' = queue /\ queue[v] = 0
           \/ queue' = [queue EXCEPT ![v] = @ - 1]
        /\ missed' = missed /\ notified' = notified
    BY <1>3 DEF TakeTask
  <2>2. CASE w = v
    BY <2>1, <2>2 DEF TypeOK
  <2>3. CASE w # v
    BY <2>1, <2>3 DEF TypeOK
  <2> QED
    BY <2>2, <2>3
<1>4. CASE JoinUndefined
  <2>1. /\ mpc \in {"join", "destroy"} /\ inst[cur] = "garbage"
        /\ UNCHANGED <<queue, bytes, missed>>
        /\ notified' = notified \/ notified' = 0
    BY <1>4 DEF JoinUndefined
  <2>2. notified = 0
    BY <2>1 DEF Serving, Handles, Idle, TypeOK
  <2> QED
    BY <2>1, <2>2
<1>5. CASE Main /\ ~JoinUndefined
  BY <1>5 DEF Main, InitLogger, RunLogger, NewServer, NewWorker, RunWorker,
              Wake, RunServer, Join, Delete, Destroy
<1>6. ASSUME NEW o \in Obj, SetUp(o) \/ SetUpFails(o) PROVE LagBounded'
  BY <1>6 DEF SetUp, SetUpFails
<1>7. ASSUME NEW w \in Worker, SendToMaster(w) PROVE LagBounded'
  BY <1>7 DEF SendToMaster
<1>8. CASE UNCHANGED vars
  BY <1>8 DEF vars
<1> QED
  BY <1>1, <1>2, <1>3, <1>4, <1>5, <1>6, <1>7, <1>8 DEF Next, Waiting

\* A worker's queue runs ahead of its pipe by no more than the tasks that were
\* announced before the pipe was made, whatever main's second has covered.
THEOREM Lag == Spec => []LagBounded
<1>1. Init => SafetyInv /\ LagBounded
  <2>1. Init => LagBounded
    BY DEF Init, LagBounded, Worker
  <2> QED
    BY <2>1, SafetyInit
<1>2. SafetyInv /\ LagBounded /\ [Next]_vars => (SafetyInv /\ LagBounded)'
  BY SafetyStep, LagStep
<1>3. SafetyInv /\ LagBounded => LagBounded
  OBVIOUS
<1> QED
  BY <1>1, <1>2, <1>3, PTL DEF Spec
=============================================================================
