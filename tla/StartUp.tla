------------------------------ MODULE StartUp ------------------------------
(***************************************************************************)
(* How the process starts and how it would end (Main.cpp, ThreadWorker.cpp *)
(* and the init functions of Logger, HttpServer and TaskWorker).           *)
(*                                                                         *)
(* main makes the three kinds of thread objects, starts their threads, and *)
(* then joins and deletes them one after the other.  Each thread sets      *)
(* itself up (a pipe, an event base, a socket), which may fail at any step *)
(* and then ends the thread, and nothing else: no one is told.  main does  *)
(* not look whether the workers are ready either, it sleeps for a second.  *)
(* What the threads do once they loop is XPing's subject; here a task is a *)
(* number in a queue.                                                      *)
(***************************************************************************)
EXTENDS Integers, Sequences

CONSTANTS
  WorkerNum,      \* WORKER_NUM of Main.cpp
  ServerModulus,  \* WORKER_NUM of Common.h, which sendToWorker divides by
  MaxTasks        \* bound: how many requests come in

ASSUME StartUpAssumption ==
  /\ WorkerNum \in Nat \ {0}
  /\ ServerModulus \in 1..WorkerNum
  /\ MaxTasks \in Nat

\* The thread objects, in the order main joins them.
Server == 0
Worker == 1..WorkerNum
Log    == WorkerNum + 1
Obj    == 0..(WorkerNum + 1)

VARIABLES
  mpc,      \* where main is
  cur,      \* the object main is at
  alive,    \* the objects that exist (the logger is a global)
  inst,     \* ThreadWorker::threadInst: NULL, what a failed pthread_create
            \* leaves, or the handle of a thread
  ended,    \* ThreadWorker::end
  thr,      \* where each object's thread is
  pipe,     \* the objects whose initPipe has succeeded
  base,     \* event base: "null", "made", "freed"
  workers,  \* HttpServer::workers
  turn,     \* randedIndex of sendToWorker; -1 before the first call
  notified, \* the worker that the HTTP thread is about to notify; 0: none
  sent,     \* how many requests have come in
  queue,    \* how many tasks each worker's queue holds
  bytes,    \* how many bytes each worker's pipe holds
  missed,   \* how many bytes for each worker went elsewhere (a history)
  open      \* how many tasks each worker has in hand

mainVars == <<mpc, cur, alive, workers>>
wrapVars == <<inst, ended>>
initVars == <<thr, pipe, base>>
loopVars == <<turn, notified, sent, queue, bytes, missed, open>>
vars     == <<mainVars, wrapVars, initVars, loopVars>>

MainPc == {"initLogger", "newServer", "newWorker", "run", "sleep", "join",
           "delete", "destroy", "end", "hung", "crashed"}

\* What a thread has still to do before it loops: initServer, initWorker.
Stage == {"pipe", "base", "http", "bind", "socket"}

TypeOK ==
  /\ mpc \in MainPc
  /\ cur \in Obj
  /\ alive \subseteq Obj
  /\ inst \in [Obj -> {"null", "garbage", "thread"}]
  /\ ended \in [Obj -> BOOLEAN]
  /\ thr \in [Obj -> Stage \cup {"none", "loop", "exited"}]
  /\ pipe \subseteq Obj
  /\ base \in [Obj -> {"null", "made", "freed"}]
  /\ workers \in Seq(Worker)
  /\ turn \in -1..(WorkerNum - 1)
  /\ notified \in 0..WorkerNum
  /\ sent \in Nat
  /\ queue \in [Worker -> Nat]
  /\ bytes \in [Worker -> Nat]
  /\ missed \in [Worker -> Nat]
  /\ open \in [Worker -> Nat]

Init ==
  /\ mpc = "initLogger"
  /\ cur = Log
  /\ alive = {Log}
  /\ inst = [o \in Obj |-> "null"]
  /\ ended = [o \in Obj |-> TRUE]
  /\ thr = [o \in Obj |-> "none"]
  /\ pipe = {}
  /\ base = [o \in Obj |-> "null"]
  /\ workers = <<>>
  /\ turn = -1
  /\ notified = 0
  /\ sent = 0
  /\ queue = [w \in Worker |-> 0]
  /\ bytes = [w \in Worker |-> 0]
  /\ missed = [w \in Worker |-> 0]
  /\ open = [w \in Worker |-> 0]

(***************************************************************************)
(* main, up to the start of the HTTP thread.                               *)
(***************************************************************************)
\* Logger::initLogger, which main calls before there is any other thread.
\* exit(-1) runs the destructor of the global logger.
InitLogger ==
  /\ mpc = "initLogger"
  /\ \/ /\ pipe' = pipe \cup {Log}
        /\ base' = [base EXCEPT ![Log] = "made"]
        /\ mpc' = "run"
     \/ /\ pipe' \in {pipe, pipe \cup {Log}}
        /\ mpc' = "delete"
        /\ UNCHANGED base
  /\ UNCHANGED <<cur, alive, workers, wrapVars, thr, loopVars>>

NewServer ==
  /\ mpc = "newServer"
  /\ alive' = alive \cup {Server}
  /\ mpc' = "newWorker"
  /\ cur' = 1
  /\ UNCHANGED <<workers, wrapVars, initVars, loopVars>>

\* new TaskWorker, registerMaster and registerWorker.
NewWorker ==
  /\ mpc = "newWorker"
  /\ alive' = alive \cup {cur}
  /\ workers' = Append(workers, cur)
  /\ mpc' = "run"
  /\ UNCHANGED <<cur, wrapVars, initVars, loopVars>>

\* Where a thread begins: the logger's has been set up by main.
FirstStage(o) == IF o = Log THEN "loop" ELSE "pipe"

\* ThreadWorker::runIt.  Its result is ignored by every caller.
RunIt(o) ==
  IF ~ended[o]
  THEN UNCHANGED <<wrapVars, thr>>
  ELSE \/ /\ inst' = [inst EXCEPT ![o] = "thread"]
          /\ ended' = [ended EXCEPT ![o] = FALSE]
          /\ thr' = [thr EXCEPT ![o] = FirstStage(o)]
       \/ /\ inst' = [inst EXCEPT ![o] = "garbage"]
          /\ UNCHANGED <<ended, thr>>

\* main calls runIt of the logger, of each worker as it is made, and, after
\* the sleep, of the server.
RunLogger ==
  /\ mpc = "run" /\ cur = Log
  /\ RunIt(cur)
  /\ mpc' = "newServer"
  /\ UNCHANGED <<cur, alive, workers, pipe, base, loopVars>>

RunWorker ==
  /\ mpc = "run" /\ cur \in Worker
  /\ RunIt(cur)
  /\ mpc' = IF cur < WorkerNum THEN "newWorker" ELSE "sleep"
  /\ cur' = IF cur < WorkerNum THEN cur + 1 ELSE Server
  /\ UNCHANGED <<alive, workers, pipe, base, loopVars>>

RunServer ==
  /\ mpc = "run" /\ cur = Server
  /\ RunIt(cur)
  /\ mpc' = "join"
  /\ UNCHANGED <<cur, alive, workers, pipe, base, loopVars>>

\* usleep returns, wherever the workers are by then.
Wake ==
  /\ mpc = "sleep"
  /\ mpc' = "run"
  /\ UNCHANGED <<cur, alive, workers, wrapVars, initVars, loopVars>>

(***************************************************************************)
(* main, from the joins to its end; then the global logger's destructor.   *)
(***************************************************************************)
\* Mutant: main goes on at once.
JoinNot ==
  /\ mpc = "join"
  /\ mpc' = "delete"
  /\ UNCHANGED <<cur, alive, workers, wrapVars, initVars, loopVars>>

\* The threads that pthread_join may return for: the one that the handle names,
\* any if pthread_create has failed and left the handle unfilled.
Named ==
  {o \in Obj : inst[cur] = "garbage" \/ (inst[cur] = "thread" /\ o = cur)}

\* The handles when main has waited for cur's.  A thread is joined when it has
\* ended, and a handle that named it names nothing any more; without a handle
\* there is nothing to wait for, and on an unfilled one pthread_join may fail.
AfterJoin ==
  {[inst EXCEPT ![o] = "garbage", ![cur] = "null"] :
     o \in {x \in Named : inst[x] = "thread" /\ thr[x] = "exited"}}
  \cup {i \in {inst} : inst[cur] # "thread"}

\* ThreadWorker::join.
Join ==
  /\ mpc = "join"
  /\ inst' \in AfterJoin
  /\ mpc' = "delete"
  /\ UNCHANGED <<cur, alive, workers, ended, initVars, loopVars>>

\* What else pthread_join may do with an unfilled handle, here and in the
\* destructor: never return, or read where it must not and end the process.
JoinUndefined ==
  /\ mpc \in {"join", "destroy"}
  /\ inst[cur] = "garbage"
  /\ \/ /\ mpc' = "hung"
        /\ UNCHANGED <<thr, notified>>
     \/ /\ mpc' = "crashed"
        /\ thr' = [o \in Obj |-> IF thr[o] = "none" THEN "none" ELSE "exited"]
        /\ notified' = 0
  /\ UNCHANGED <<cur, alive, workers, wrapVars, pipe, base,
                 turn, sent, queue, bytes, missed, open>>

\* ~Logger, ~HttpServer, ~TaskWorker: the event base goes first ...
Delete ==
  /\ mpc = "delete"
  /\ base' = [base EXCEPT ![cur] = "freed"]
  /\ mpc' = "destroy"
  /\ UNCHANGED <<cur, alive, workers, wrapVars, thr, pipe, loopVars>>

\* ... and then ~ThreadWorker joins once more and the object is gone.
Destroy ==
  /\ mpc = "destroy"
  /\ \E i \in AfterJoin : inst' = [i EXCEPT ![cur] = "null"]
  /\ ended' = [ended EXCEPT ![cur] = TRUE]
  /\ alive' = alive \ {cur}
  /\ mpc' = IF cur = Log THEN "end" ELSE "join"
  /\ cur' = IF cur = Log THEN cur ELSE cur + 1
  /\ UNCHANGED <<workers, initVars, loopVars>>

(***************************************************************************)
(* A thread sets itself up: initServer, initWorker.                        *)
(***************************************************************************)
\* The step after a successful one.
NextStage(o) ==
  CASE thr[o] = "pipe" -> "base"
    [] thr[o] = "base" -> IF o = Server THEN "http" ELSE "socket"
    [] thr[o] = "http" -> "bind"
    [] OTHER -> "loop"

\* Mutant: the pipe is made anew when the loop starts.
SetUpDrains(o) ==
  /\ thr[o] \in Stage
  /\ thr' = [thr EXCEPT ![o] = NextStage(o)]
  /\ pipe' = IF thr[o] = "pipe" THEN pipe \cup {o} ELSE pipe
  /\ base' = IF thr[o] = "base" THEN [base EXCEPT ![o] = "made"] ELSE base
  /\ bytes' = [w \in Worker |->
                 IF w = o /\ thr[o] = "socket" THEN 0 ELSE bytes[w]]
  /\ UNCHANGED <<mainVars, wrapVars, turn, notified, sent, queue, missed, open>>

\* setNotifyEvent and the last lines of initWorker watch the pipe from here
\* on; bytes written since initPipe are found by the first dispatch.
SetUp(o) ==
  /\ thr[o] \in Stage
  /\ thr' = [thr EXCEPT ![o] = NextStage(o)]
  /\ pipe' = IF thr[o] = "pipe" THEN pipe \cup {o} ELSE pipe
  /\ base' = IF thr[o] = "base" THEN [base EXCEPT ![o] = "made"] ELSE base
  /\ UNCHANGED <<mainVars, wrapVars, loopVars>>

\* Mutant: a loop may end, as event_base_dispatch does without events.
LoopEnds(o) ==
  /\ thr[o] \in Stage \cup {"loop"}
  /\ thr' = [thr EXCEPT ![o] = "exited"]
  /\ UNCHANGED <<mainVars, wrapVars, pipe, base, loopVars>>

\* doRun: pthread_exit.
SetUpFails(o) ==
  /\ thr[o] \in Stage
  /\ thr' = [thr EXCEPT ![o] = "exited"]
  /\ UNCHANGED <<mainVars, wrapVars, pipe, base, loopVars>>

(***************************************************************************)
(* The loops.  event_base_dispatch does not return: its events persist.    *)
(***************************************************************************)
\* sendToWorker in two steps, the push and the byte.  The index is drawn in
\* the first call, from the workers there are, and then goes round.
FirstTurn == IF turn = -1 THEN 0..(Len(workers) - 1) ELSE {turn}

HandleRequest ==
  /\ thr[Server] = "loop"
  /\ notified = 0
  /\ sent < MaxTasks
  /\ sent' = sent + 1
  /\ \E i \in FirstTurn :
       /\ queue' = [queue EXCEPT ![workers[i + 1]] = @ + 1]
       /\ notified' = workers[i + 1]
       /\ turn' = (i + 1) % ServerModulus
  /\ UNCHANGED <<mainVars, wrapVars, initVars, bytes, missed, open>>

\* TaskWorker::notify.  Without a pipe the descriptor has never been set: it
\* may be any number, and the byte is lost or lands in another worker's pipe.
Notify ==
  /\ notified \in Worker
  /\ IF notified \in pipe
     THEN /\ bytes' = [bytes EXCEPT ![notified] = @ + 1]
          /\ UNCHANGED missed
     ELSE /\ missed' = [missed EXCEPT ![notified] = @ + 1]
          /\ \/ UNCHANGED bytes
             \/ \E w \in Worker \cap pipe : bytes' = [bytes EXCEPT ![w] = @ + 1]
  /\ notified' = 0
  /\ UNCHANGED <<mainVars, wrapVars, initVars, turn, sent, queue, open>>

\* Mutant: all bytes are read for one task.
TakeOneOfMany(w) ==
  /\ thr[w] = "loop"
  /\ bytes[w] > 0
  /\ bytes' = [bytes EXCEPT ![w] = 0]
  /\ IF queue[w] = 0
     THEN UNCHANGED <<queue, open>>
     ELSE /\ queue' = [queue EXCEPT ![w] = @ - 1]
          /\ open' = [open EXCEPT ![w] = @ + 1]
  /\ UNCHANGED <<mainVars, wrapVars, initVars, turn, notified, sent, missed>>

\* notifyEventHandler.
TakeTask(w) ==
  /\ thr[w] = "loop"
  /\ bytes[w] > 0
  /\ bytes' = [bytes EXCEPT ![w] = @ - 1]
  /\ IF queue[w] = 0
     THEN UNCHANGED <<queue, open>>
     ELSE /\ queue' = [queue EXCEPT ![w] = @ - 1]
          /\ open' = [open EXCEPT ![w] = @ + 1]
  /\ UNCHANGED <<mainVars, wrapVars, initVars, turn, notified, sent, missed>>

\* sendToMaster: the worker calls its master.
SendToMaster(w) ==
  /\ thr[w] = "loop"
  /\ open[w] > 0
  /\ open' = [open EXCEPT ![w] = @ - 1]
  /\ UNCHANGED <<mainVars, wrapVars, initVars, turn, notified, sent, queue,
                 bytes, missed>>

\* No step is left: main waits for a thread that loops, or will never go on.
Waiting ==
  /\ \/ mpc \in {"end", "hung", "crashed"}
     \/ mpc = "join" /\ inst[cur] = "thread" /\ thr[cur] = "loop"
  /\ UNCHANGED vars

Main ==
  \/ InitLogger \/ RunLogger \/ NewServer \/ NewWorker \/ RunWorker
  \/ Wake \/ RunServer \/ Join \/ Delete \/ Destroy \/ JoinUndefined

Next ==
  \/ Main
  \/ \E o \in Obj : SetUp(o) \/ SetUpFails(o)
  \/ HandleRequest
  \/ Notify
  \/ \E w \in Worker : TakeTask(w) \/ SendToMaster(w)
  \/ Waiting

\* The scheduler runs every thread that can run.
Fairness ==
  /\ WF_vars(Main)
  /\ \A o \in Obj : WF_vars(SetUp(o) \/ SetUpFails(o))
  /\ WF_vars(Notify)
  /\ \A w \in Worker : WF_vars(TakeTask(w))

Spec == Init /\ [][Next]_vars

FairSpec == Spec /\ Fairness

-----------------------------------------------------------------------------
\* A worker without a thread that will ever loop.
Dead(w) == inst[w] = "garbage" \/ thr[w] = "exited"

\* Every task in a worker's queue has a byte in the worker's pipe, or on its
\* way there, or is one of those announced before the worker had a pipe.  Only
\* so many are left behind (Main.cpp: the sleep; TaskWorker.cpp: initPipe and
\* notify on two threads), whatever another worker's bytes do here.
LagBounded ==
  \A w \in Worker :
    queue[w] <= bytes[w] + missed[w] + (IF notified = w THEN 1 ELSE 0)

\* No thread works on an object that is being destroyed, on its event base or
\* on its memory (the destructors free the base before they join).
ObjectsOutlive ==
  \A o \in Obj :
    base[o] = "freed" \/ o \notin alive => thr[o] \in {"none", "exited"}

\* As long as a worker has a task queued or in hand, its master is there, with
\* the pipe the worker will notify it through.  main deletes the server while
\* the workers still run, so this rests on a server that has taken a request
\* never leaving its loop.
MasterThere ==
  \A w \in Worker :
    queue[w] + open[w] > 0 => Server \in alive /\ Server \in pipe

\* The process has taken no request when main joins through a handle that no
\* thread has filled, with what that may do (ThreadWorker.cpp: runIt leaves the
\* handle, join and the destructor use it): no client loses an answer by it.
UndefinedBeforeService == mpc \in {"hung", "crashed"} => sent = 0

\* A worker takes all but the tasks that were announced before it had a pipe,
\* however far it is with its start, unless the start fails.
Served ==
  \A w \in Worker :
    queue[w] > missed[w] ~> queue[w] <= missed[w] \/ Dead(w)
=============================================================================
