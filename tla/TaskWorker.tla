----------------------------- MODULE TaskWorker -----------------------------
(***************************************************************************)
(* The task worker thread (TaskWorker.cpp, Ping.cpp): a libevent loop that *)
(* takes tasks from the HTTP thread, sends one ICMP echo request per       *)
(* server, and gives each ping exactly one end: a send error, a timeout or *)
(* an echo reply.  A task whose pings have all ended goes back.            *)
(*                                                                         *)
(* The callbacks of the loop never overlap, so a callback is one step,     *)
(* except where the HTTP thread can act in between: after a task has been  *)
(* pushed to the response queue (the byte that announces it is written     *)
(* next, and the task is no longer the worker's) and between the pings     *)
(* that doTask starts.                                                     *)
(***************************************************************************)
EXTENDS Shared

CONSTANTS
  Capacity,       \* DOING_TASK_CAPACITY
  ThreadId,       \* TaskWorker::threadId of this worker
  ShortPid,       \* getShortPid()
  OtherPackets,   \* ICMP packets of other threads, processes and hosts that
                  \* the raw socket also receives
  ClockAdvances   \* TRUE: currentTime() never returns a value twice

Packet ==
  [tid : Nat, type : {"request", "reply"}, id : Nat,
   stamp : Stamp, idx : Idx,
   req : Req \cup {NoReq}]   \* history: the request it was sent for

ASSUME WorkerAssumption ==
  /\ Capacity \in Nat \ {0}
  /\ ThreadId \in Nat /\ ShortPid \in Nat
  /\ OtherPackets \subseteq {p \in Packet : p.req = NoReq}
  /\ \A p \in OtherPackets :
       p.tid # ThreadId \/ p.type # "reply" \/ p.id # ShortPid
  /\ ClockAdvances \in BOOLEAN

VARIABLES
  doingMap,    \* TaskWorker::doingMap, timestamp to task; NoTask: no entry
  doingCount,  \* TaskWorker::doingCount
  timers,      \* timers[a][i]: pending timeout events armed for ping i at a
  net,         \* the replies that may still reach the raw socket
  clock,       \* the greatest value currentTime() has returned
  wpc,         \* where the thread is
  cur,         \* the argument of the doTask under way
  next         \* the loop counter of doTask

workerData == <<doingMap, doingCount, timers, net, clock>>
workerVars == <<workerData, wpc, cur, next>>

\* "loop": waiting in event_base_dispatch.  "notify" and "notifyInTask":
\* about to write the byte that announces a response, from a callback or from
\* within doTask.  "doTask": at the loop test of doTask.
WorkerPc == {"loop", "doTask", "notify", "notifyInTask"}

WorkerTypeOK ==
  /\ doingMap \in [Stamp -> Addr \cup {NoTask}]
  /\ doingCount \in Int
  /\ timers \in [Addr -> [Idx -> Int]]
  /\ net \subseteq Packet
  /\ clock \in Stamp
  /\ wpc \in WorkerPc
  /\ cur \in Addr \cup {NoTask}
  /\ wpc \in {"doTask", "notifyInTask"} => cur \in Addr
  /\ next \in 0..MaxServers

WorkerInit ==
  /\ doingMap = [s \in Stamp |-> NoTask]
  /\ doingCount = 0
  /\ timers = [a \in Addr |-> [i \in Idx |-> 0]]
  /\ net = OtherPackets
  /\ clock = 0
  /\ wpc = "loop"
  /\ cur = NoTask
  /\ next = 0

\* Mutant: a clock of a coarser unit, which stands still between two reads.
CoarseTime == {clock, clock + 1} \cap (Stamp \ {0})

(***************************************************************************)
(* gettimeofday: a later value than any before when ClockAdvances.         *)
(* Otherwise two reads can fall in the same microsecond, and the wall      *)
(* clock can be set back.                                                  *)
(***************************************************************************)
CurrentTime == IF ClockAdvances THEN {clock + 1} \cap Stamp
                                ELSE (1..(clock + 1)) \cap Stamp

\* Ping::setTimer and event_del.  Mutants: either is forgotten.
SetNoTimer(a, i) == UNCHANGED timers
SetTimer(a, i)   == timers' = [timers EXCEPT ![a][i] = @ + 1]
DelNoTimer(a, i) == UNCHANGED timers
DelTimer(a, i)   == timers' = [timers EXCEPT ![a][i] = @ - 1]

\* Mutants of onComplete: the slot is not given back; the entry of doingMap
\* stays; the task is queued and its byte never written.
CompleteLeaksSlot(a, ret) ==
  /\ doingMap' = [doingMap EXCEPT ![task[a].stamp] = NoTask]
  /\ responseQueue' = Append(responseQueue, a)
  /\ wpc' = ret
  /\ UNCHANGED doingCount

CompleteKeepsEntry(a, ret) ==
  /\ doingCount' = doingCount - 1
  /\ responseQueue' = Append(responseQueue, a)
  /\ wpc' = ret
  /\ UNCHANGED doingMap

CompleteUnannounced(a, ret) ==
  /\ doingCount' = doingCount - 1
  /\ doingMap' = [doingMap EXCEPT ![task[a].stamp] = NoTask]
  /\ responseQueue' = Append(responseQueue, a)
  /\ UNCHANGED wpc

\* onComplete, the part before the byte is written: the slot is given back,
\* whatever entry the map has under the task's timestamp is erased, and the
\* task is pushed to the master's queue.  ret is where the thread goes on.
OnComplete(a, ret) ==
  /\ doingCount' = doingCount - 1
  /\ doingMap' = [doingMap EXCEPT ![task[a].stamp] = NoTask]
  /\ responseQueue' = Append(responseQueue, a)
  /\ wpc' = ret

\* A completion handler ends ping i of task a with status s; the last ping
\* completes the task.
EndPing(a, i, s, ret) ==
  /\ task' = [task EXCEPT ![a] = CountDone(@, i, s)]
  /\ IF IsComplete(task'[a])
     THEN OnComplete(a, ret)
     ELSE UNCHANGED <<doingCount, doingMap, responseQueue, wpc>>

(***************************************************************************)
(* notifyEventHandler: one byte, one task.                                 *)
(***************************************************************************)
DropBusy(a) ==
  /\ task' = [task EXCEPT ![a].error = BusyCode]
  /\ responseQueue' = Append(responseQueue, a)
  /\ wpc' = "notify"
  /\ UNCHANGED <<doingMap, doingCount, clock, cur, next>>

\* Mutant: one task too many is let in.
OverCapacity == doingCount > Capacity

AtCapacity == doingCount >= Capacity

\* map::insert leaves an entry that is already there as it is.
Accept(a) ==
  \E now \in CurrentTime :
    /\ clock' = IF now > clock THEN now ELSE clock
    /\ task' = [task EXCEPT ![a].stamp = now]
    /\ doingMap' = [doingMap EXCEPT ![now] = IF @ = NoTask THEN a ELSE @]
    /\ doingCount' = doingCount + 1
    /\ wpc' = "doTask"
    /\ cur' = a
    /\ next' = 0
    /\ UNCHANGED responseQueue

NotifyEvent ==
  /\ wpc = "loop"
  /\ taskPipe > 0
  /\ taskPipe' = taskPipe - 1
  /\ IF taskQueue = <<>>
     THEN UNCHANGED <<task, taskQueue, responseQueue, doingMap, doingCount,
                      clock, wpc, cur, next>>
     ELSE /\ taskQueue' = Tail(taskQueue)
          /\ IF AtCapacity
             THEN DropBusy(Head(taskQueue))
             ELSE Accept(Head(taskQueue))
  /\ UNCHANGED <<live, respPipe, timers, net>>

(***************************************************************************)
(* doTask, one iteration: Ping::start.  The loop test reads totalCount     *)
(* from the task's memory each time round, whoever that memory belongs to. *)
(***************************************************************************)
EchoReply(a, i) ==
  [tid |-> ThreadId, type |-> "reply", id |-> ShortPid,
   stamp |-> task[a].stamp, idx |-> i, req |-> task[a].req]

InDoTask ==
  /\ wpc = "doTask"
  /\ next < task[cur].total

\* The request went out: the ping waits for its reply or its timer.
PingSent ==
  /\ InDoTask
  /\ task' = [task EXCEPT ![cur].status[next] = Doing]
  /\ SetTimer(cur, next)
  /\ net' = net \cup {EchoReply(cur, next)}
  /\ next' = next + 1
  /\ UNCHANGED <<live, todoVars, replyVars, doingMap, doingCount, clock, wpc,
                 cur>>

\* inet_pton or sendto failed: the ping ends here, unless it has ended before.
PingNotSent ==
  /\ InDoTask
  /\ next' = next + 1
  /\ IF task[cur].status[next] \in Open
     THEN EndPing(cur, next, SendError, "notifyInTask")
     ELSE UNCHANGED <<task, doingCount, doingMap, responseQueue, wpc>>
  /\ UNCHANGED <<live, todoVars, respPipe, timers, net, clock, cur>>

DoTaskReturns ==
  /\ wpc = "doTask"
  /\ next >= task[cur].total
  /\ wpc' = "loop"
  /\ UNCHANGED <<heapVars, todoVars, replyVars, workerData, cur, next>>

(***************************************************************************)
(* sendToMaster, its second half: HttpServer::notify.  A full pipe blocks. *)
(***************************************************************************)
\* Mutant: a full pipe does not block, and the byte is lost.
NotifyMasterOrDrop ==
  /\ wpc \in {"notify", "notifyInTask"}
  /\ respPipe' = IF respPipe < PipeCap THEN respPipe + 1 ELSE respPipe
  /\ wpc' = IF wpc = "notify" THEN "loop" ELSE "doTask"
  /\ UNCHANGED <<heapVars, todoVars, responseQueue, workerData, cur, next>>

NotifyMaster ==
  /\ wpc \in {"notify", "notifyInTask"}
  /\ respPipe < PipeCap
  /\ respPipe' = respPipe + 1
  /\ wpc' = IF wpc = "notify" THEN "loop" ELSE "doTask"
  /\ UNCHANGED <<heapVars, todoVars, responseQueue, workerData, cur, next>>

(***************************************************************************)
(* socketReadHandler and onReceive.  A reply can arrive late, twice, out   *)
(* of order or never, so delivering it leaves it in net.  A packet that a  *)
(* test of the handler drops changes nothing; the tests are the guards.    *)
(***************************************************************************)
AcceptsAnyThread(p) == p.type = "reply" /\ p.id = ShortPid  \* mutant

Accepts(p) ==
  /\ p.tid = ThreadId
  /\ p.type = "reply"
  /\ p.id = ShortPid

\* p passes the filter and is looked up successfully as a ping of task a.
Finds(p, a) ==
  /\ wpc = "loop"
  /\ Accepts(p)
  /\ doingMap[p.stamp] = a
  /\ a # NoTask

Receive(p, a) ==
  /\ Finds(p, a)
  /\ p.idx < task[a].total
  /\ task[a].status[p.idx] \in Open
  /\ DelTimer(a, p.idx)
  /\ EndPing(a, p.idx, Success, "notify")
  /\ UNCHANGED <<live, todoVars, respPipe, net, clock, cur, next>>

\* The test is index > totalCount, so index = totalCount passes and the
\* status is read past the end of pingArray.  If those bytes look like an
\* open ping it is counted; otherwise nothing happens.
ReceivePastEnd(p, a) ==
  /\ Finds(p, a)
  /\ p.idx = task[a].total
  /\ task' = [task EXCEPT ![a].done = @ + 1]
  /\ IF IsComplete(task'[a])
     THEN OnComplete(a, "notify")
     ELSE UNCHANGED <<doingCount, doingMap, responseQueue, wpc>>
  /\ UNCHANGED <<live, todoVars, respPipe, timers, net, clock, cur, next>>

(***************************************************************************)
(* Ping::handleTimeout of ping i of the task at a.                         *)
(***************************************************************************)
HandleTimeout(a, i) ==
  /\ wpc = "loop"
  /\ timers[a][i] > 0
  /\ timers' = [timers EXCEPT ![a][i] = @ - 1]
  /\ IF task[a].status[i] \in Open
     THEN EndPing(a, i, Timedout, "notify")
     ELSE UNCHANGED <<task, doingCount, doingMap, responseQueue, wpc>>
  /\ UNCHANGED <<live, todoVars, respPipe, net, clock, cur, next>>

WorkerNext ==
  \/ NotifyEvent
  \/ PingSent
  \/ PingNotSent
  \/ DoTaskReturns
  \/ NotifyMaster
  \/ \E p \in net, a \in Addr : Receive(p, a) \/ ReceivePastEnd(p, a)
  \/ \E a \in Addr, i \in Idx : HandleTimeout(a, i)
=============================================================================
