-------------------------------- MODULE XPing --------------------------------
(***************************************************************************)
(* The xping process of Main.cpp: one HTTP thread and one task worker      *)
(* thread (WORKER_NUM is 1) over the state of module Shared.               *)
(***************************************************************************)
EXTENDS TaskWorker, HttpServer

CONSTANT
  Reuse  \* TRUE: new may return an address that was deleted while doTask
         \* still runs over the task that was there

ASSUME XPingAssumption == Reuse \in BOOLEAN

vars == <<heapVars, todoVars, replyVars, workerVars, httpVars>>

TypeOK == SharedTypeOK /\ WorkerTypeOK /\ HttpTypeOK

Init == SharedInit /\ WorkerInit /\ HttpInit

InTask == wpc \in {"doTask", "notifyInTask"}

Allocatable == {a \in Addr : Reuse \/ ~InTask \/ a # cur}

\* Both loops wait for an event and none will come.
Quiescent ==
  /\ wpc = "loop" /\ hpc = "loop"
  /\ taskPipe = 0 /\ respPipe = 0
  /\ \A a \in Addr, i \in Idx : timers[a][i] = 0
  /\ arrived = Req
  /\ UNCHANGED vars

Next ==
  \/ WorkerNext /\ UNCHANGED httpVars
  \/ HttpNext(Allocatable) /\ UNCHANGED workerVars
  \/ Quiescent

(***************************************************************************)
(* Fairness.  An event loop calls back every ready event, a callback runs  *)
(* to its end, and an armed timer expires.  Nothing makes a request or a   *)
(* reply arrive.                                                           *)
(***************************************************************************)
Fairness ==
  /\ WF_vars((NotifyEvent \/ PingSent \/ PingNotSent \/ DoTaskReturns
              \/ NotifyMaster) /\ UNCHANGED httpVars)
  /\ \A a \in Addr, i \in Idx :
       WF_vars(HandleTimeout(a, i) /\ UNCHANGED httpVars)
  /\ WF_vars((NotifyWorker \/ NotifySelf) /\ UNCHANGED workerVars)
  /\ WF_vars(TryRespEvent /\ UNCHANGED workerVars)

Spec == Init /\ [][Next]_vars

FairSpec == Spec /\ Fairness

-----------------------------------------------------------------------------
\* The tasks in the worker's hands: taken from taskQueue and not handed back.
InWorker == live \ (Members(taskQueue) \cup Members(responseQueue))

Distinct(q) == \A j, k \in 1..Len(q) : q[j] = q[k] => j = k

\* Each task has one owner: it is in a queue once, or with the worker; what
\* is in a queue is allocated.  So no task is answered or deleted twice
\* (TaskWorker::onComplete, tryRespEventHandler).
OneOwner ==
  /\ Distinct(taskQueue) /\ Distinct(responseQueue)
  /\ Members(taskQueue) \cap Members(responseQueue) = {}
  /\ Members(taskQueue) \cup Members(responseQueue) \subseteq live

\* Task.h: "doneCount should not be counted more than once, in any case".  It
\* is the number of pings of the task that have ended.
DoneCountExact ==
  \A a \in live : task[a].done = Cardinality(Ended(task[a]))

\* doingCount is the number of tasks in the worker's hands, and no more than
\* the capacity; so completions neither leak a slot nor give one back twice.
SlotsExact ==
  /\ doingCount = Cardinality(InWorker)
  /\ doingCount <= Capacity

\* A queue and its pipe agree: one byte per queued task, but for the task whose
\* byte the pusher is about to write.  So a woken reader finds a task, and no
\* task waits in a queue with nobody to be woken for it.
NotifyBalance ==
  /\ Len(taskQueue) = taskPipe + (IF hpc = "notifyWorker" THEN 1 ELSE 0)
  /\ Len(responseQueue) = respPipe + (IF hpc = "notifySelf" THEN 1 ELSE 0)
       + (IF wpc \in {"notify", "notifyInTask"} THEN 1 ELSE 0)

\* A pending timer belongs to a ping that waits for its reply, in a task the
\* worker still holds: Ping::~Ping frees timeoutEvent without event_del, so a
\* timer that outlived its task would fire on freed memory.  Each waiting ping
\* has exactly one timer.
TimersOwned ==
  \A a \in Addr, i \in Idx :
    timers[a][i] = IF a \in InWorker /\ i < task[a].total
                        /\ task[a].status[i] = Doing THEN 1 ELSE 0

\* doingMap never leads to a task the worker has handed back.
DoingMapLive ==
  \A s \in Stamp : doingMap[s] # NoTask =>
    doingMap[s] \in InWorker /\ task[doingMap[s]].stamp = s

\* onComplete finds the task it completes in doingMap.
DoingMapFinds ==
  \A a \in InWorker : doingMap[task[a].stamp] = a

\* A reply is credited to the task, and to a ping of the task, that it answers.
ReplyReachesItsTask ==
  \A p \in net : Accepts(p) /\ doingMap[p.stamp] # NoTask =>
    task[doingMap[p.stamp]].req = p.req

\* The index test of onReceive keeps the access within pingArray.
ReplyIndexInBounds ==
  \A p \in net : Accepts(p) /\ doingMap[p.stamp] # NoTask =>
    p.idx # task[doingMap[p.stamp]].total

\* doingRequest leads from every task to the request it was created for, and
\* from no other address: both "impossible" branches are impossible.
RequestTracked ==
  \A a \in Addr : doingRequest[a] = IF a \in live THEN task[a].req ELSE NoReq

\* Neither thread has a step to take.
StandsStill == ~ENABLED (Next /\ vars' # vars)

\* The HTTP thread waits for room in a pipe that only it empties, or in the
\* worker's pipe while the worker waits for room in the HTTP thread's.
WaitCycle ==
  /\ respPipe = PipeCap
  /\ \/ hpc = "notifySelf"
     \/ /\ hpc = "notifyWorker" /\ taskPipe = PipeCap
        /\ wpc \in {"notify", "notifyInTask"}

\* The request has its answer, or its task has no ping to end it.
Settled(r) ==
  \/ reply[r] # NoReply
  \/ \E a \in live : task[a].req = r /\ task[a].total = 0 /\ task[a].error = 0

\* A pipe of either thread may be full, and a write to it then waits: unless
\* the HTTP thread is caught in one of the two cycles, the process comes to
\* rest only when every request that names a server has its answer
\* (HttpServer::notify, TaskWorker::notify).
RestsSettledOrCaught == StandsStill => WaitCycle \/ \A r \in Req : Settled(r)

\* A task that is queued for the HTTP thread is the HTTP thread's: the worker
\* writes nothing to it any more, neither to the task nor to its pings.
HandedBackUntouched ==
  [][\A a \in Members(responseQueue) \cap Members(responseQueue') :
       task'[a] = task[a]]_vars

\* The tasks that have a ping waiting for a reply.
Working == {a \in live : \E i \in Idx : timers[a][i] > 0}

\* Task.cpp, the message of error 1005: "too many tasks working, drop this
\* task".  A task is dropped only while Capacity tasks have pings waiting.
DropsOnlyWhileWorking ==
  [][\A a \in live : task'[a].error = BusyCode /\ task[a].error # BusyCode
       => Cardinality(Working) >= Capacity]_vars

\* Every request is answered in the end, unless it names no server at all:
\* doTask then starts no ping, and only the end of a ping completes a task.
EventuallyAnswered ==
  \A r \in Req :
    (\E a \in live : task[a].req = r /\ (task[a].total > 0 \/ task[a].error # 0))
      ~> reply[r] # NoReply

-----------------------------------------------------------------------------
(***************************************************************************)
(* The inductive invariants behind the safety properties, when doTask's    *)
(* memory is not reused under it.  CoreInv is broken by nothing but a      *)
(* reply that is read past the end of pingArray; the rest of IndInv needs  *)
(* timestamps that are fresh when they are given; FitInv is what keeps     *)
(* replies within pingArray without that, if all tasks are of one size.    *)
(* ServiceInv is what the clients see of a task.                           *)
(***************************************************************************)
\* A task the worker has not taken yet is as its constructor left it.
QueuedFresh ==
  \A a \in Members(taskQueue) :
    task[a].done = 0 /\ \A i \in Idx : task[a].status[i] = Uninited

\* doTask starts the pings of its task in order, and those of every other task
\* in the worker's hands have been started.
StartedInOrder ==
  \A a \in InWorker, i \in Idx : i < task[a].total =>
    (task[a].status[i] = Uninited <=> InTask /\ a = cur /\ i >= next)

\* doTask has nothing left to start when its task is no longer the worker's.
DoTaskStops ==
  /\ wpc = "doTask" => cur \in InWorker \/ next >= task[cur].total
  /\ wpc = "notifyInTask" => next >= task[cur].total

CoreInv ==
  /\ OneOwner /\ DoneCountExact /\ SlotsExact /\ TimersOwned /\ DoingMapLive
  /\ QueuedFresh /\ StartedInOrder /\ DoTaskStops

\* onReceive takes the end of a pingArray for a ping.
ReadsPastEnd == \E p \in net, a \in Addr : ReceivePastEnd(p, a)

\* A clock that stands still or is set back gives two tasks one timestamp.
\* Replies are then credited to the wrong task, and completing a task may miss
\* or take the other's entry in doingMap.  Even so, and with tasks of different
\* sizes, no step but a reply whose index is just past the end of the pingArray
\* it is credited to makes a task be handed back twice, a ping be counted
\* twice, a slot be lost, a timer be left behind or doingMap lead to a task that
\* is gone (TaskWorker::onReceive, onComplete).
OnlyPastEndBreaks == [][CoreInv => CoreInv' \/ ReadsPastEnd]_vars

\* The timestamps that lead to a task: those of the tasks in the worker's hands
\* and of the replies that may still come.
StampsInUse ==
  {task[a].stamp : a \in InWorker} \cup {p.stamp : p \in {q \in net : Accepts(q)}}

\* A task that the worker takes is given a timestamp that is not in use.
StampsFresh == \A a \in InWorker' \ InWorker : task'[a].stamp \notin StampsInUse

FreshStamps == [][StampsFresh]_vars

\* Nothing carries a timestamp that is still to come.
StampsPast ==
  /\ \A a \in InWorker : task[a].stamp <= clock
  /\ \A p \in net : Accepts(p) => p.stamp <= clock

\* A reply to one of our pings names a ping of the task it leads to.
RepliesKnown ==
  \A p \in net : Accepts(p) /\ doingMap[p.stamp] # NoTask =>
    /\ p.req = task[doingMap[p.stamp]].req
    /\ p.idx < task[doingMap[p.stamp]].total

ClockInv == DoingMapFinds /\ StampsPast /\ RepliesKnown

IndInv == CoreInv /\ ClockInv

EqualSizes == \A m, n \in Sizes : m = n

\* The tasks that wait for the worker or are in its hands.
Pending == live \ Members(responseQueue)

\* They are as long as a request they may have come from.
SizesKept == \A a \in Pending : task[a].total \in Sizes

\* Every reply names a ping that a task of any size has.
FitInv == SizesKept /\ \A p \in net, n \in Sizes : Accepts(p) => p.idx < n

\* A task goes back with an error or with all its pings ended; until then it
\* has neither, unless it has no pings at all.
Outcomes ==
  /\ \A a \in Pending :
       task[a].error = 0 /\ (task[a].total > 0 => ~IsComplete(task[a]))
  /\ \A a \in Members(responseQueue) :
       task[a].error = 0 => IsComplete(task[a])

\* Each request that has arrived and has no answer is the one task's.
OneTaskEach ==
  /\ \A a, b \in live : task[a].req = task[b].req => a = b
  /\ \A a \in live : task[a].req \in arrived /\ reply[task[a].req] = NoReply
  /\ \A r \in arrived : reply[r] = NoReply => \E a \in live : task[a].req = r
  /\ \A r \in Req \ arrived : reply[r] = NoReply

ServiceInv == Outcomes /\ OneTaskEach

-----------------------------------------------------------------------------
(***************************************************************************)
(* XPing implements PingService.  A request that has arrived is the task   *)
(* that doingRequest maps to it, until it is its answer.                   *)
(***************************************************************************)
Verdict(s) == CASE s \in Open -> "waiting"
                [] s = Success -> "alive"
                [] OTHER -> "lost"

TaskOf(r) == CHOOSE a \in live : doingRequest[a] = r

\* What the clients may know of a task.
Seen(t) ==
  [phase |-> "open", size |-> t.total, fault |-> t.error,
   verdict |-> [i \in Idx |-> Verdict(t.status[i])]]

Life ==
  [r \in Req |->
     CASE reply[r] # NoReply -> [phase |-> "closed", answer |-> reply[r]]
       [] r \notin arrived   -> [phase |-> "new"]
       [] OTHER              -> Seen(task[TaskOf(r)])]

Service == INSTANCE PingService WITH request <- Life

Implements == Service!Spec
=============================================================================
