----------------------------- MODULE XPingProofs -----------------------------
(***************************************************************************)
(* Theorems about XPing, for every set of requests and addresses, every    *)
(* capacity and every number of servers.                                   *)
(***************************************************************************)
EXTENDS XPing, FiniteSetTheorems, TLAPS

(***************************************************************************)
(* Queues.                                                                 *)
(***************************************************************************)
\* Pushing adds the pushed address to the members of a queue.
LEMMA MembersOfAppend ==
  ASSUME NEW q \in Seq(Addr), NEW a \in Addr
  PROVE  Members(Append(q, a)) = Members(q) \cup {a}
  <1>1. /\ Append(q, a) \in Seq(Addr)
        /\ Len(Append(q, a)) = Len(q) + 1
        /\ Len(q) \in Nat
        /\ Append(q, a)[Len(q) + 1] = a
        /\ \A k \in 1..Len(q) : Append(q, a)[k] = q[k]
    OBVIOUS
  <1>2. 1..(Len(q) + 1) = (1..Len(q)) \cup {Len(q) + 1}
    BY <1>1
  <1> QED BY <1>1, <1>2 DEF Members

\* Popping removes the head, which is there once if the queue is distinct.
LEMMA MembersOfTail ==
  ASSUME NEW q \in Seq(Addr), q # <<>>
  PROVE  /\ Head(q) \in Members(q)
         /\ Tail(q) \in Seq(Addr)
         /\ Members(q) = Members(Tail(q)) \cup {Head(q)}
         /\ Distinct(q) => Distinct(Tail(q)) /\ Head(q) \notin Members(Tail(q))
  <1>1. /\ Tail(q) \in Seq(Addr)
        /\ Len(q) \in Nat \ {0}
        /\ Len(Tail(q)) = Len(q) - 1
        /\ Head(q) = q[1]
        /\ \A k \in 1..(Len(q) - 1) : Tail(q)[k] = q[k + 1]
    OBVIOUS
  <1>2. Head(q) \in Members(q)
    BY <1>1 DEF Members
  <1>3. ASSUME NEW x \in Members(q), x # Head(q)
        PROVE  x \in Members(Tail(q))
    <2>1. PICK k \in 1..Len(q) : x = q[k]
      BY DEF Members
    <2>2. k - 1 \in 1..Len(Tail(q)) /\ Tail(q)[k - 1] = x
      BY <1>1, <1>3, <2>1
    <2> QED BY <2>2 DEF Members
  <1>4. ASSUME NEW x \in Members(Tail(q))
        PROVE  x \in Members(q)
    <2>1. PICK k \in 1..Len(Tail(q)) : x = Tail(q)[k]
      BY DEF Members
    <2>2. k + 1 \in 1..Len(q) /\ q[k + 1] = x
      BY <1>1, <2>1
    <2> QED BY <2>2 DEF Members
  <1>5. ASSUME Distinct(q)
        PROVE  Distinct(Tail(q)) /\ Head(q) \notin Members(Tail(q))
    <2>1. ASSUME NEW j \in 1..Len(Tail(q)), NEW k \in 1..Len(Tail(q)),
                 Tail(q)[j] = Tail(q)[k]
          PROVE  j = k
      <3>1. /\ j + 1 \in 1..Len(q) /\ k + 1 \in 1..Len(q)
            /\ q[j + 1] = q[k + 1]
        BY <1>1, <2>1
      <3> QED BY <1>5, <3>1 DEF Distinct
    <2>2. ASSUME NEW k \in 1..Len(Tail(q)), Tail(q)[k] = Head(q)
          PROVE  FALSE
      <3>1. k + 1 \in 1..Len(q) /\ 1 \in 1..Len(q) /\ q[k + 1] = q[1]
        BY <1>1, <2>2
      <3>2. k + 1 = 1
        BY <1>5, <3>1 DEF Distinct
      <3> QED BY <3>2
    <2> QED BY <2>1, <2>2 DEF Distinct, Members
  <1> QED BY <1>1, <1>2, <1>3, <1>4, <1>5

\* Pushing an address that is not there keeps a queue distinct.
LEMMA DistinctAppend ==
  ASSUME NEW q \in Seq(Addr), NEW a \in Addr, Distinct(q), a \notin Members(q)
  PROVE  Distinct(Append(q, a))
  <1>1. /\ Len(Append(q, a)) = Len(q) + 1
        /\ Len(q) \in Nat
        /\ Append(q, a)[Len(q) + 1] = a
        /\ \A k \in 1..Len(q) : Append(q, a)[k] = q[k]
    OBVIOUS
  <1>2. ASSUME NEW j \in 1..(Len(q) + 1), NEW k \in 1..(Len(q) + 1),
               Append(q, a)[j] = Append(q, a)[k]
        PROVE  j = k
    <2>1. CASE j \in 1..Len(q) /\ k \in 1..Len(q)
      BY <1>1, <1>2, <2>1 DEF Distinct
    <2>2. CASE j \in 1..Len(q) /\ k = Len(q) + 1
      BY <1>1, <1>2, <2>2 DEF Members
    <2>3. CASE j = Len(q) + 1 /\ k \in 1..Len(q)
      BY <1>1, <1>2, <2>3 DEF Members
    <2>4. CASE j = Len(q) + 1 /\ k = Len(q) + 1
      BY <2>4
    <2> QED BY <1>1, <2>1, <2>2, <2>3, <2>4
  <1> QED BY <1>1, <1>2 DEF Distinct

(***************************************************************************)
(* Type correctness.                                                       *)
(***************************************************************************)
\* What the constructors and the completion handlers leave is a task.
LEMMA TaskTypes ==
  /\ \A n \in 0..MaxServers, c \in ErrorCode \cup {0}, r \in Req \cup {NoReq} :
       NewTask(n, c, r) \in TaskRecord
  /\ \A t \in TaskRecord, i \in Idx, s \in Status :
       CountDone(t, i, s) \in TaskRecord
  /\ \A t \in TaskRecord : /\ [t EXCEPT !.done = @ + 1] \in TaskRecord
                          /\ [t EXCEPT !.error = BusyCode] \in TaskRecord
  /\ \A t \in TaskRecord : Response(t) \in Reply
  <1>1. ASSUME NEW n \in 0..MaxServers, NEW c \in ErrorCode \cup {0},
               NEW r \in Req \cup {NoReq}
        PROVE  NewTask(n, c, r) \in TaskRecord
    BY TaskAssumption DEF NewTask, TaskRecord, Stamp, Status
  <1>2. ASSUME NEW t \in TaskRecord, NEW i \in Idx, NEW s \in Status
        PROVE  CountDone(t, i, s) \in TaskRecord
    <2> DEFINE u == [t EXCEPT !.status[i] = s]
    <2>1. u \in TaskRecord
      BY DEF TaskRecord
    <2>2. CountDone(t, i, s) = [u EXCEPT !.done = @ + 1]
      BY DEF TaskRecord, CountDone
    <2> HIDE DEF u
    <2> QED BY <2>1, <2>2 DEF TaskRecord
  <1>3. ASSUME NEW t \in TaskRecord
        PROVE  Response(t) \in Reply
    <2>1. Alive(t) \subseteq Idx
      BY TaskAssumption DEF Alive, Idx, TaskRecord
    <2>2. t.total \in 0..MaxServers /\ t.error \in ErrorCode \cup {0}
      BY DEF TaskRecord
    <2>3. CASE t.error \in 1..999
      <3>0. t.error \in ErrorCode /\ t.error < 1000
        BY <2>2, <2>3
      <3>1. t.error \in {405, 415} /\ t.error \in ErrorCode
        BY <3>0 DEF ErrorCode, BusyCode
      <3>2. /\ Response(t) = [http |-> t.error, error |-> 0, total |-> 0,
                             alive |-> {}]
            /\ 0 \in 0..MaxServers /\ {} \in SUBSET Idx
            /\ t.error \in {200, 405, 415} /\ 0 \in ErrorCode \cup {0}
        BY <2>3, <3>1, TaskAssumption DEF Response
      <3> QED BY <3>2 DEF Reply
    <2>4. CASE t.error \notin 1..999 /\ t.error # 0
      BY <2>2, <2>4, TaskAssumption DEF Response, Reply
    <2>5. CASE t.error = 0
      BY <2>1, <2>2, <2>5 DEF Response, Reply
    <2> QED BY <2>3, <2>4, <2>5
  <1>4. ASSUME NEW t \in TaskRecord
        PROVE  /\ [t EXCEPT !.done = @ + 1] \in TaskRecord
               /\ [t EXCEPT !.error = BusyCode] \in TaskRecord
    BY DEF TaskRecord, ErrorCode
  <1> QED BY <1>1, <1>2, <1>3, <1>4

\* The initial states are well typed.
LEMMA InitTypeOK == Init => TypeOK
  <1> SUFFICES ASSUME Init PROVE TypeOK
    OBVIOUS
  <1> USE DEF Init, SharedInit, WorkerInit, HttpInit
  <1>1. NewTask(0, 0, NoReq) \in TaskRecord
    <2>1. 0 \in 0..MaxServers /\ 0 \in ErrorCode \cup {0}
      BY TaskAssumption
    <2> QED BY <2>1, TaskTypes
  <1>2. SharedTypeOK
    BY <1>1, SharedAssumption DEF SharedTypeOK
  <1>3. WorkerTypeOK
    BY WorkerAssumption, TaskAssumption
    DEF WorkerTypeOK, Stamp, WorkerPc
  <1>4. HttpTypeOK
    BY DEF HttpTypeOK, HttpPc
  <1> QED BY <1>2, <1>3, <1>4 DEF TypeOK

\* Completing a task preserves the types of what it changes.
LEMMA OnCompleteTypeOK ==
  ASSUME TypeOK, NEW a \in Addr, NEW ret, OnComplete(a, ret)
  PROVE  /\ doingCount' \in Int
         /\ doingMap' \in [Stamp -> Addr \cup {NoTask}]
         /\ responseQueue' \in Seq(Addr)
         /\ wpc' = ret
  <1>1. doingMap' \in [Stamp -> Addr \cup {NoTask}]
    BY DEF OnComplete, TypeOK, WorkerTypeOK
  <1>2. responseQueue' \in Seq(Addr)
    BY DEF OnComplete, TypeOK, SharedTypeOK
  <1> QED BY <1>1, <1>2 DEF OnComplete, TypeOK, WorkerTypeOK

\* Ending a ping preserves the types of what it changes.
LEMMA EndPingTypeOK ==
  ASSUME TypeOK, NEW a \in Addr, NEW i \in Idx, NEW s \in Status,
         NEW ret \in WorkerPc, EndPing(a, i, s, ret)
  PROVE  /\ task' \in [Addr -> TaskRecord]
         /\ doingCount' \in Int
         /\ doingMap' \in [Stamp -> Addr \cup {NoTask}]
         /\ responseQueue' \in Seq(Addr)
         /\ wpc' \in {wpc, ret}
  <1>1. task' \in [Addr -> TaskRecord]
    BY TaskTypes DEF EndPing, TypeOK, SharedTypeOK
  <1>2. CASE OnComplete(a, ret)
    BY <1>1, <1>2, OnCompleteTypeOK
  <1>3. CASE UNCHANGED <<doingCount, doingMap, responseQueue, wpc>>
    BY <1>1, <1>3 DEF TypeOK, WorkerTypeOK, SharedTypeOK
  <1> QED BY <1>2, <1>3 DEF EndPing

\* Every step of either thread preserves the types.
LEMMA StepTypeOK == TypeOK /\ [Next]_vars => TypeOK'
  <1> SUFFICES ASSUME TypeOK, [Next]_vars PROVE TypeOK'
    OBVIOUS
  <1> USE DEF TypeOK, SharedTypeOK, WorkerTypeOK, HttpTypeOK, heapVars,
              todoVars, replyVars, workerData, httpVars, workerVars
  <1>1. CASE NotifyEvent /\ UNCHANGED httpVars
    <2>1. CASE taskQueue = <<>>
      BY <1>1, <2>1, SharedAssumption DEF NotifyEvent
    <2>2. CASE taskQueue # <<>>
      <3>1. /\ Head(taskQueue) \in Addr /\ Tail(taskQueue) \in Seq(Addr)
            /\ taskQueue' = Tail(taskQueue) /\ taskPipe' \in 0..PipeCap
        BY <1>1, <2>2, SharedAssumption DEF NotifyEvent
      <3>2. CASE DropBusy(Head(taskQueue))
        <4>1. task' \in [Addr -> TaskRecord]
          BY <3>1, <3>2, TaskTypes DEF DropBusy
        <4>2. responseQueue' \in Seq(Addr) /\ wpc' = "notify"
          BY <3>1, <3>2 DEF DropBusy
        <4> QED BY <1>1, <3>1, <3>2, <4>1, <4>2
                DEF NotifyEvent, DropBusy, WorkerPc
      <3>3. CASE Accept(Head(taskQueue))
        <4>1. PICK now \in CurrentTime :
                /\ clock' = IF now > clock THEN now ELSE clock
                /\ task' = [task EXCEPT ![Head(taskQueue)].stamp = now]
                /\ doingMap' = [doingMap EXCEPT ![now] =
                                  IF @ = NoTask THEN Head(taskQueue) ELSE @]
          BY <3>3 DEF Accept
        <4>2. now \in Stamp
          BY DEF CurrentTime
        <4>3. task' \in [Addr -> TaskRecord]
          <5>1. \A t \in TaskRecord : [t EXCEPT !.stamp = now] \in TaskRecord
            BY <4>2 DEF TaskRecord
          <5> QED BY <3>1, <4>1, <5>1
        <4>4. doingMap' \in [Stamp -> Addr \cup {NoTask}] /\ clock' \in Stamp
          BY <4>1, <4>2, <3>1
        <4>5. /\ doingCount' \in Int /\ wpc' = "doTask" /\ cur' \in Addr
              /\ next' = 0 /\ 0 \in 0..MaxServers
          BY <3>1, <3>3, TaskAssumption DEF Accept
        <4> QED BY <1>1, <3>1, <3>3, <4>3, <4>4, <4>5
                DEF NotifyEvent, Accept, WorkerPc
      <3> QED BY <1>1, <2>2, <3>2, <3>3 DEF NotifyEvent
    <2> QED BY <2>1, <2>2
  <1>2. CASE PingSent /\ UNCHANGED httpVars
    <2>1. /\ cur \in Addr /\ next \in Idx /\ next + 1 \in 0..MaxServers
          /\ task[cur] \in TaskRecord
      BY <1>2, TaskAssumption DEF PingSent, InDoTask, TaskRecord, Idx
    <2>2. task' \in [Addr -> TaskRecord]
      BY <1>2, <2>1 DEF PingSent, TaskRecord, Status
    <2>3. timers' \in [Addr -> [Idx -> Int]]
      BY <1>2, <2>1 DEF PingSent, SetTimer
    <2>4. EchoReply(cur, next) \in Packet
      BY <2>1, WorkerAssumption DEF EchoReply, Packet, TaskRecord
    <2> QED BY <1>2, <2>1, <2>2, <2>3, <2>4 DEF PingSent
  <1>3. CASE PingNotSent /\ UNCHANGED httpVars
    <2>1. cur \in Addr /\ next \in Idx /\ next + 1 \in 0..MaxServers
      BY <1>3, TaskAssumption DEF PingNotSent, InDoTask, TaskRecord, Idx
    <2>2. CASE EndPing(cur, next, SendError, "notifyInTask")
      BY <1>3, <2>1, <2>2, EndPingTypeOK DEF PingNotSent, WorkerPc, Status
    <2>3. CASE UNCHANGED <<task, doingCount, doingMap, responseQueue, wpc>>
      BY <1>3, <2>1, <2>3 DEF PingNotSent
    <2> QED BY <1>3, <2>2, <2>3 DEF PingNotSent
  <1>4. CASE DoTaskReturns /\ UNCHANGED httpVars
    BY <1>4 DEF DoTaskReturns, WorkerPc
  <1>5. CASE NotifyMaster /\ UNCHANGED httpVars
    BY <1>5, SharedAssumption DEF NotifyMaster, WorkerPc
  <1>6. ASSUME NEW p \in net, NEW a \in Addr, Receive(p, a), UNCHANGED httpVars
        PROVE  TypeOK'
    <2>1. p.idx \in Idx
      BY DEF Packet
    <2>2. timers' \in [Addr -> [Idx -> Int]]
      BY <1>6, <2>1 DEF Receive, DelTimer
    <2> QED BY <1>6, <2>1, <2>2, EndPingTypeOK
            DEF Receive, Finds, WorkerPc, Status
  <1>7. ASSUME NEW p \in net, NEW a \in Addr, ReceivePastEnd(p, a),
               UNCHANGED httpVars
        PROVE  TypeOK'
    <2>1. task' \in [Addr -> TaskRecord]
      BY <1>7, TaskTypes DEF ReceivePastEnd
    <2>2. CASE OnComplete(a, "notify")
      BY <1>7, <2>1, <2>2, OnCompleteTypeOK DEF ReceivePastEnd, WorkerPc
    <2>3. CASE UNCHANGED <<doingCount, doingMap, responseQueue, wpc>>
      BY <1>7, <2>1, <2>3 DEF ReceivePastEnd
    <2> QED BY <1>7, <2>2, <2>3 DEF ReceivePastEnd
  <1>8. ASSUME NEW a \in Addr, NEW i \in Idx, HandleTimeout(a, i),
               UNCHANGED httpVars
        PROVE  TypeOK'
    <2>1. timers' \in [Addr -> [Idx -> Int]]
      BY <1>8 DEF HandleTimeout
    <2>2. CASE EndPing(a, i, Timedout, "notify")
      BY <1>8, <2>1, <2>2, EndPingTypeOK DEF HandleTimeout, WorkerPc, Status
    <2>3. CASE UNCHANGED <<task, doingCount, doingMap, responseQueue, wpc>>
      BY <1>8, <2>1, <2>3 DEF HandleTimeout
    <2> QED BY <1>8, <2>2, <2>3 DEF HandleTimeout
  <1>9. ASSUME NEW r \in Req, NEW a \in Addr, NEW n \in 0..MaxServers,
               NEW code \in ErrorCode \cup {0}, HandlePingReq(r, a, n, code),
               UNCHANGED workerVars
        PROVE  TypeOK'
    <2>1. task' \in [Addr -> TaskRecord]
      BY <1>9, TaskTypes DEF HandlePingReq
    <2>2. /\ live' \subseteq Addr /\ taskQueue' \in Seq(Addr)
          /\ responseQueue' \in Seq(Addr)
          /\ doingRequest' \in [Addr -> Req \cup {NoReq}] /\ hpc' \in HttpPc
      <3>0. /\ Append(responseQueue, a) \in Seq(Addr)
            /\ Append(taskQueue, a) \in Seq(Addr)
        OBVIOUS
      <3>1. CASE doingRequest[a] # NoReq
        BY <1>9, <3>1 DEF HandlePingReq
      <3>2. CASE doingRequest[a] = NoReq /\ code # 0
        BY <1>9, <3>0, <3>2 DEF HandlePingReq, HttpPc
      <3>3. CASE doingRequest[a] = NoReq /\ code = 0
        BY <1>9, <3>0, <3>3 DEF HandlePingReq, HttpPc
      <3> QED BY <3>1, <3>2, <3>3
    <2> QED BY <1>9, <2>1, <2>2 DEF HandlePingReq
  <1>10. CASE NotifyWorker /\ UNCHANGED workerVars
    BY <1>10, SharedAssumption DEF NotifyWorker, HttpPc
  <1>11. CASE NotifySelf /\ UNCHANGED workerVars
    BY <1>11, SharedAssumption DEF NotifySelf, HttpPc
  <1>12. CASE TryRespEvent /\ UNCHANGED workerVars
    <2>1. CASE responseQueue = <<>>
      BY <1>12, <2>1, SharedAssumption DEF TryRespEvent
    <2>2. CASE responseQueue # <<>>
      <3>1. Head(responseQueue) \in Addr /\ Tail(responseQueue) \in Seq(Addr)
        BY <2>2
      <3>2. Response(task[Head(responseQueue)]) \in Reply
        BY <3>1, TaskTypes
      <3>3. /\ live' \subseteq Addr /\ responseQueue' \in Seq(Addr)
            /\ doingRequest' \in [Addr -> Req \cup {NoReq}]
        BY <1>12, <2>2, <3>1 DEF TryRespEvent, Forget
      <3>4. reply' \in [Req -> Reply \cup {NoReply}]
        <4>1. CASE doingRequest[Head(responseQueue)] = NoReq
          BY <1>12, <2>2, <4>1 DEF TryRespEvent
        <4>2. CASE doingRequest[Head(responseQueue)] # NoReq
          BY <1>12, <2>2, <3>1, <3>2, <4>2 DEF TryRespEvent
        <4> QED BY <4>1, <4>2
      <3>5. respPipe' \in 0..PipeCap
        BY <1>12, SharedAssumption DEF TryRespEvent
      <3> QED BY <1>12, <3>3, <3>4, <3>5 DEF TryRespEvent
    <2> QED BY <2>1, <2>2
  <1>13. CASE Quiescent
    BY <1>13 DEF Quiescent, vars
  <1>14. CASE UNCHANGED vars
    BY <1>14 DEF vars
  <1>15. CASE HttpNext(Allocatable) /\ UNCHANGED workerVars
    <2>1. /\ \A n \in Sizes : n \in 0..MaxServers
          /\ \A c \in BadCodes : c \in ErrorCode \cup {0}
          /\ 0 \in 0..MaxServers /\ 0 \in ErrorCode \cup {0}
          /\ Allocatable \subseteq Addr
      BY HttpAssumption, TaskAssumption DEF Allocatable
    <2> QED BY <1>9, <1>10, <1>11, <1>12, <1>15, <2>1 DEF HttpNext
  <1>16. CASE WorkerNext /\ UNCHANGED httpVars
    BY <1>1, <1>2, <1>3, <1>4, <1>5, <1>6, <1>7, <1>8, <1>16 DEF WorkerNext
  <1> HIDE DEF TypeOK
  <1> QED BY <1>13, <1>14, <1>15, <1>16 DEF Next

\* Type correctness: each thread keeps its data structures well formed.
THEOREM TypeCorrect == Spec => []TypeOK
  BY InitTypeOK, StepTypeOK, PTL DEF Spec

(***************************************************************************)
(* A queue and its pipe agree, whatever the clock and the allocator do.    *)
(***************************************************************************)
\* Ending a ping pushes a response exactly if it leaves a byte to be written.
LEMMA EndPingBalance ==
  ASSUME TypeOK, NEW a \in Addr, NEW i, NEW s, NEW ret,
         EndPing(a, i, s, ret)
  PROVE  \/ Len(responseQueue') = Len(responseQueue) + 1 /\ wpc' = ret
         \/ UNCHANGED <<responseQueue, wpc>>
  BY DEF EndPing, OnComplete, TypeOK, SharedTypeOK

\* Every step of either thread preserves the balance.
LEMMA StepBalance ==
  ASSUME TypeOK, NotifyBalance, [Next]_vars
  PROVE  NotifyBalance'
  <1> USE DEF NotifyBalance
  <1>0. /\ Len(taskQueue) \in Nat /\ Len(responseQueue) \in Nat
        /\ taskPipe \in Nat /\ respPipe \in Nat
    BY SharedAssumption DEF TypeOK, SharedTypeOK
  <1>1. CASE NotifyEvent /\ UNCHANGED httpVars
    <2>1. CASE taskQueue = <<>>
      BY <1>0, <1>1, <2>1 DEF NotifyEvent
    <2>2. CASE taskQueue # <<>>
      <3>1. Head(taskQueue) \in Addr /\ Len(Tail(taskQueue)) = Len(taskQueue) - 1
        BY <2>2 DEF TypeOK, SharedTypeOK
      <3>2. /\ taskPipe' = taskPipe - 1 /\ taskQueue' = Tail(taskQueue)
            /\ wpc = "loop" /\ UNCHANGED <<respPipe, hpc>>
        BY <1>1, <2>2 DEF NotifyEvent, httpVars
      <3>3. CASE DropBusy(Head(taskQueue))
        <4>1. Len(responseQueue') = Len(responseQueue) + 1 /\ wpc' = "notify"
          BY <3>1, <3>3 DEF DropBusy, TypeOK, SharedTypeOK
        <4> QED BY <1>0, <3>1, <3>2, <4>1
      <3>4. CASE Accept(Head(taskQueue))
        <4>1. responseQueue' = responseQueue /\ wpc' = "doTask"
          BY <3>4 DEF Accept
        <4> QED BY <1>0, <3>1, <3>2, <4>1
      <3> QED BY <1>1, <2>2, <3>3, <3>4 DEF NotifyEvent
    <2> QED BY <2>1, <2>2
  <1>2. CASE PingSent /\ UNCHANGED httpVars
    BY <1>2 DEF PingSent, todoVars, replyVars, httpVars
  <1>3. CASE PingNotSent /\ UNCHANGED httpVars
    <2>1. /\ wpc = "doTask" /\ cur \in Addr
          /\ UNCHANGED <<taskQueue, taskPipe, respPipe, hpc>>
      BY <1>3 DEF PingNotSent, InDoTask, todoVars, httpVars, TypeOK,
                  WorkerTypeOK
    <2>2. CASE EndPing(cur, next, SendError, "notifyInTask")
      BY <1>0, <2>1, <2>2, EndPingBalance
    <2>3. CASE UNCHANGED <<task, doingCount, doingMap, responseQueue, wpc>>
      BY <2>1, <2>3
    <2> QED BY <1>3, <2>2, <2>3 DEF PingNotSent
  <1>4. CASE DoTaskReturns /\ UNCHANGED httpVars
    BY <1>4 DEF DoTaskReturns, todoVars, replyVars, httpVars
  <1>5. CASE NotifyMaster /\ UNCHANGED httpVars
    BY <1>0, <1>5 DEF NotifyMaster, todoVars, httpVars
  <1>6. ASSUME NEW p \in net, NEW a \in Addr, Receive(p, a), UNCHANGED httpVars
        PROVE  NotifyBalance'
    <2>1. /\ wpc = "loop" /\ UNCHANGED <<taskQueue, taskPipe, respPipe, hpc>>
          /\ EndPing(a, p.idx, Success, "notify")
      BY <1>6 DEF Receive, Finds, todoVars, httpVars
    <2> QED BY <1>0, <2>1, EndPingBalance
  <1>7. ASSUME NEW p \in net, NEW a \in Addr, ReceivePastEnd(p, a),
               UNCHANGED httpVars
        PROVE  NotifyBalance'
    <2>1. /\ wpc = "loop" /\ UNCHANGED <<taskQueue, taskPipe, respPipe, hpc>>
          /\ \/ OnComplete(a, "notify")
             \/ UNCHANGED <<responseQueue, wpc>>
      BY <1>7 DEF ReceivePastEnd, Finds, todoVars, httpVars
    <2>2. CASE OnComplete(a, "notify")
      <3>1. Len(responseQueue') = Len(responseQueue) + 1 /\ wpc' = "notify"
        BY <2>2 DEF OnComplete, TypeOK, SharedTypeOK
      <3> QED BY <1>0, <2>1, <3>1
    <2> QED BY <2>1, <2>2
  <1>8. ASSUME NEW a \in Addr, NEW i \in Idx, HandleTimeout(a, i),
               UNCHANGED httpVars
        PROVE  NotifyBalance'
    <2>1. /\ wpc = "loop" /\ UNCHANGED <<taskQueue, taskPipe, respPipe, hpc>>
          /\ \/ EndPing(a, i, Timedout, "notify")
             \/ UNCHANGED <<responseQueue, wpc>>
      BY <1>8 DEF HandleTimeout, todoVars, httpVars
    <2> QED BY <1>0, <2>1, EndPingBalance
  <1>9. ASSUME NEW r \in Req, NEW a \in Addr, NEW n, NEW code,
               HandlePingReq(r, a, n, code), UNCHANGED workerVars
        PROVE  NotifyBalance'
    <2>1. /\ hpc = "loop" /\ UNCHANGED <<taskPipe, respPipe, wpc>>
          /\ \/ UNCHANGED <<taskQueue, responseQueue, hpc>>
             \/ /\ responseQueue' = Append(responseQueue, a)
                /\ hpc' = "notifySelf" /\ UNCHANGED taskQueue
             \/ /\ taskQueue' = Append(taskQueue, a)
                /\ hpc' = "notifyWorker" /\ UNCHANGED responseQueue
      BY <1>9 DEF HandlePingReq, workerVars
    <2>2. /\ Len(Append(taskQueue, a)) = Len(taskQueue) + 1
          /\ Len(Append(responseQueue, a)) = Len(responseQueue) + 1
      BY DEF TypeOK, SharedTypeOK
    <2> QED BY <1>0, <2>1, <2>2
  <1>10. CASE NotifyWorker /\ UNCHANGED workerVars
    BY <1>0, <1>10 DEF NotifyWorker, replyVars, workerVars
  <1>11. CASE NotifySelf /\ UNCHANGED workerVars
    BY <1>0, <1>11 DEF NotifySelf, todoVars, workerVars
  <1>12. CASE TryRespEvent /\ UNCHANGED workerVars
    <2>1. responseQueue # <<>>
      BY <1>0, <1>12 DEF TryRespEvent
    <2>2. /\ respPipe' = respPipe - 1 /\ responseQueue' = Tail(responseQueue)
          /\ UNCHANGED <<taskQueue, taskPipe, hpc, wpc>>
      BY <1>12, <2>1 DEF TryRespEvent, todoVars, workerVars
    <2>3. Len(Tail(responseQueue)) = Len(responseQueue) - 1
      BY <2>1 DEF TypeOK, SharedTypeOK
    <2> QED BY <1>0, <2>2, <2>3
  <1>13. CASE UNCHANGED vars
    BY <1>13 DEF vars, todoVars, replyVars, workerVars, httpVars
  <1>14. CASE HttpNext(Allocatable) /\ UNCHANGED workerVars
    BY <1>9, <1>10, <1>11, <1>12, <1>14 DEF HttpNext, Allocatable
  <1>15. CASE WorkerNext /\ UNCHANGED httpVars
    BY <1>1, <1>2, <1>3, <1>4, <1>5, <1>6, <1>7, <1>8, <1>15 DEF WorkerNext
  <1> QED BY <1>13, <1>14, <1>15 DEF Next, Quiescent

\* No wake-up is lost and none is spurious: at any time each queue holds as
\* many tasks as its pipe holds bytes, but for the byte about to be written.
THEOREM Balanced == Spec => []NotifyBalance
  <1>1. Init => NotifyBalance
    BY DEF Init, SharedInit, WorkerInit, HttpInit, NotifyBalance
  <1>2. TypeOK /\ NotifyBalance /\ [Next]_vars => NotifyBalance'
    BY StepBalance
  <1> QED BY <1>1, <1>2, TypeCorrect, PTL DEF Spec

(***************************************************************************)
(* doingRequest, whatever the clock and the allocator do.                  *)
(***************************************************************************)
\* u is t with another outcome.
SameJob(u, t) == u.req = t.req /\ u.total = t.total

\* Only the HTTP thread changes doingRequest and live, and a task stays for the
\* request and the number of servers it was created for.
LEMMA WorkerKeepsRequests ==
  ASSUME TypeOK, WorkerNext, UNCHANGED httpVars
  PROVE  /\ UNCHANGED <<live, doingRequest>>
         /\ \A a \in Addr : SameJob(task'[a], task[a])
  <1> USE DEF TypeOK, SharedTypeOK, SameJob
  <1>0. /\ \A t \in TaskRecord, i \in Idx, s \in Status :
             SameJob(CountDone(t, i, s), t)
        /\ \A t \in TaskRecord : /\ SameJob([t EXCEPT !.done = @ + 1], t)
                                /\ SameJob([t EXCEPT !.error = BusyCode], t)
        /\ \A t \in TaskRecord, s \in Stamp : SameJob([t EXCEPT !.stamp = s], t)
        /\ \A t \in TaskRecord, i \in Idx :
             SameJob([t EXCEPT !.status[i] = Doing], t)
    BY DEF TaskRecord, CountDone
  <1>1. UNCHANGED doingRequest
    BY DEF httpVars
  <1>e. ASSUME NEW a \in Addr, NEW i \in Idx, NEW s \in Status, NEW ret,
               EndPing(a, i, s, ret)
        PROVE  \A b \in Addr : SameJob(task'[b], task[b])
    BY <1>e, <1>0 DEF EndPing
  <1>2. CASE NotifyEvent
    <2>1. CASE taskQueue = <<>>
      BY <1>1, <1>2, <2>1 DEF NotifyEvent
    <2>2. CASE taskQueue # <<>> /\ DropBusy(Head(taskQueue))
      BY <1>0, <1>1, <1>2, <2>2 DEF NotifyEvent, DropBusy
    <2>3. CASE taskQueue # <<>> /\ Accept(Head(taskQueue))
      <3>1. PICK now \in Stamp :
              task' = [task EXCEPT ![Head(taskQueue)].stamp = now]
        BY <2>3 DEF Accept, CurrentTime
      <3> QED BY <1>0, <1>1, <1>2, <3>1 DEF NotifyEvent
    <2> QED BY <1>2, <2>1, <2>2, <2>3 DEF NotifyEvent
  <1>3. CASE PingSent
    <2>1. next \in Idx /\ cur \in Addr
      BY <1>3, TaskAssumption
      DEF PingSent, InDoTask, WorkerTypeOK, TaskRecord, Idx
    <2> QED BY <1>0, <1>1, <1>3, <2>1 DEF PingSent
  <1>4. CASE PingNotSent
    <2>1. next \in Idx /\ cur \in Addr
      BY <1>4, TaskAssumption
      DEF PingNotSent, InDoTask, WorkerTypeOK, TaskRecord, Idx
    <2> QED BY <1>1, <1>4, <1>e, <2>1 DEF PingNotSent, Status
  <1>5. CASE DoTaskReturns
    BY <1>1, <1>5 DEF DoTaskReturns, heapVars
  <1>6. CASE NotifyMaster
    BY <1>1, <1>6 DEF NotifyMaster, heapVars
  <1>7. ASSUME NEW p \in net, NEW a \in Addr, Receive(p, a)
        PROVE  UNCHANGED live /\ \A b \in Addr : SameJob(task'[b], task[b])
    <2>1. p.idx \in Idx
      BY DEF WorkerTypeOK, Packet
    <2> QED BY <1>7, <1>e, <2>1 DEF Receive, Status
  <1>8. ASSUME NEW p \in net, NEW a \in Addr, ReceivePastEnd(p, a)
        PROVE  UNCHANGED live /\ \A b \in Addr : SameJob(task'[b], task[b])
    BY <1>0, <1>8 DEF ReceivePastEnd
  <1>9. ASSUME NEW a \in Addr, NEW i \in Idx, HandleTimeout(a, i)
        PROVE  UNCHANGED live /\ \A b \in Addr : SameJob(task'[b], task[b])
    BY <1>9, <1>e DEF HandleTimeout, Status
  <1> QED BY <1>1, <1>2, <1>3, <1>4, <1>5, <1>6, <1>7, <1>8, <1>9
          DEF WorkerNext

\* Every step of either thread keeps doingRequest exact.
LEMMA StepTracked ==
  ASSUME TypeOK, RequestTracked, [Next]_vars
  PROVE  RequestTracked'
  <1> USE DEF RequestTracked
  <1>1. CASE WorkerNext /\ UNCHANGED httpVars
    BY <1>1, WorkerKeepsRequests DEF SameJob
  <1>2. ASSUME NEW r \in Req, NEW a \in Addr, NEW n, NEW code,
               HandlePingReq(r, a, n, code)
        PROVE  RequestTracked'
    <2>1. doingRequest[a] = NoReq
      BY <1>2 DEF HandlePingReq
    <2>2. /\ live' = live \cup {a}
          /\ doingRequest' = [doingRequest EXCEPT ![a] = r]
          /\ task' = [task EXCEPT ![a] = NewTask(n, code, r)]
      BY <1>2, <2>1 DEF HandlePingReq
    <2>3. NewTask(n, code, r).req = r
      BY DEF NewTask
    <2> QED BY <2>2, <2>3 DEF TypeOK, SharedTypeOK, HttpTypeOK
  <1>3. CASE TryRespEvent
    <2>1. CASE responseQueue = <<>>
      BY <1>3, <2>1 DEF TryRespEvent
    <2>2. CASE responseQueue # <<>>
      BY <1>3, <2>2 DEF TryRespEvent, Forget, TypeOK, SharedTypeOK, HttpTypeOK
    <2> QED BY <2>1, <2>2
  <1>4. CASE HttpNext(Allocatable)
    BY <1>2, <1>3, <1>4
    DEF HttpNext, Allocatable, NotifyWorker, NotifySelf, heapVars
  <1>5. CASE UNCHANGED vars
    BY <1>5 DEF vars, heapVars, httpVars
  <1> QED BY <1>1, <1>4, <1>5 DEF Next, Quiescent

\* Both branches the source calls impossible are: handlePingReq never finds the
\* address of a new task in doingRequest, and no other task than the one
\* created for a request is ever answered for it.
THEOREM Tracked == Spec => []RequestTracked
  <1>1. Init => RequestTracked
    BY DEF Init, SharedInit, HttpInit, RequestTracked
  <1>2. TypeOK /\ RequestTracked /\ [Next]_vars => RequestTracked'
    BY StepTracked
  <1> QED BY <1>1, <1>2, TypeCorrect, PTL DEF Spec

-----------------------------------------------------------------------------
(***************************************************************************)
(* The safety theorems of XPing.  Two assumptions are needed.  The         *)
(* allocator does not return the address of a deleted task while doTask    *)
(* still reads it: the run "reuse" shows what happens if it does.  And     *)
(* either the wall clock never gives two tasks the same timestamp, or all  *)
(* requests name equally many servers: else a reply may index the pings of *)
(* another task past their end.                                            *)
(***************************************************************************)

(***************************************************************************)
(* The pings of one task.                                                  *)
(***************************************************************************)
\* The pings of a task that have ended are finitely many, at most all.
LEMMA EndedFinite ==
  ASSUME NEW t \in TaskRecord
  PROVE  /\ IsFiniteSet(Ended(t)) /\ Cardinality(Ended(t)) \in Nat
         /\ Ended(t) \subseteq 0..(t.total - 1)
         /\ IsFiniteSet(0..(t.total - 1))
         /\ Cardinality(0..(t.total - 1)) = t.total
         /\ t.total \in Nat
  <1>1. t.total \in Nat
    BY TaskAssumption DEF TaskRecord
  <1>2. /\ IsFiniteSet(0..(t.total - 1))
        /\ Cardinality(0..(t.total - 1)) = t.total
    <2>1. 0 \in Int /\ t.total - 1 \in Int
      BY <1>1
    <2>2. /\ IsFiniteSet(0..(t.total - 1))
          /\ Cardinality(0..(t.total - 1)) =
               IF 0 > t.total - 1 THEN 0 ELSE t.total - 1 - 0 + 1
      BY <2>1, FS_Interval
    <2> QED BY <1>1, <2>2
  <1>3. Ended(t) \in SUBSET (0..(t.total - 1))
    BY DEF Ended
  <1> QED BY <1>1, <1>2, <1>3, FS_Subset, FS_CardinalityType

\* Counting an open ping ends it, and ends no other.
LEMMA CountDoneExact ==
  ASSUME NEW t \in TaskRecord, NEW i \in Idx, NEW s \in Final, i < t.total,
         t.status[i] \in Open, t.done = Cardinality(Ended(t))
  PROVE  /\ CountDone(t, i, s).done = Cardinality(Ended(CountDone(t, i, s)))
         /\ CountDone(t, i, s).total = t.total
         /\ CountDone(t, i, s).stamp = t.stamp
         /\ CountDone(t, i, s).req = t.req
         /\ CountDone(t, i, s).status = [t.status EXCEPT ![i] = s]
  <1> DEFINE u == CountDone(t, i, s)
  <1>1. /\ u.done = t.done + 1 /\ u.total = t.total /\ u.stamp = t.stamp
        /\ u.req = t.req /\ u.status = [t.status EXCEPT ![i] = s]
    BY DEF CountDone, TaskRecord
  <1>2. i \in 0..(t.total - 1) /\ t.status \in [Idx -> Status]
        /\ 0..(t.total - 1) \subseteq Idx
    BY TaskAssumption DEF Idx, TaskRecord
  <1>3. Ended(u) = Ended(t) \cup {i}
    BY <1>1, <1>2 DEF Ended
  <1>4. i \notin Ended(t)
    BY DEF Ended, Final
  <1>5. Cardinality(Ended(u)) = Cardinality(Ended(t)) + 1
    <2>1. IsFiniteSet(Ended(t))
      BY EndedFinite
    <2>2. Cardinality(Ended(t) \cup {i}) = Cardinality(Ended(t)) + 1
      BY <1>4, <2>1, FS_AddElement
    <2> QED BY <1>3, <2>2
  <1> QED BY <1>1, <1>5

\* A complete task has no open ping.
LEMMA CompleteAllEnded ==
  ASSUME NEW t \in TaskRecord, t.done = Cardinality(Ended(t)), IsComplete(t),
         NEW i \in Idx, i < t.total
  PROVE  t.status[i] \in Final
  <1>1. Cardinality(Ended(t)) >= t.total
    BY DEF IsComplete
  <1>2. Ended(t) = 0..(t.total - 1)
    BY <1>1, EndedFinite, FS_Subset
  <1>3. i \in 0..(t.total - 1)
    BY EndedFinite DEF Idx
  <1> QED BY <1>2, <1>3 DEF Ended

(***************************************************************************)
(* The initial states.                                                     *)
(***************************************************************************)
\* In the initial states nothing is queued, taken, armed or in flight.
LEMMA InitIndInv == Init => IndInv
  <1> SUFFICES ASSUME Init PROVE IndInv
    OBVIOUS
  <1> USE DEF Init, SharedInit, WorkerInit
  <1>1. Members(taskQueue) = {} /\ Members(responseQueue) = {} /\ InWorker = {}
    BY DEF Members, InWorker
  <1>2. OneOwner
    BY <1>1 DEF OneOwner, Distinct
  <1>3. SlotsExact
    BY <1>1, FS_EmptySet, WorkerAssumption DEF SlotsExact
  <1>4. DoneCountExact
    BY DEF DoneCountExact
  <1>5. TimersOwned
    BY <1>1 DEF TimersOwned
  <1>6. DoingMapLive /\ DoingMapFinds /\ QueuedFresh /\ StartedInOrder
    BY <1>1 DEF DoingMapLive, DoingMapFinds, QueuedFresh, StartedInOrder
  <1>7. DoTaskStops
    BY DEF DoTaskStops
  <1>8. StampsPast /\ RepliesKnown
    BY <1>1, WorkerAssumption DEF StampsPast, RepliesKnown, Accepts
  <1> QED BY <1>2, <1>3, <1>4, <1>5, <1>6, <1>7, <1>8
          DEF IndInv, CoreInv, ClockInv

(***************************************************************************)
(* Steps that leave the tasks in the worker's hands alone.                 *)
(***************************************************************************)
InHand == SlotsExact /\ TimersOwned /\ DoingMapLive

InProgress == StartedInOrder /\ DoTaskStops

\* The worker's bookkeeping is about the tasks in its hands and nothing else.
LEMMA InHandFrame ==
  ASSUME TypeOK, CoreInv, InWorker' = InWorker,
         \A b \in InWorker : task'[b] = task[b],
         UNCHANGED <<doingMap, doingCount, timers, net, clock>>
  PROVE  InHand' /\ (ClockInv => ClockInv')
  <1>1. SlotsExact'
    BY DEF CoreInv, SlotsExact
  <1>2. TimersOwned'
    BY DEF CoreInv, TimersOwned
  <1>3. DoingMapLive'
    BY DEF CoreInv, DoingMapLive
  <1>4. ASSUME ClockInv PROVE DoingMapFinds' /\ StampsPast'
    BY <1>4 DEF ClockInv, DoingMapFinds, StampsPast, Accepts
  <1>5. ASSUME ClockInv PROVE RepliesKnown'
    <2>1. ASSUME NEW p \in net, Accepts(p), doingMap[p.stamp] # NoTask
          PROVE  /\ p.req = task'[doingMap[p.stamp]].req
                 /\ p.idx < task'[doingMap[p.stamp]].total
      <3>1. p.stamp \in Stamp
        BY DEF TypeOK, WorkerTypeOK, Packet
      <3>2. doingMap[p.stamp] \in InWorker
        BY <2>1, <3>1 DEF CoreInv, DoingMapLive
      <3> QED BY <1>5, <2>1, <3>2 DEF ClockInv, RepliesKnown
    <2> QED BY <2>1 DEF RepliesKnown, Accepts
  <1> QED BY <1>1, <1>2, <1>3, <1>4, <1>5 DEF InHand, ClockInv

\* So is what holds of the doTask under way.
LEMMA InProgressFrame ==
  ASSUME CoreInv, InWorker' = InWorker,
         \A b \in InWorker : task'[b] = task[b],
         InTask => task'[cur] = task[cur],
         UNCHANGED <<wpc, cur, next>>
  PROVE  InProgress'
  BY DEF CoreInv, InProgress, StartedInOrder, DoTaskStops, InTask

\* Nothing CoreInv speaks of changes.
LEMMA AllFrame ==
  ASSUME TypeOK, CoreInv, UNCHANGED <<heapVars, taskQueue, responseQueue, workerVars>>
  PROVE  CoreInv' /\ (ClockInv => ClockInv')
  <1>1. InWorker' = InWorker
    BY DEF InWorker, heapVars
  <1>2. InHand' /\ InProgress' /\ (ClockInv => ClockInv')
    BY <1>1, InHandFrame, InProgressFrame DEF heapVars, workerVars, workerData
  <1>3. OneOwner' /\ DoneCountExact' /\ QueuedFresh'
    BY DEF CoreInv, OneOwner, DoneCountExact, QueuedFresh, heapVars
  <1> QED BY <1>2, <1>3 DEF CoreInv, InHand, InProgress

(***************************************************************************)
(* The steps of the HTTP thread.                                           *)
(***************************************************************************)
\* A new request adds a fresh task to one of the queues.
LEMMA HandlePingReqStep ==
  ASSUME TypeOK, RequestTracked, CoreInv, ~Reuse, UNCHANGED workerVars,
         NEW r \in Req, NEW a \in Allocatable, NEW n \in 0..MaxServers,
         NEW code \in ErrorCode \cup {0}, HandlePingReq(r, a, n, code)
  PROVE  CoreInv' /\ (ClockInv => ClockInv') /\ InWorker' = InWorker
  <1>1. a \in Addr /\ a \notin live /\ doingRequest[a] = NoReq
    BY DEF HandlePingReq, RequestTracked, Allocatable
  <1>2. /\ live' = live \cup {a}
        /\ task' = [task EXCEPT ![a] = NewTask(n, code, r)]
        /\ \/ responseQueue' = Append(responseQueue, a) /\ UNCHANGED taskQueue
           \/ taskQueue' = Append(taskQueue, a) /\ UNCHANGED responseQueue
    BY <1>1 DEF HandlePingReq
  <1>3. /\ a \notin Members(taskQueue) /\ a \notin Members(responseQueue)
        /\ a \notin InWorker
    BY <1>1 DEF CoreInv, OneOwner, InWorker
  <1>4. /\ task'[a] = NewTask(n, code, r)
        /\ \A b \in Addr \ {a} : task'[b] = task[b]
    BY <1>1, <1>2 DEF TypeOK, SharedTypeOK
  <1>5. /\ Members(taskQueue') = Members(taskQueue)
        /\ Members(responseQueue') = Members(responseQueue) \cup {a}
        /\ Distinct(taskQueue') /\ Distinct(responseQueue')
        \/ /\ Members(taskQueue') = Members(taskQueue) \cup {a}
           /\ Members(responseQueue') = Members(responseQueue)
           /\ Distinct(taskQueue') /\ Distinct(responseQueue')
    <2>1. /\ taskQueue \in Seq(Addr) /\ responseQueue \in Seq(Addr)
          /\ Distinct(taskQueue) /\ Distinct(responseQueue)
      BY DEF CoreInv, OneOwner, TypeOK, SharedTypeOK
    <2>2. CASE responseQueue' = Append(responseQueue, a) /\ UNCHANGED taskQueue
      BY <1>1, <1>3, <2>1, <2>2, MembersOfAppend, DistinctAppend
    <2>3. CASE taskQueue' = Append(taskQueue, a) /\ UNCHANGED responseQueue
      BY <1>1, <1>3, <2>1, <2>3, MembersOfAppend, DistinctAppend
    <2> QED BY <1>2, <2>2, <2>3
  <1>6. Members(taskQueue)' = Members(taskQueue')
        /\ Members(responseQueue)' = Members(responseQueue')
    BY DEF Members
  <1>7. InWorker' = InWorker
    BY <1>1, <1>2, <1>3, <1>5, <1>6 DEF InWorker
  <1>8. OneOwner'
    BY <1>2, <1>3, <1>5, <1>6 DEF CoreInv, OneOwner, Distinct
  <1>9. DoneCountExact'
    <2>1. ASSUME NEW b \in live
          PROVE  task'[b].done = Cardinality(Ended(task'[b]))
      BY <1>1, <1>4, <2>1 DEF CoreInv, DoneCountExact, TypeOK, SharedTypeOK
    <2>2. /\ NewTask(n, code, r).done = 0
          /\ Ended(NewTask(n, code, r)) = {}
      BY TaskAssumption DEF NewTask, Ended, Final, Open, Idx
    <2> QED BY <1>2, <1>4, <2>1, <2>2, FS_EmptySet DEF DoneCountExact
  <1>10. QueuedFresh'
    <2>1. /\ NewTask(n, code, r).done = 0
          /\ \A i \in Idx : NewTask(n, code, r).status[i] = Uninited
      BY DEF NewTask
    <2>2. Members(taskQueue) \subseteq Addr
      BY DEF Members, TypeOK, SharedTypeOK
    <2> QED BY <1>3, <1>4, <1>5, <1>6, <2>1, <2>2 DEF CoreInv, QueuedFresh
  <1>11. InWorker \subseteq Addr \ {a} /\ (InTask => cur \in Addr \ {a})
    BY <1>3 DEF InWorker, Allocatable, InTask, TypeOK, SharedTypeOK, WorkerTypeOK
  <1>12. InHand' /\ InProgress' /\ (ClockInv => ClockInv')
    BY <1>4, <1>7, <1>11, InHandFrame, InProgressFrame DEF workerVars, workerData
  <1> QED BY <1>7, <1>8, <1>9, <1>10, <1>12 DEF CoreInv, InHand, InProgress

\* Answering a request takes its task out of the response queue and deletes it.
LEMMA TryRespEventStep ==
  ASSUME TypeOK, CoreInv, UNCHANGED workerVars, TryRespEvent
  PROVE  CoreInv' /\ (ClockInv => ClockInv') /\ InWorker' = InWorker
  <1>1. CASE responseQueue = <<>>
    BY <1>1, AllFrame DEF TryRespEvent, heapVars, todoVars, InWorker
  <1>2. CASE responseQueue # <<>>
    <2> DEFINE a == Head(responseQueue)
    <2>1. /\ live' = live \ {a} /\ responseQueue' = Tail(responseQueue)
          /\ UNCHANGED <<task, taskQueue>>
      BY <1>2 DEF TryRespEvent, todoVars
    <2>2. /\ a \in Members(responseQueue) /\ a \notin Members(Tail(responseQueue))
          /\ Members(responseQueue) = Members(Tail(responseQueue)) \cup {a}
          /\ Distinct(Tail(responseQueue))
      BY <1>2, MembersOfTail DEF CoreInv, OneOwner, TypeOK, SharedTypeOK
    <2>3. Members(responseQueue)' = Members(Tail(responseQueue))
          /\ Members(taskQueue)' = Members(taskQueue)
      BY <2>1 DEF Members
    <2> HIDE DEF a
    <2>4. a \notin Members(taskQueue) /\ a \in live
      BY <2>2 DEF CoreInv, OneOwner
    <2>5. InWorker' = InWorker
      BY <2>1, <2>2, <2>3 DEF InWorker
    <2>6. OneOwner'
      BY <2>1, <2>2, <2>3, <2>4 DEF CoreInv, OneOwner, Distinct
    <2>7. DoneCountExact' /\ QueuedFresh'
      BY <2>1, <2>3 DEF CoreInv, DoneCountExact, QueuedFresh
    <2>8. InHand' /\ InProgress' /\ (ClockInv => ClockInv')
      BY <2>1, <2>5, InHandFrame, InProgressFrame DEF workerVars, workerData
    <2> QED BY <2>5, <2>6, <2>7, <2>8 DEF CoreInv, InHand, InProgress
  <1> QED BY <1>1, <1>2

(***************************************************************************)
(* The steps of the task worker thread.                                    *)
(***************************************************************************)
\* Writing the byte moves the worker on and touches nothing else.
LEMMA NotifyMasterStep ==
  ASSUME TypeOK, CoreInv, NotifyMaster
  PROVE  CoreInv' /\ (ClockInv => ClockInv')
  <1>1. /\ UNCHANGED <<task, live, taskQueue, responseQueue, doingMap,
                       doingCount, timers, net, clock, cur, next>>
        /\ \/ wpc = "notify" /\ wpc' = "loop"
           \/ wpc = "notifyInTask" /\ wpc' = "doTask"
    BY DEF NotifyMaster, heapVars, todoVars, workerData
  <1>2. InWorker' = InWorker
    BY <1>1 DEF InWorker
  <1>3. InHand' /\ (ClockInv => ClockInv')
    BY <1>1, <1>2, InHandFrame
  <1>4. InTask' = InTask
    BY <1>1 DEF InTask
  <1>5. StartedInOrder'
    BY <1>1, <1>2, <1>4 DEF CoreInv, StartedInOrder
  <1>6. DoTaskStops'
    BY <1>1 DEF CoreInv, DoTaskStops
  <1>7. OneOwner' /\ DoneCountExact' /\ QueuedFresh'
    BY <1>1 DEF CoreInv, OneOwner, DoneCountExact, QueuedFresh
  <1> QED BY <1>3, <1>5, <1>6, <1>7 DEF CoreInv, InHand

\* doTask returns when every ping of its task has been started.
LEMMA DoTaskReturnsStep ==
  ASSUME TypeOK, CoreInv, DoTaskReturns
  PROVE  CoreInv' /\ (ClockInv => ClockInv')
  <1>1. /\ UNCHANGED <<task, live, taskQueue, responseQueue, doingMap,
                       doingCount, timers, net, clock, cur, next>>
        /\ wpc = "doTask" /\ wpc' = "loop" /\ next >= task[cur].total
    BY DEF DoTaskReturns, heapVars, todoVars, replyVars, workerData
  <1>2. InWorker' = InWorker
    BY <1>1 DEF InWorker
  <1>3. InHand' /\ (ClockInv => ClockInv')
    BY <1>1, <1>2, InHandFrame
  <1>4. StartedInOrder'
    <2>1. ASSUME NEW a \in InWorker, NEW i \in Idx, i < task[a].total
          PROVE  task[a].status[i] # Uninited
      <3>1. CASE a # cur
        BY <2>1, <3>1 DEF CoreInv, StartedInOrder
      <3>2. CASE a = cur
        <4>1. /\ i \in Int /\ next \in Int /\ task[cur].total \in Int
              /\ i < task[cur].total
          BY <1>1, <2>1, <3>2, TaskAssumption
          DEF TypeOK, SharedTypeOK, WorkerTypeOK, TaskRecord, Idx
        <4>2. ~(i >= next)
          BY <1>1, <4>1
        <4> QED BY <2>1, <4>2 DEF CoreInv, StartedInOrder
      <3> QED BY <3>1, <3>2
    <2> QED BY <1>1, <1>2, <2>1 DEF StartedInOrder, InTask
  <1>5. OneOwner' /\ DoneCountExact' /\ QueuedFresh' /\ DoTaskStops'
    BY <1>1 DEF CoreInv, OneOwner, DoneCountExact, QueuedFresh, DoTaskStops
  <1> QED BY <1>3, <1>4, <1>5 DEF CoreInv, InHand

\* What taking a task from taskQueue means for the queues.
LEMMA TakeTask ==
  ASSUME TypeOK, CoreInv, taskQueue # <<>>, NEW a, a = Head(taskQueue)
  PROVE  /\ a \in Addr /\ a \in live /\ a \notin InWorker
         /\ a \notin Members(Tail(taskQueue)) /\ a \notin Members(responseQueue)
         /\ Members(taskQueue) = Members(Tail(taskQueue)) \cup {a}
         /\ Distinct(Tail(taskQueue))
         /\ task[a].done = 0 /\ \A i \in Idx : task[a].status[i] = Uninited
  <1>1. taskQueue \in Seq(Addr) /\ Distinct(taskQueue)
    BY DEF TypeOK, SharedTypeOK, CoreInv, OneOwner
  <1>2. /\ a \in Members(taskQueue)
        /\ Members(taskQueue) = Members(Tail(taskQueue)) \cup {a}
        /\ a \notin Members(Tail(taskQueue)) /\ Distinct(Tail(taskQueue))
    BY <1>1, MembersOfTail
  <1>3. a \in live /\ a \notin Members(responseQueue)
    BY <1>2 DEF CoreInv, OneOwner
  <1>4. a \in Addr
    BY <1>3 DEF TypeOK, SharedTypeOK
  <1> QED BY <1>2, <1>3, <1>4 DEF CoreInv, QueuedFresh, InWorker

\* A task dropped as busy goes straight back, with no ping started.
LEMMA DropBusyStep ==
  ASSUME TypeOK, CoreInv, NotifyEvent, taskQueue # <<>>,
         DropBusy(Head(taskQueue))
  PROVE  CoreInv' /\ (ClockInv => ClockInv')
  <1> DEFINE a == Head(taskQueue)
  <1>1. /\ taskQueue' = Tail(taskQueue)
        /\ responseQueue' = Append(responseQueue, a)
        /\ task' = [task EXCEPT ![a].error = BusyCode]
        /\ wpc = "loop" /\ wpc' = "notify"
        /\ UNCHANGED <<live, doingMap, doingCount, timers, net, clock, cur, next>>
    BY DEF NotifyEvent, DropBusy
  <1>2. /\ a \in Addr /\ a \in live /\ a \notin InWorker
        /\ a \notin Members(Tail(taskQueue)) /\ a \notin Members(responseQueue)
        /\ Members(taskQueue) = Members(Tail(taskQueue)) \cup {a}
        /\ Distinct(Tail(taskQueue))
    BY TakeTask
  <1> HIDE DEF a
  <1>3. /\ Members(taskQueue)' = Members(Tail(taskQueue))
        /\ Members(responseQueue)' = Members(responseQueue) \cup {a}
        /\ Distinct(responseQueue)'
    <2>1. responseQueue \in Seq(Addr) /\ Distinct(responseQueue)
      BY DEF TypeOK, SharedTypeOK, CoreInv, OneOwner
    <2>2. /\ Members(Append(responseQueue, a)) = Members(responseQueue) \cup {a}
          /\ Distinct(Append(responseQueue, a))
      BY <1>2, <2>1, MembersOfAppend, DistinctAppend
    <2> QED BY <1>1, <2>2 DEF Members, Distinct
  <1>4. /\ \A b \in Addr \ {a} : task'[b] = task[b]
        /\ task'[a].done = task[a].done /\ Ended(task'[a]) = Ended(task[a])
    BY <1>1, <1>2 DEF TypeOK, SharedTypeOK, TaskRecord, Ended
  <1>5. InWorker' = InWorker
    BY <1>1, <1>2, <1>3 DEF InWorker
  <1>6. InWorker \subseteq Addr \ {a} /\ live \subseteq Addr
    BY <1>2 DEF InWorker, TypeOK, SharedTypeOK
  <1>7. InHand' /\ (ClockInv => ClockInv')
    BY <1>1, <1>4, <1>5, <1>6, InHandFrame
  <1>8. InProgress'
    BY <1>1, <1>4, <1>5, <1>6
    DEF CoreInv, InProgress, StartedInOrder, DoTaskStops, InTask
  <1>9. OneOwner'
    BY <1>1, <1>2, <1>3 DEF CoreInv, OneOwner, Distinct
  <1>10. DoneCountExact'
    BY <1>1, <1>4, <1>6 DEF CoreInv, DoneCountExact
  <1>11. QueuedFresh'
    BY <1>1, <1>2, <1>3, <1>4, <1>6 DEF CoreInv, QueuedFresh, OneOwner
  <1> QED BY <1>7, <1>8, <1>9, <1>10, <1>11 DEF CoreInv, InHand, InProgress

\* An accepted task gets a slot and an entry of doingMap under a new timestamp.
LEMMA AcceptStep ==
  ASSUME TypeOK, CoreInv, NotifyEvent, taskQueue # <<>>, ~AtCapacity,
         Accept(Head(taskQueue))
  PROVE  CoreInv' /\ (StampsFresh /\ ClockInv => ClockInv')
  <1> DEFINE a == Head(taskQueue)
  <1>1. /\ taskQueue' = Tail(taskQueue)
        /\ wpc = "loop" /\ wpc' = "doTask" /\ cur' = a /\ next' = 0
        /\ doingCount' = doingCount + 1
        /\ UNCHANGED <<live, responseQueue, timers, net>>
    BY DEF NotifyEvent, Accept
  <1>2. PICK now \in CurrentTime :
          /\ clock' = IF now > clock THEN now ELSE clock
          /\ task' = [task EXCEPT ![a].stamp = now]
          /\ doingMap' = [doingMap EXCEPT ![now] = IF @ = NoTask THEN a ELSE @]
    BY DEF Accept
  <1>n. now \in Stamp /\ now \in Int /\ clock \in Int
    BY TaskAssumption DEF CurrentTime, TypeOK, WorkerTypeOK, Stamp
  <1>3. /\ a \in Addr /\ a \in live /\ a \notin InWorker
        /\ a \notin Members(Tail(taskQueue)) /\ a \notin Members(responseQueue)
        /\ Members(taskQueue) = Members(Tail(taskQueue)) \cup {a}
        /\ Distinct(Tail(taskQueue))
        /\ task[a].done = 0 /\ \A i \in Idx : task[a].status[i] = Uninited
    BY TakeTask
  <1> HIDE DEF a
  <1>4. /\ \A b \in Addr \ {a} : task'[b] = task[b]
        /\ task'[a].done = task[a].done /\ task'[a].total = task[a].total
        /\ task'[a].status = task[a].status /\ task'[a].stamp = now
        /\ Ended(task'[a]) = Ended(task[a])
    BY <1>2, <1>3, <1>n DEF TypeOK, SharedTypeOK, TaskRecord, Ended
  <1>5. /\ Members(taskQueue)' = Members(Tail(taskQueue))
        /\ Members(responseQueue)' = Members(responseQueue)
    BY <1>1 DEF Members
  <1>6. InWorker' = InWorker \cup {a}
    BY <1>1, <1>3, <1>5 DEF InWorker
  <1>7. InWorker \subseteq Addr \ {a} /\ live \subseteq Addr
    BY <1>3 DEF InWorker, TypeOK, SharedTypeOK
  <1>8. OneOwner'
    BY <1>1, <1>3, <1>5 DEF CoreInv, OneOwner, Distinct
  <1>9. DoneCountExact'
    BY <1>1, <1>4, <1>7 DEF CoreInv, DoneCountExact
  <1>10. SlotsExact'
    <2>1. IsFiniteSet(InWorker)
      BY <1>7, SharedAssumption, FS_Subset
    <2>2. Cardinality(InWorker') = Cardinality(InWorker) + 1
      BY <1>3, <1>6, <2>1, FS_AddElement
    <2>3. doingCount = Cardinality(InWorker) /\ doingCount < Capacity
      BY WorkerAssumption
      DEF CoreInv, SlotsExact, AtCapacity, TypeOK, WorkerTypeOK
    <2>4. doingCount' = Cardinality(InWorker') /\ doingCount' <= Capacity
      BY <1>1, <2>2, <2>3, WorkerAssumption DEF TypeOK, WorkerTypeOK
    <2> QED BY <2>4 DEF SlotsExact
  <1>11. TimersOwned'
    <2>1. \A i \in Idx : task'[a].status[i] # Doing
      BY <1>3, <1>4 DEF Uninited, Doing
    <2> QED BY <1>1, <1>3, <1>4, <1>6, <1>7, <2>1 DEF CoreInv, TimersOwned
  <1>12. QueuedFresh'
    BY <1>3, <1>4, <1>5, <1>7 DEF CoreInv, QueuedFresh, OneOwner
  <1>13. StartedInOrder'
    <2>1. ASSUME NEW b \in InWorker', NEW i \in Idx, i < task'[b].total
          PROVE  task'[b].status[i] = Uninited <=> b = a
      <3>1. CASE b = a
        BY <1>3, <1>4, <3>1
      <3>2. CASE b # a
        <4>1. b \in InWorker /\ task'[b] = task[b] /\ ~InTask
          BY <1>1, <1>4, <1>6, <1>7, <3>2 DEF InTask
        <4> QED BY <2>1, <3>2, <4>1 DEF CoreInv, StartedInOrder
      <3> QED BY <3>1, <3>2
    <2>2. InTask' /\ cur' = a /\ \A i \in Idx : i >= next'
      BY <1>1 DEF InTask, Idx
    <2> QED BY <2>1, <2>2 DEF StartedInOrder
  <1>14. DoTaskStops'
    BY <1>1, <1>6 DEF DoTaskStops
  <1>15. /\ doingMap'[now] \in {a, doingMap[now]}
         /\ doingMap[now] = NoTask => doingMap'[now] = a
         /\ doingMap[now] # NoTask => doingMap'[now] = doingMap[now]
         /\ \A x \in Stamp \ {now} : doingMap'[x] = doingMap[x]
    BY <1>2, <1>n DEF TypeOK, WorkerTypeOK
  <1>16. DoingMapLive'
    <2>1. ASSUME NEW x \in Stamp, doingMap'[x] # NoTask
          PROVE  doingMap'[x] \in InWorker' /\ task'[doingMap'[x]].stamp = x
      <3>1. CASE x = now /\ doingMap[now] = NoTask
        BY <1>4, <1>6, <1>15, <3>1
      <3>2. CASE x # now \/ doingMap[now] # NoTask
        <4>1. doingMap'[x] = doingMap[x]
          BY <1>15, <3>2
        <4> QED BY <1>4, <1>6, <1>7, <2>1, <4>1 DEF CoreInv, DoingMapLive
      <3> QED BY <3>1, <3>2
    <2> QED BY <2>1 DEF DoingMapLive
  <1>17. ASSUME StampsFresh, ClockInv
         PROVE  ClockInv'
    <2>1. now <= clock' /\ clock <= clock' /\ clock' \in Int
      BY <1>2, <1>n
    <2>a. a \in InWorker' \ InWorker
      BY <1>3, <1>6
    <2>b. task'[a].stamp \notin StampsInUse
      BY <1>17, <2>a DEF StampsFresh
    <2>c. /\ \A b \in InWorker : task[b].stamp # now
          /\ \A p \in net : Accepts(p) => p.stamp # now
      BY <1>4, <2>b DEF StampsInUse
    <2>2. doingMap[now] = NoTask
      BY <1>n, <2>c DEF CoreInv, DoingMapLive
    <2>3. StampsPast'
      <3>1. \A b \in InWorker : task[b].stamp \in Int
        BY <1>7, TaskAssumption DEF TypeOK, SharedTypeOK, TaskRecord, Stamp
      <3>2. \A b \in InWorker' : task'[b].stamp <= clock'
        BY <1>n, <1>4, <1>6, <1>7, <1>17, <2>1, <3>1 DEF ClockInv, StampsPast
      <3>3. \A p \in net : p.stamp \in Int
        BY TaskAssumption DEF TypeOK, WorkerTypeOK, Packet, Stamp
      <3>4. \A p \in net' : Accepts(p) => p.stamp <= clock'
        BY <1>1, <1>n, <1>17, <2>1, <3>3 DEF ClockInv, StampsPast
      <3> QED BY <3>2, <3>4 DEF StampsPast, Accepts
    <2>4. DoingMapFinds'
      <3>1. ASSUME NEW b \in InWorker
            PROVE  doingMap'[task'[b].stamp] = b
        <4>1. task'[b] = task[b]
          BY <1>4, <1>7
        <4>a. task[b].stamp \in Stamp
          BY <1>7 DEF TypeOK, SharedTypeOK, TaskRecord
        <4> QED BY <1>15, <1>17, <2>c, <4>1, <4>a DEF ClockInv, DoingMapFinds
      <3> QED BY <1>4, <1>6, <1>15, <2>2, <3>1 DEF DoingMapFinds
    <2>5. RepliesKnown'
      <3>1. ASSUME NEW p \in net, Accepts(p), doingMap'[p.stamp] # NoTask
            PROVE  /\ p.req = task'[doingMap'[p.stamp]].req
                   /\ p.idx < task'[doingMap'[p.stamp]].total
        <4>1. p.stamp \in Stamp
          BY DEF TypeOK, WorkerTypeOK, Packet
        <4>2. doingMap'[p.stamp] = doingMap[p.stamp]
          BY <1>15, <2>c, <3>1, <4>1
        <4>3. doingMap[p.stamp] \in InWorker
          BY <3>1, <4>1, <4>2 DEF CoreInv, DoingMapLive
        <4>4. task'[doingMap[p.stamp]] = task[doingMap[p.stamp]]
          BY <1>4, <1>7, <4>3
        <4> QED BY <1>17, <3>1, <4>2, <4>4 DEF ClockInv, RepliesKnown
      <3> QED BY <1>1, <3>1 DEF RepliesKnown, Accepts
    <2> QED BY <2>3, <2>4, <2>5 DEF ClockInv
  <1> QED BY <1>8, <1>9, <1>10, <1>11, <1>12, <1>13, <1>14, <1>16, <1>17
          DEF CoreInv

\* What ending a ping does to the task it belongs to.
LEMMA EndPingTask ==
  ASSUME TypeOK, CoreInv, NEW a \in InWorker, NEW i \in Idx, i < task[a].total,
         task[a].status[i] \in Open, NEW s \in Final, NEW ret,
         EndPing(a, i, s, ret)
  PROVE  /\ task' \in [Addr -> TaskRecord]
         /\ \A b \in Addr \ {a} : task'[b] = task[b]
         /\ task'[a].done = Cardinality(Ended(task'[a]))
         /\ task'[a].total = task[a].total /\ task'[a].stamp = task[a].stamp
         /\ task'[a].req = task[a].req
         /\ task'[a].status = [task[a].status EXCEPT ![i] = s]
         /\ task[a].status \in [Idx -> Status]
         /\ task[a].stamp \in Stamp
  <1>1. a \in Addr /\ a \in live
    BY DEF InWorker, TypeOK, SharedTypeOK
  <1>2. task[a] \in TaskRecord /\ task[a].done = Cardinality(Ended(task[a]))
    BY <1>1 DEF CoreInv, DoneCountExact, TypeOK, SharedTypeOK
  <1>3. s \in Status
    BY DEF Final
  <1>4. task' = [task EXCEPT ![a] = CountDone(@, i, s)]
    BY DEF EndPing
  <1>5. task'[a] = CountDone(task[a], i, s)
    BY <1>1, <1>4 DEF TypeOK, SharedTypeOK
  <1>6. task' \in [Addr -> TaskRecord]
    BY <1>1, <1>2, <1>3, <1>4, TaskTypes DEF TypeOK, SharedTypeOK
  <1>7. \A b \in Addr \ {a} : task'[b] = task[b]
    BY <1>4 DEF TypeOK, SharedTypeOK
  <1>8. task[a].status \in [Idx -> Status] /\ task[a].stamp \in Stamp
    BY <1>2 DEF TaskRecord
  <1> QED BY <1>2, <1>5, <1>6, <1>7, <1>8, CountDoneExact

(***************************************************************************)
(* A completion handler ends a ping of a task in the worker's hands.       *)
(* doTask ends the ping it was to start next; a callback ends any.         *)
(***************************************************************************)
LEMMA EndPingStep ==
  ASSUME TypeOK, CoreInv, NEW a \in InWorker, NEW i \in Idx, i < task[a].total,
         task[a].status[i] \in Open, NEW s \in Final, NEW ret,
         EndPing(a, i, s, ret),
         UNCHANGED <<live, taskQueue, net, clock, cur>>,
         timers' \in [Addr -> [Idx -> Int]], timers'[a][i] = 0,
         \A b \in Addr, j \in Idx :
           <<b, j>> # <<a, i>> => timers'[b][j] = timers[b][j],
         \/ wpc = "loop" /\ ret = "notify" /\ next' = next
         \/ /\ wpc = "doTask" /\ ret = "notifyInTask"
            /\ a = cur /\ i = next /\ next' = next + 1
  PROVE  CoreInv' /\ (ClockInv => ClockInv')
  <1> DEFINE t == task'[a]
  <1>1. /\ a \in Addr /\ a \in live /\ a \notin Members(taskQueue)
        /\ a \notin Members(responseQueue)
        /\ InWorker \subseteq Addr /\ live \subseteq Addr
    BY DEF InWorker, TypeOK, SharedTypeOK
  <1>2. /\ task' \in [Addr -> TaskRecord]
        /\ \A b \in Addr \ {a} : task'[b] = task[b]
        /\ t.done = Cardinality(Ended(t)) /\ t.total = task[a].total
        /\ t.stamp = task[a].stamp /\ t.req = task[a].req
        /\ t.status = [task[a].status EXCEPT ![i] = s]
        /\ task[a].status \in [Idx -> Status] /\ task[a].stamp \in Stamp
    BY EndPingTask
  <1>3. /\ t.status[i] = s /\ s # Uninited /\ s # Doing
        /\ \A j \in Idx \ {i} : t.status[j] = task[a].status[j]
    BY <1>2 DEF Final, Open
  <1>t. t \in TaskRecord /\ t.total \in 0..MaxServers /\ next \in Int
    BY <1>1, <1>2 DEF TaskRecord, TypeOK, WorkerTypeOK
  <1> HIDE DEF t
  <1>4. DoneCountExact'
    BY <1>1, <1>2 DEF CoreInv, DoneCountExact, t
  <1>5. Members(taskQueue)' = Members(taskQueue)
    BY DEF Members
  <1>6. QueuedFresh'
    BY <1>1, <1>2, <1>5 DEF CoreInv, QueuedFresh, OneOwner
  <1>7. \A b \in InWorker : /\ task'[b].stamp = task[b].stamp
                            /\ task'[b].req = task[b].req
                            /\ task'[b].total = task[b].total
    BY <1>1, <1>2 DEF t
  <1>8. \A b \in InWorker, j \in Idx : j < task'[b].total =>
          (task'[b].status[j] = Uninited <=>
             wpc = "doTask" /\ b = cur /\ j >= next')
    <2> SUFFICES ASSUME NEW b \in InWorker, NEW j \in Idx, j < task'[b].total
                 PROVE  task'[b].status[j] = Uninited <=>
                          wpc = "doTask" /\ b = cur /\ j >= next'
      OBVIOUS
    <2>1. /\ j < task[b].total /\ i \in Int /\ j \in Int
          /\ (task[b].status[j] = Uninited <=>
                wpc = "doTask" /\ b = cur /\ j >= next)
      BY <1>7 DEF CoreInv, StartedInOrder, InTask, Idx
    <2>2. CASE b = a /\ j = i
      BY <1>3, <1>t, <2>1, <2>2 DEF t
    <2>3. CASE b = a /\ j # i
      BY <1>3, <1>t, <2>1, <2>3 DEF t
    <2>4. CASE b # a
      BY <1>1, <1>2, <2>1, <2>4
    <2> QED BY <2>2, <2>3, <2>4
  <1>9. CASE ~IsComplete(t)
    <2>1. UNCHANGED <<doingCount, doingMap, responseQueue, wpc>>
      BY <1>9 DEF EndPing, t
    <2>2. InWorker' = InWorker /\ Members(responseQueue)' = Members(responseQueue)
      BY <2>1, <1>5 DEF InWorker, Members
    <2>3. OneOwner'
      BY <1>5, <2>1, <2>2 DEF CoreInv, OneOwner, Distinct
    <2>4. SlotsExact'
      BY <2>1, <2>2 DEF CoreInv, SlotsExact
    <2>5. TimersOwned'
      <3>1. ASSUME NEW b \in Addr, NEW j \in Idx
            PROVE  timers'[b][j] = IF b \in InWorker /\ j < task'[b].total
                                      /\ task'[b].status[j] = Doing THEN 1 ELSE 0
        <4>1. timers[b][j] = IF b \in InWorker /\ j < task[b].total
                                /\ task[b].status[j] = Doing THEN 1 ELSE 0
          BY DEF CoreInv, TimersOwned
        <4>2. CASE b = a /\ j = i
          BY <1>3, <4>2 DEF t
        <4>3. CASE b = a /\ j # i
          BY <1>1, <1>2, <1>3, <4>1, <4>3 DEF t
        <4>4. CASE b # a
          BY <1>1, <1>2, <4>1, <4>4
        <4> QED BY <4>2, <4>3, <4>4
      <3> QED BY <2>2, <3>1 DEF TimersOwned
    <2>6. DoingMapLive'
      BY <1>7, <2>1, <2>2 DEF CoreInv, DoingMapLive
    <2>7. StartedInOrder'
      BY <1>8, <2>1, <2>2 DEF StartedInOrder, InTask
    <2>8. DoTaskStops'
      BY <2>1, <2>2 DEF DoTaskStops
    <2>9. ASSUME ClockInv PROVE ClockInv'
      <3>1. DoingMapFinds'
        BY <1>7, <2>1, <2>2, <2>9 DEF ClockInv, DoingMapFinds
      <3>2. StampsPast'
        BY <1>7, <2>2, <2>9 DEF ClockInv, StampsPast, Accepts
      <3>3. \A p \in net : p.stamp \in Stamp
        BY DEF TypeOK, WorkerTypeOK, Packet
      <3>4. RepliesKnown'
        BY <1>7, <2>1, <2>9, <3>3
        DEF CoreInv, ClockInv, RepliesKnown, DoingMapLive, Accepts
      <3> QED BY <3>1, <3>2, <3>4 DEF ClockInv
    <2> QED BY <1>4, <1>6, <2>3, <2>4, <2>5, <2>6, <2>7, <2>8, <2>9 DEF CoreInv
  <1>10. CASE IsComplete(t)
    <2>1. /\ doingCount' = doingCount - 1
          /\ doingMap' = [doingMap EXCEPT ![task[a].stamp] = NoTask]
          /\ responseQueue' = Append(responseQueue, a)
          /\ wpc' = ret
      BY <1>10 DEF EndPing, OnComplete, t
    <2>2. \A j \in Idx : j < t.total => t.status[j] \in Final
      BY <1>2, <1>10, <1>t, CompleteAllEnded
    <2>3. /\ Members(responseQueue)' = Members(responseQueue) \cup {a}
          /\ Distinct(responseQueue)'
      <3>1. responseQueue \in Seq(Addr) /\ Distinct(responseQueue)
        BY DEF TypeOK, SharedTypeOK, CoreInv, OneOwner
      <3>2. /\ Members(Append(responseQueue, a)) = Members(responseQueue) \cup {a}
            /\ Distinct(Append(responseQueue, a))
        BY <1>1, <3>1, MembersOfAppend, DistinctAppend
      <3> QED BY <2>1, <3>2 DEF Members, Distinct
    <2>4. InWorker' = InWorker \ {a}
      BY <1>5, <2>3 DEF InWorker
    <2>5. OneOwner'
      BY <1>1, <1>5, <2>3 DEF CoreInv, OneOwner, Distinct
    <2>6. SlotsExact'
      <3>1. IsFiniteSet(InWorker) /\ Cardinality(InWorker) \in Nat
        BY <1>1, SharedAssumption, FS_Subset, FS_CardinalityType
      <3>2. Cardinality(InWorker') = Cardinality(InWorker) - 1
        BY <2>4, <3>1, FS_RemoveElement
      <3>3. doingCount = Cardinality(InWorker) /\ doingCount <= Capacity
        BY DEF CoreInv, SlotsExact
      <3>4. /\ doingCount' = Cardinality(InWorker')
            /\ doingCount' <= Capacity
        BY <2>1, <3>1, <3>2, <3>3, WorkerAssumption
      <3> QED BY <3>4 DEF SlotsExact
    <2>7. TimersOwned'
      <3>1. ASSUME NEW b \in Addr, NEW j \in Idx
            PROVE  timers'[b][j] = IF b \in InWorker' /\ j < task'[b].total
                                      /\ task'[b].status[j] = Doing THEN 1 ELSE 0
        <4>1. timers[b][j] = IF b \in InWorker /\ j < task[b].total
                                /\ task[b].status[j] = Doing THEN 1 ELSE 0
          BY DEF CoreInv, TimersOwned
        <4>2. CASE b = a /\ j = i
          BY <2>4, <4>2
        <4>3. CASE b = a /\ j # i
          <5>1. ~(j < task[a].total /\ task[a].status[j] = Doing)
            BY <1>2, <1>3, <2>2, <4>3 DEF Final, Open
          <5> QED BY <1>1, <2>4, <4>1, <4>3, <5>1
        <4>4. CASE b # a
          BY <1>1, <1>2, <2>4, <4>1, <4>4
        <4> QED BY <4>2, <4>3, <4>4
      <3> QED BY <3>1 DEF TimersOwned
    <2>8. DoingMapLive'
      <3>1. ASSUME NEW x \in Stamp, doingMap'[x] # NoTask
            PROVE  doingMap'[x] \in InWorker' /\ task'[doingMap'[x]].stamp = x
        <4>1. x # task[a].stamp /\ doingMap'[x] = doingMap[x]
          BY <2>1, <3>1 DEF TypeOK, WorkerTypeOK
        <4>2. doingMap[x] \in InWorker /\ task[doingMap[x]].stamp = x
          BY <3>1, <4>1 DEF CoreInv, DoingMapLive
        <4> QED BY <1>7, <2>4, <4>1, <4>2
      <3> QED BY <3>1 DEF DoingMapLive
    <2>10. StartedInOrder'
      <3>1. ASSUME NEW b \in InWorker', NEW j \in Idx, j < task'[b].total
            PROVE  task'[b].status[j] = Uninited <=>
                     InTask' /\ b = cur /\ j >= next'
        <4>1. b \in InWorker /\ b # a
          BY <2>4
        <4>2. InTask' <=> wpc = "doTask"
          BY <2>1 DEF InTask
        <4> QED BY <1>8, <3>1, <4>1, <4>2
      <3> QED BY <3>1 DEF StartedInOrder
    <2>11. DoTaskStops'
      <3>1. CASE wpc = "loop"
        BY <2>1, <3>1 DEF DoTaskStops
      <3>2. CASE wpc = "doTask"
        <4>1. /\ a = cur /\ i = next /\ next' = next + 1 /\ wpc' = "notifyInTask"
          BY <2>1, <3>2
        <4>2. ASSUME next + 1 < t.total
              PROVE  FALSE
          <5>1. next + 1 \in Idx
            BY <1>t, <4>1, <4>2, TaskAssumption DEF Idx
          <5>2. t.status[next + 1] = Uninited
            BY <1>8, <3>2, <4>1, <4>2, <5>1 DEF t, Idx
          <5> QED BY <2>2, <4>2, <5>1, <5>2 DEF Final, Open
        <4>3. next' >= task'[cur].total
          BY <1>t, <4>1, <4>2, TaskAssumption DEF t
        <4> QED BY <4>1, <4>3 DEF DoTaskStops
      <3> QED BY <3>1, <3>2
    <2>12. ASSUME ClockInv PROVE ClockInv'
      <3>1. ASSUME NEW b \in InWorker'
            PROVE  doingMap'[task'[b].stamp] = b
        <4>1. b \in InWorker /\ b # a
          BY <2>4
        <4>2. doingMap[task[b].stamp] = b /\ doingMap[task[a].stamp] = a
          BY <2>12, <4>1 DEF ClockInv, DoingMapFinds
        <4>3. task[b].stamp \in Stamp
          BY <1>1, <4>1 DEF TypeOK, SharedTypeOK, TaskRecord
        <4> QED BY <1>7, <2>1, <4>1, <4>2, <4>3 DEF TypeOK, WorkerTypeOK
      <3>2. StampsPast'
        BY <1>7, <2>4, <2>12 DEF ClockInv, StampsPast, Accepts
      <3>3. ASSUME NEW p \in net, Accepts(p), doingMap'[p.stamp] # NoTask
            PROVE  /\ p.req = task'[doingMap'[p.stamp]].req
                   /\ p.idx < task'[doingMap'[p.stamp]].total
        <4>1. p.stamp \in Stamp
          BY DEF TypeOK, WorkerTypeOK, Packet
        <4>2. doingMap'[p.stamp] = doingMap[p.stamp]
          BY <2>1, <3>3, <4>1 DEF TypeOK, WorkerTypeOK
        <4>3. doingMap[p.stamp] \in InWorker
          BY <3>3, <4>1, <4>2 DEF CoreInv, DoingMapLive
        <4> QED BY <1>7, <2>12, <3>3, <4>2, <4>3 DEF ClockInv, RepliesKnown
      <3> QED BY <3>1, <3>2, <3>3
              DEF ClockInv, DoingMapFinds, RepliesKnown, Accepts
    <2> QED BY <1>4, <1>6, <2>5, <2>6, <2>7, <2>8, <2>10, <2>11, <2>12
            DEF CoreInv
  <1> QED BY <1>9, <1>10

\* The ping doTask is about to start: its task is the worker's, and it is not
\* started yet.
LEMMA PingToStart ==
  ASSUME TypeOK, CoreInv, InDoTask
  PROVE  /\ cur \in InWorker /\ cur \in Addr /\ next \in Idx
         /\ next < task[cur].total
         /\ task[cur].status[next] = Uninited /\ timers[cur][next] = 0
  <1>1. cur \in Addr /\ next \in Idx /\ next < task[cur].total
    BY TaskAssumption
    DEF InDoTask, TypeOK, SharedTypeOK, WorkerTypeOK, TaskRecord, Idx
  <1>2. cur \in InWorker
    <2>1. ~(next >= task[cur].total)
      BY <1>1, TaskAssumption
      DEF TypeOK, SharedTypeOK, WorkerTypeOK, TaskRecord
    <2> QED BY <2>1 DEF InDoTask, CoreInv, DoTaskStops
  <1>3. task[cur].status[next] = Uninited
    BY <1>1, <1>2 DEF InDoTask, InTask, CoreInv, StartedInOrder, Idx
  <1>4. timers[cur][next] = 0
    BY <1>1, <1>3 DEF CoreInv, TimersOwned, Uninited, Doing
  <1> QED BY <1>1, <1>2, <1>3, <1>4

\* A ping that was sent waits with one timer, and its reply names it.
LEMMA PingSentStep ==
  ASSUME TypeOK, CoreInv, PingSent
  PROVE  CoreInv' /\ (ClockInv => ClockInv')
  <1>1. /\ cur \in InWorker /\ cur \in Addr /\ next \in Idx
        /\ next < task[cur].total
        /\ task[cur].status[next] = Uninited /\ timers[cur][next] = 0
    BY PingToStart DEF PingSent
  <1>2. /\ task' = [task EXCEPT ![cur].status[next] = Doing]
        /\ timers' = [timers EXCEPT ![cur][next] = @ + 1]
        /\ net' = net \cup {EchoReply(cur, next)}
        /\ next' = next + 1 /\ wpc = "doTask"
        /\ UNCHANGED <<live, taskQueue, responseQueue, doingMap, doingCount,
                       clock, wpc, cur>>
    BY DEF PingSent, InDoTask, SetTimer, todoVars, replyVars
  <1> DEFINE t == task'[cur]
  <1>3. /\ \A b \in Addr \ {cur} : task'[b] = task[b]
        /\ t.done = task[cur].done /\ t.total = task[cur].total
        /\ t.stamp = task[cur].stamp /\ t.req = task[cur].req
        /\ t.status[next] = Doing
        /\ \A j \in Idx \ {next} : t.status[j] = task[cur].status[j]
    BY <1>1, <1>2 DEF TypeOK, SharedTypeOK, TaskRecord
  <1>4. timers'[cur][next] = 1
        /\ \A b \in Addr, j \in Idx : <<b, j>> # <<cur, next>> =>
             timers'[b][j] = timers[b][j]
    BY <1>1, <1>2 DEF TypeOK, WorkerTypeOK
  <1>5. Ended(t) = Ended(task[cur])
    <2>1. \A j \in 0..(task[cur].total - 1) :
            t.status[j] \in Final <=> task[cur].status[j] \in Final
      <3>1. 0..(task[cur].total - 1) \subseteq Idx
        BY <1>1, TaskAssumption DEF TypeOK, SharedTypeOK, TaskRecord, Idx
      <3>2. Doing \notin Final /\ Uninited \notin Final
        BY DEF Final, Open
      <3> QED BY <1>1, <1>3, <3>1, <3>2
    <2> QED BY <1>3, <2>1 DEF Ended
  <1> HIDE DEF t
  <1>6. /\ InWorker' = InWorker /\ Members(taskQueue)' = Members(taskQueue)
        /\ InWorker \subseteq Addr /\ live \subseteq Addr
        /\ cur \notin Members(taskQueue)
    BY <1>1, <1>2 DEF InWorker, Members, TypeOK, SharedTypeOK
  <1>7. \A b \in InWorker : /\ task'[b].stamp = task[b].stamp
                            /\ task'[b].req = task[b].req
                            /\ task'[b].total = task[b].total
    BY <1>3, <1>6 DEF t
  <1>8. OneOwner'
    BY <1>2 DEF CoreInv, OneOwner, Distinct, Members
  <1>9. DoneCountExact'
    BY <1>2, <1>3, <1>5, <1>6 DEF CoreInv, DoneCountExact, t
  <1>10. SlotsExact'
    BY <1>2, <1>6 DEF CoreInv, SlotsExact
  <1>11. TimersOwned'
    <2>1. ASSUME NEW b \in Addr, NEW j \in Idx
          PROVE  timers'[b][j] = IF b \in InWorker /\ j < task'[b].total
                                    /\ task'[b].status[j] = Doing THEN 1 ELSE 0
      <3>1. timers[b][j] = IF b \in InWorker /\ j < task[b].total
                              /\ task[b].status[j] = Doing THEN 1 ELSE 0
        BY DEF CoreInv, TimersOwned
      <3>2. CASE b = cur /\ j = next
        BY <1>1, <1>3, <1>4, <3>2 DEF t
      <3>3. CASE b = cur /\ j # next
        BY <1>3, <1>4, <3>1, <3>3 DEF t
      <3>4. CASE b # cur
        BY <1>3, <1>4, <3>1, <3>4
      <3> QED BY <3>2, <3>3, <3>4
    <2> QED BY <1>6, <2>1 DEF TimersOwned
  <1>12. DoingMapLive'
    BY <1>2, <1>6, <1>7 DEF CoreInv, DoingMapLive
  <1>13. QueuedFresh'
    BY <1>3, <1>6 DEF CoreInv, QueuedFresh, OneOwner
  <1>14. StartedInOrder'
    <2>1. ASSUME NEW b \in InWorker, NEW j \in Idx, j < task'[b].total
          PROVE  task'[b].status[j] = Uninited <=> b = cur /\ j >= next + 1
      <3>1. /\ j < task[b].total /\ next \in Int /\ j \in Int
            /\ (task[b].status[j] = Uninited <=> b = cur /\ j >= next)
        BY <1>1, <1>2, <1>7, <2>1 DEF CoreInv, StartedInOrder, InTask, Idx
      <3>2. CASE b = cur /\ j = next
        BY <1>3, <3>1, <3>2 DEF t, Uninited, Doing
      <3>3. CASE b = cur /\ j # next
        BY <1>3, <3>1, <3>3 DEF t
      <3>4. CASE b # cur
        BY <1>3, <1>6, <3>1, <3>4
      <3> QED BY <3>2, <3>3, <3>4
    <2> QED BY <1>2, <1>6, <2>1 DEF StartedInOrder, InTask
  <1>15. DoTaskStops'
    BY <1>1, <1>2, <1>6 DEF DoTaskStops
  <1>16. /\ EchoReply(cur, next).stamp = task[cur].stamp
         /\ EchoReply(cur, next).req = task[cur].req
         /\ EchoReply(cur, next).idx = next
    BY DEF EchoReply
  <1>17. ASSUME ClockInv PROVE ClockInv'
    <2>1. DoingMapFinds'
      BY <1>2, <1>6, <1>7, <1>17 DEF ClockInv, DoingMapFinds
    <2>2. StampsPast'
      BY <1>1, <1>2, <1>6, <1>7, <1>16, <1>17 DEF ClockInv, StampsPast, Accepts
    <2>3. ASSUME NEW p \in net, Accepts(p), doingMap[p.stamp] # NoTask
          PROVE  /\ p.req = task'[doingMap[p.stamp]].req
                 /\ p.idx < task'[doingMap[p.stamp]].total
      <3>1. p.stamp \in Stamp
        BY DEF TypeOK, WorkerTypeOK, Packet
      <3>2. doingMap[p.stamp] \in InWorker
        BY <2>3, <3>1 DEF CoreInv, DoingMapLive
      <3> QED BY <1>7, <1>17, <2>3, <3>2 DEF ClockInv, RepliesKnown
    <2>4. doingMap[task[cur].stamp] = cur
      BY <1>1, <1>17 DEF ClockInv, DoingMapFinds
    <2>5. /\ task[cur].req = task'[cur].req
          /\ next < task'[cur].total
      BY <1>1, <1>7
    <2>6. RepliesKnown'
      BY <1>2, <1>16, <2>3, <2>4, <2>5 DEF RepliesKnown, Accepts
    <2> QED BY <2>1, <2>2, <2>6 DEF ClockInv
  <1> QED BY <1>8, <1>9, <1>10, <1>11, <1>12, <1>13, <1>14, <1>15, <1>17
          DEF CoreInv

\* In doTask a ping that is not sent is open, and has no timer.
LEMMA PingNotSentStep ==
  ASSUME TypeOK, CoreInv, PingNotSent
  PROVE  CoreInv' /\ (ClockInv => ClockInv')
  <1>1. /\ cur \in InWorker /\ cur \in Addr /\ next \in Idx
        /\ next < task[cur].total
        /\ task[cur].status[next] = Uninited /\ timers[cur][next] = 0
    BY PingToStart DEF PingNotSent
  <1>2. task[cur].status[next] \in Open /\ SendError \in Final
    BY <1>1 DEF Open, Final, Status, SendError, Uninited, Doing
  <1>3. /\ wpc = "doTask" /\ next' = next + 1
        /\ EndPing(cur, next, SendError, "notifyInTask")
        /\ UNCHANGED <<live, taskQueue, net, clock, cur, timers>>
    BY <1>2 DEF PingNotSent, InDoTask, todoVars
  <1>4. timers' \in [Addr -> [Idx -> Int]] /\ timers'[cur][next] = 0
    BY <1>1, <1>3 DEF TypeOK, WorkerTypeOK
  <1> QED BY <1>1, <1>2, <1>3, <1>4, EndPingStep

\* A reply is counted for a ping that waits for it, and takes its timer away.
LEMMA ReceiveStep ==
  ASSUME TypeOK, CoreInv, NEW p \in net, NEW a \in Addr, Receive(p, a)
  PROVE  CoreInv' /\ (ClockInv => ClockInv')
  <1>1. p.stamp \in Stamp /\ p.idx \in Idx
    BY DEF TypeOK, WorkerTypeOK, Packet
  <1>2. a \in InWorker
    BY <1>1 DEF Receive, Finds, CoreInv, DoingMapLive
  <1>3. /\ wpc = "loop" /\ p.idx < task[a].total
        /\ task[a].status[p.idx] \in Open
        /\ timers' = [timers EXCEPT ![a][p.idx] = @ - 1]
        /\ EndPing(a, p.idx, Success, "notify")
        /\ UNCHANGED <<live, taskQueue, net, clock, cur, next>>
    BY DEF Receive, Finds, DelTimer, todoVars
  <1>4. task[a].status[p.idx] = Doing
    BY <1>1, <1>2, <1>3 DEF CoreInv, StartedInOrder, InTask, Open
  <1>5. timers[a][p.idx] = 1
    BY <1>1, <1>2, <1>3, <1>4 DEF CoreInv, TimersOwned
  <1>6. /\ timers' \in [Addr -> [Idx -> Int]] /\ timers'[a][p.idx] = 0
        /\ \A b \in Addr, j \in Idx :
             <<b, j>> # <<a, p.idx>> => timers'[b][j] = timers[b][j]
    BY <1>1, <1>3, <1>5 DEF TypeOK, WorkerTypeOK
  <1>7. Success \in Final
    BY DEF Final, Status, Open, Success, Uninited, Doing
  <1> QED BY <1>1, <1>2, <1>3, <1>6, <1>7, EndPingStep

\* A reply within its task is not read past the end.
LEMMA NeverPastEnd == ReplyIndexInBounds => ~ReadsPastEnd
  BY DEF ReadsPastEnd, ReceivePastEnd, Finds, ReplyIndexInBounds

\* A timer that fires belongs to a ping that still waits.
LEMMA HandleTimeoutStep ==
  ASSUME TypeOK, CoreInv, NEW a \in Addr, NEW i \in Idx, HandleTimeout(a, i)
  PROVE  CoreInv' /\ (ClockInv => ClockInv')
  <1>1. /\ wpc = "loop" /\ timers[a][i] > 0
        /\ timers' = [timers EXCEPT ![a][i] = @ - 1]
        /\ UNCHANGED <<live, taskQueue, net, clock, cur, next>>
    BY DEF HandleTimeout, todoVars
  <1>2. /\ a \in InWorker /\ i < task[a].total /\ task[a].status[i] = Doing
        /\ timers[a][i] = 1
    BY <1>1 DEF CoreInv, TimersOwned
  <1>3. /\ timers' \in [Addr -> [Idx -> Int]] /\ timers'[a][i] = 0
        /\ \A b \in Addr, j \in Idx :
             <<b, j>> # <<a, i>> => timers'[b][j] = timers[b][j]
    BY <1>1, <1>2 DEF TypeOK, WorkerTypeOK
  <1>4. task[a].status[i] \in Open /\ Timedout \in Final
    BY <1>2 DEF Open, Final, Status, Timedout, Uninited, Doing
  <1>5. EndPing(a, i, Timedout, "notify")
    BY <1>4 DEF HandleTimeout
  <1> QED BY <1>1, <1>2, <1>3, <1>4, <1>5, EndPingStep

(***************************************************************************)
(* The theorems.                                                           *)
(***************************************************************************)
\* Every step of either thread preserves CoreInv, unless it reads a reply past
\* the end of its task, and ClockInv, if the timestamp it gives is fresh.
LEMMA StepCoreInv ==
  ASSUME ~Reuse, TypeOK, RequestTracked, CoreInv, ~ReadsPastEnd, [Next]_vars
  PROVE  CoreInv' /\ (StampsFresh /\ ClockInv => ClockInv')
  <1>1. CASE NotifyEvent
    <2>1. CASE taskQueue = <<>>
      <3>1. UNCHANGED <<heapVars, taskQueue, responseQueue, workerVars>>
        BY <1>1, <2>1 DEF NotifyEvent, heapVars, workerVars, workerData
      <3> QED BY <3>1, AllFrame
    <2>2. CASE taskQueue # <<>> /\ AtCapacity
      BY <1>1, <2>2, DropBusyStep DEF NotifyEvent
    <2>3. CASE taskQueue # <<>> /\ ~AtCapacity
      BY <1>1, <2>3, AcceptStep DEF NotifyEvent
    <2> QED BY <2>1, <2>2, <2>3
  <1>2. CASE WorkerNext
    BY <1>1, <1>2, PingSentStep, PingNotSentStep, DoTaskReturnsStep,
       NotifyMasterStep, ReceiveStep, HandleTimeoutStep
    DEF WorkerNext, ReadsPastEnd
  <1>3. CASE HttpNext(Allocatable) /\ UNCHANGED workerVars
    <2>1. ASSUME NEW r \in Req, NEW a \in Allocatable, NEW n \in Sizes,
                 HandlePingReq(r, a, n, 0)
          PROVE  CoreInv' /\ (ClockInv => ClockInv')
      BY <1>3, <2>1, HandlePingReqStep, HttpAssumption
    <2>2. ASSUME NEW r \in Req, NEW a \in Allocatable, NEW c \in BadCodes,
                 HandlePingReq(r, a, 0, c)
          PROVE  CoreInv' /\ (ClockInv => ClockInv')
      BY <1>3, <2>2, HandlePingReqStep, HttpAssumption, TaskAssumption
    <2>3. CASE NotifyWorker \/ NotifySelf
      BY <1>3, <2>3, AllFrame
      DEF NotifyWorker, NotifySelf, todoVars, replyVars
    <2>4. CASE TryRespEvent
      BY <1>3, <2>4, TryRespEventStep
    <2> QED BY <1>3, <2>1, <2>2, <2>3, <2>4 DEF HttpNext
  <1>4. CASE UNCHANGED vars
    BY <1>4, AllFrame DEF vars, todoVars, replyVars
  <1> QED BY <1>2, <1>3, <1>4 DEF Next, Quiescent

\* Replies that are known are within the task they lead to.
LEMMA KnownInBounds == TypeOK /\ RepliesKnown => ReplyIndexInBounds
  <1> SUFFICES ASSUME TypeOK, RepliesKnown,
                      NEW p \in net, Accepts(p), doingMap[p.stamp] # NoTask
               PROVE  p.idx # task[doingMap[p.stamp]].total
    BY DEF ReplyIndexInBounds
  <1>1. p.stamp \in Stamp /\ p.idx < task[doingMap[p.stamp]].total
    BY DEF TypeOK, WorkerTypeOK, Packet, RepliesKnown
  <1>2. task[doingMap[p.stamp]].total \in Int
    BY <1>1, TaskAssumption
    DEF TypeOK, SharedTypeOK, WorkerTypeOK, TaskRecord
  <1> QED BY <1>1, <1>2

\* In a behaviour in which the worker gives no timestamp that is in use, the
\* inductive invariant holds in every state, whatever else its clock does
\* (notifyEventHandler, Task::setTimestamp).
THEOREM Inductive ==
  ASSUME ~Reuse
  PROVE  Spec /\ FreshStamps => []IndInv
  <1>1. Init => IndInv
    BY InitIndInv
  <1>2. TypeOK /\ RequestTracked /\ IndInv /\ [Next]_vars /\ [StampsFresh]_vars
          => IndInv'
    <2>1. CASE UNCHANGED vars
      BY <2>1, AllFrame DEF vars, todoVars, replyVars, IndInv
    <2>2. CASE StampsFresh
      BY <2>2, StepCoreInv, KnownInBounds, NeverPastEnd DEF IndInv, ClockInv
    <2> QED BY <2>1, <2>2
  <1> QED BY <1>1, <1>2, TypeCorrect, Tracked, PTL DEF Spec, FreshStamps

(***************************************************************************)
(* The same without a clock that advances, for tasks of one size: then a   *)
(* reply that is credited to another task still names a ping of it.        *)
(***************************************************************************)
\* What a step of the worker does to the response queue and to the replies.
LEMMA WorkerPushes ==
  ASSUME TypeOK, WorkerNext
  PROVE  /\ Members(responseQueue) \subseteq Members(responseQueue)'
         /\ \A p \in net' \ net :
              InDoTask /\ cur \in Addr /\ p = EchoReply(cur, next)
  <1>1. \/ responseQueue' = responseQueue
        \/ \E a \in Addr : responseQueue' = Append(responseQueue, a)
    <2>1. ASSUME NEW a \in Addr, NEW ret, OnComplete(a, ret)
          PROVE  \E b \in Addr : responseQueue' = Append(responseQueue, b)
      BY <2>1 DEF OnComplete
    <2>2. ASSUME NEW a \in Addr, NEW i, NEW x, NEW ret, EndPing(a, i, x, ret)
          PROVE  \/ responseQueue' = responseQueue
                 \/ \E b \in Addr : responseQueue' = Append(responseQueue, b)
      BY <2>1, <2>2 DEF EndPing
    <2>3. CASE NotifyEvent
      <3>1. CASE taskQueue = <<>>
        BY <2>3, <3>1 DEF NotifyEvent
      <3>2. CASE taskQueue # <<>>
        <4>1. Head(taskQueue) \in Addr
          BY <3>2 DEF TypeOK, SharedTypeOK
        <4> QED BY <2>3, <3>2, <4>1 DEF NotifyEvent, DropBusy, Accept
      <3> QED BY <3>1, <3>2
    <2>4. CASE PingNotSent
      <3>1. cur \in Addr
        BY <2>4 DEF PingNotSent, InDoTask, TypeOK, WorkerTypeOK
      <3> QED BY <2>2, <2>4, <3>1 DEF PingNotSent
    <2>5. CASE PingSent \/ DoTaskReturns \/ NotifyMaster
      BY <2>5 DEF PingSent, DoTaskReturns, NotifyMaster, replyVars
    <2>6. ASSUME NEW p \in net, NEW a \in Addr,
                 Receive(p, a) \/ ReceivePastEnd(p, a)
          PROVE  \/ responseQueue' = responseQueue
                 \/ \E b \in Addr : responseQueue' = Append(responseQueue, b)
      BY <2>1, <2>2, <2>6 DEF Receive, ReceivePastEnd
    <2>7. ASSUME NEW a \in Addr, NEW i \in Idx, HandleTimeout(a, i)
          PROVE  \/ responseQueue' = responseQueue
                 \/ \E b \in Addr : responseQueue' = Append(responseQueue, b)
      BY <2>2, <2>7 DEF HandleTimeout
    <2> QED BY <2>3, <2>4, <2>5, <2>6, <2>7 DEF WorkerNext
  <1>2. Members(responseQueue) \subseteq Members(responseQueue')
    BY <1>1, MembersOfAppend DEF TypeOK, SharedTypeOK
  <1>3. Members(responseQueue') = Members(responseQueue)'
    BY DEF Members
  <1>4. ASSUME NEW p \in net', p \notin net
        PROVE  InDoTask /\ cur \in Addr /\ p = EchoReply(cur, next)
    <2>1. PingSent
      BY <1>4 DEF WorkerNext, NotifyEvent, PingNotSent, DoTaskReturns, NotifyMaster,
                  Receive, ReceivePastEnd, HandleTimeout, workerData
    <2> QED BY <1>4, <2>1 DEF PingSent, InDoTask, TypeOK, WorkerTypeOK
  <1> QED BY <1>2, <1>3, <1>4

\* The timestamp of a clock that never returns a value twice is later than all
\* that are in use.
LEMMA StepFresh ==
  ASSUME ~Reuse, ClockAdvances, TypeOK, RequestTracked, CoreInv, StampsPast,
         [Next]_vars
  PROVE  StampsFresh
  <1> SUFFICES ASSUME NEW b \in InWorker', b \notin InWorker
               PROVE  task'[b].stamp \notin StampsInUse
    BY DEF StampsFresh
  <1>1. CASE WorkerNext
    <2>1. live' = live /\ Members(responseQueue) \subseteq Members(responseQueue)'
      BY <1>1, WorkerPushes
      DEF WorkerNext, NotifyEvent, PingSent, PingNotSent, DoTaskReturns,
          NotifyMaster, Receive, ReceivePastEnd, HandleTimeout, heapVars
    <2>2. b \in live /\ b \in Members(taskQueue) /\ b \notin Members(taskQueue)'
      BY <2>1 DEF InWorker
    <2>3. NotifyEvent /\ taskQueue # <<>>
      BY <1>1, <2>2 DEF WorkerNext, NotifyEvent, PingSent, PingNotSent, DoTaskReturns,
                       NotifyMaster, Receive, ReceivePastEnd, HandleTimeout, todoVars,
                       Members
    <2>4. b = Head(taskQueue)
      <3>1. taskQueue' = Tail(taskQueue)
        BY <2>3 DEF NotifyEvent
      <3>2. Members(taskQueue)' = Members(Tail(taskQueue))
        BY <3>1 DEF Members
      <3> QED BY <2>2, <2>3, <3>2, TakeTask
    <2>5. ~DropBusy(Head(taskQueue))
      <3>1. SUFFICES ASSUME responseQueue' = Append(responseQueue, b)
                     PROVE  FALSE
        BY <2>4 DEF DropBusy
      <3>2. Members(responseQueue') = Members(responseQueue) \cup {b}
        BY <2>2, <3>1, MembersOfAppend DEF TypeOK, SharedTypeOK
      <3> QED BY <3>2 DEF InWorker, Members
    <2>6. Accept(b)
      BY <2>3, <2>4, <2>5 DEF NotifyEvent
    <2>7. PICK now \in CurrentTime : task' = [task EXCEPT ![b].stamp = now]
      BY <2>6 DEF Accept
    <2>8. task'[b].stamp = clock + 1 /\ clock \in Int
      BY <2>2, <2>7, TaskAssumption
      DEF CurrentTime, TypeOK, SharedTypeOK, WorkerTypeOK, TaskRecord, Stamp
    <2>9. \A x \in StampsInUse : x \in Int /\ x <= clock
      BY TaskAssumption
      DEF StampsInUse, StampsPast, InWorker, TypeOK, SharedTypeOK, WorkerTypeOK,
          TaskRecord, Packet, Stamp
    <2> QED BY <2>8, <2>9
  <1>2. CASE HttpNext(Allocatable) /\ UNCHANGED workerVars
    <2>1. ASSUME NEW r \in Req, NEW a \in Allocatable, NEW n \in Sizes,
                 HandlePingReq(r, a, n, 0)
          PROVE  FALSE
      BY <1>2, <2>1, HandlePingReqStep, HttpAssumption
    <2>2. ASSUME NEW r \in Req, NEW a \in Allocatable, NEW c \in BadCodes,
                 HandlePingReq(r, a, 0, c)
          PROVE  FALSE
      BY <1>2, <2>2, HandlePingReqStep, HttpAssumption, TaskAssumption
    <2>3. CASE NotifyWorker \/ NotifySelf
      BY <2>3 DEF NotifyWorker, NotifySelf, heapVars, todoVars, replyVars, InWorker,
                  Members
    <2>4. CASE TryRespEvent
      BY <1>2, <2>4, TryRespEventStep
    <2> QED BY <1>2, <2>1, <2>2, <2>3, <2>4 DEF HttpNext
  <1>3. CASE UNCHANGED vars
    BY <1>3 DEF vars, heapVars, todoVars, replyVars, InWorker, Members
  <1> QED BY <1>1, <1>2, <1>3 DEF Next, Quiescent

\* So with such a clock the worker gives no timestamp that is in use, which is
\* what the runs with ClockAdvances assume of gettimeofday.
THEOREM AdvancingIsFresh ==
  ASSUME ~Reuse, ClockAdvances
  PROVE  Spec => FreshStamps
  <1>1. Init => IndInv
    BY InitIndInv
  <1>2. TypeOK /\ RequestTracked /\ IndInv /\ [Next]_vars => StampsFresh
    BY StepFresh DEF IndInv, ClockInv
  <1>3. TypeOK /\ RequestTracked /\ IndInv /\ [Next]_vars => IndInv'
    BY <1>2, StepCoreInv, KnownInBounds, NeverPastEnd DEF IndInv, ClockInv
  <1> QED BY <1>1, <1>2, <1>3, TypeCorrect, Tracked, PTL DEF Spec, FreshStamps

\* The size of a task that is not answered yet is one that was asked for.
LEMMA StepSizesKept ==
  ASSUME TypeOK, RequestTracked, SizesKept, [Next]_vars
  PROVE  SizesKept'
  <1>0. Pending \subseteq Addr
    BY DEF Pending, TypeOK, SharedTypeOK
  <1>1. CASE WorkerNext /\ UNCHANGED httpVars
    <2>1. /\ UNCHANGED live
          /\ \A a \in Addr : task'[a].total = task[a].total
          /\ Members(responseQueue) \subseteq Members(responseQueue)'
      BY <1>1, WorkerKeepsRequests, WorkerPushes DEF SameJob
    <2>2. Pending' \subseteq Pending
      BY <2>1 DEF Pending
    <2> QED BY <1>0, <2>1, <2>2 DEF SizesKept
  <1>2. ASSUME NEW r \in Req, NEW a \in Addr, NEW n, NEW code,
               HandlePingReq(r, a, n, code), code = 0 => n \in Sizes
        PROVE  SizesKept'
    <2>1. /\ a \notin live /\ live' = live \cup {a}
          /\ task' = [task EXCEPT ![a] = NewTask(n, code, r)]
          /\ IF code # 0 THEN responseQueue' = Append(responseQueue, a)
                         ELSE responseQueue' = responseQueue
      BY <1>2 DEF HandlePingReq, RequestTracked
    <2>2. /\ task'[a].total = n
          /\ \A b \in Addr \ {a} : task'[b] = task[b]
      BY <2>1 DEF NewTask, TypeOK, SharedTypeOK
    <2>3. /\ Members(Append(responseQueue, a)) = Members(responseQueue) \cup {a}
          /\ Members(responseQueue') = Members(responseQueue)'
      BY MembersOfAppend DEF Members, TypeOK, SharedTypeOK
    <2>4. ASSUME NEW b \in Pending' PROVE task'[b].total \in Sizes
      <3>1. CASE b = a
        <4>1. code = 0
          BY <2>1, <2>3, <2>4, <3>1 DEF Pending
        <4> QED BY <1>2, <2>2, <3>1, <4>1
      <3>2. CASE b # a
        <4>1. b \in Pending
          BY <2>1, <2>3, <2>4, <3>2 DEF Pending
        <4> QED BY <1>0, <2>2, <3>2, <4>1 DEF SizesKept
      <3> QED BY <3>1, <3>2
    <2> QED BY <2>4 DEF SizesKept
  <1>3. CASE TryRespEvent
    <2>1. Pending' \subseteq Pending
      <3>1. CASE responseQueue = <<>>
        BY <1>3, <3>1 DEF TryRespEvent, Pending, Members
      <3>2. CASE responseQueue # <<>>
        <4>1. /\ live' = live \ {Head(responseQueue)}
              /\ responseQueue' = Tail(responseQueue)
          BY <1>3, <3>2 DEF TryRespEvent
        <4>2. Members(responseQueue) = Members(Tail(responseQueue)) \cup {Head(responseQueue)}
          BY <3>2, MembersOfTail DEF TypeOK, SharedTypeOK
        <4>3. Members(responseQueue)' = Members(Tail(responseQueue))
          BY <4>1 DEF Members
        <4> QED BY <4>1, <4>2, <4>3 DEF Pending
      <3> QED BY <3>1, <3>2
    <2>2. UNCHANGED task
      BY <1>3 DEF TryRespEvent
    <2> QED BY <2>1, <2>2 DEF SizesKept
  <1>4. ASSUME UNCHANGED <<heapVars, responseQueue>>
        PROVE  SizesKept'
    BY <1>4 DEF SizesKept, Pending, Members, heapVars
  <1>5. CASE HttpNext(Allocatable)
    <2>1. ASSUME NEW c \in BadCodes PROVE c # 0
      BY HttpAssumption DEF ErrorCode, BusyCode
    <2> QED BY <1>2, <1>3, <1>4, <1>5, <2>1
            DEF HttpNext, Allocatable, NotifyWorker, NotifySelf, replyVars
  <1>6. CASE UNCHANGED vars
    BY <1>4, <1>6 DEF vars, replyVars
  <1> QED BY <1>1, <1>5, <1>6 DEF Next, Quiescent

\* If all tasks are of one size, an index below it is below that of any other.
LEMMA StepFitInv ==
  ASSUME EqualSizes, TypeOK, RequestTracked, CoreInv, FitInv, [Next]_vars
  PROVE  FitInv'
  <1>1. SizesKept'
    BY StepSizesKept DEF FitInv
  <1>2. ASSUME NEW p \in net', NEW n \in Sizes, Accepts(p)
        PROVE  p.idx < n
    <2>1. CASE p \in net
      BY <1>2, <2>1 DEF FitInv
    <2>2. CASE p \notin net
      <3>1. WorkerNext
        BY <2>2 DEF Next, Quiescent, vars, workerVars, workerData
      <3>2. InDoTask /\ p.idx = next
        BY <2>2, <3>1, WorkerPushes DEF EchoReply
      <3>3. cur \in InWorker /\ next < task[cur].total
        BY <3>2, PingToStart
      <3>4. task[cur].total \in Sizes
        BY <3>3 DEF InWorker, Pending, FitInv, SizesKept
      <3> QED BY <3>2, <3>3, <3>4 DEF EqualSizes
    <2> QED BY <2>1, <2>2
  <1> QED BY <1>1, <1>2 DEF FitInv, Accepts

\* Then the test of onReceive is never put to the test either.
LEMMA FitInBounds ==
  ASSUME TypeOK, CoreInv, FitInv
  PROVE  ReplyIndexInBounds
  <1> SUFFICES ASSUME NEW p \in net, Accepts(p), doingMap[p.stamp] # NoTask
               PROVE  p.idx # task[doingMap[p.stamp]].total
    BY DEF ReplyIndexInBounds
  <1> DEFINE a == doingMap[p.stamp]
  <1>1. a \in InWorker
    BY DEF CoreInv, DoingMapLive, TypeOK, WorkerTypeOK, Packet
  <1>2. task[a].total \in Sizes /\ task[a].total \in Int
    BY <1>1, TaskAssumption
    DEF FitInv, SizesKept, Pending, InWorker, TypeOK, SharedTypeOK, TaskRecord
  <1> QED BY <1>2 DEF FitInv

\* In the initial states there is no task and no reply of ours.
LEMMA InitFitInv == Init => FitInv
  BY WorkerAssumption
  DEF Init, SharedInit, WorkerInit, FitInv, SizesKept, Pending, Accepts

\* The worker's bookkeeping, and the index test, when timestamps are fresh or
\* all tasks are of one size.
THEOREM CoreInductive ==
  ASSUME ~Reuse
  PROVE  Spec /\ (FreshStamps \/ EqualSizes) => [](CoreInv /\ ReplyIndexInBounds)
  <1>1. Spec /\ FreshStamps => [](CoreInv /\ ReplyIndexInBounds)
    <2>1. TypeOK /\ IndInv => CoreInv /\ ReplyIndexInBounds
      BY KnownInBounds DEF IndInv, ClockInv
    <2> QED BY <2>1, Inductive, TypeCorrect, PTL
  <1>2. EqualSizes => (Spec => [](CoreInv /\ ReplyIndexInBounds))
    <2> SUFFICES ASSUME EqualSizes
                 PROVE  Spec => [](CoreInv /\ ReplyIndexInBounds)
      OBVIOUS
    <2>1. Init => CoreInv /\ FitInv
      BY InitIndInv, InitFitInv DEF IndInv
    <2>2. TypeOK /\ RequestTracked /\ CoreInv /\ FitInv /\ [Next]_vars
            => CoreInv' /\ FitInv'
      BY StepCoreInv, StepFitInv, FitInBounds, NeverPastEnd
    <2>3. TypeOK /\ CoreInv /\ FitInv => CoreInv /\ ReplyIndexInBounds
      BY FitInBounds
    <2> QED BY <2>1, <2>2, <2>3, TypeCorrect, Tracked, PTL DEF Spec
  <1> QED BY <1>1, <1>2, PTL

(***************************************************************************)
(* The safety properties.                                                  *)
(***************************************************************************)
\* With any clock and tasks of any sizes, only a reply that is read past the
\* end of pingArray lets a task be handed back twice, a ping be counted twice,
\* a slot be lost or a timer be left behind (TaskWorker::onReceive).
THEOREM BreaksOnlyPastEnd ==
  ASSUME ~Reuse
  PROVE  Spec => OnlyPastEndBreaks
  <1>1. TypeOK /\ RequestTracked /\ [Next]_vars
          => [CoreInv => CoreInv' \/ ReadsPastEnd]_vars
    BY StepCoreInv
  <1> QED BY <1>1, TypeCorrect, Tracked, PTL DEF Spec, OnlyPastEndBreaks

\* A task has one owner at a time, so none is answered or deleted twice.
THEOREM Owned ==
  ASSUME ~Reuse
  PROVE  Spec /\ (FreshStamps \/ EqualSizes) => []OneOwner
  <1>1. CoreInv => OneOwner
    BY DEF CoreInv
  <1> QED BY <1>1, CoreInductive, PTL

\* doneCount counts each ping once (the assertion of Task.h).
THEOREM CountedOnce ==
  ASSUME ~Reuse
  PROVE  Spec /\ (FreshStamps \/ EqualSizes) => []DoneCountExact
  <1>1. CoreInv => DoneCountExact
    BY DEF CoreInv
  <1> QED BY <1>1, CoreInductive, PTL

\* doingCount counts the tasks in the worker's hands, and never exceeds the
\* capacity.
THEOREM SlotsCounted ==
  ASSUME ~Reuse
  PROVE  Spec /\ (FreshStamps \/ EqualSizes) => []SlotsExact
  <1>1. CoreInv => SlotsExact
    BY DEF CoreInv
  <1> QED BY <1>1, CoreInductive, PTL

\* No timer outlives its task.
THEOREM TimersSafe ==
  ASSUME ~Reuse
  PROVE  Spec /\ (FreshStamps \/ EqualSizes) => []TimersOwned
  <1>1. CoreInv => TimersOwned
    BY DEF CoreInv
  <1> QED BY <1>1, CoreInductive, PTL

\* As long as no task is given a timestamp that another task in the worker's
\* hands or a reply under way carries, onComplete finds each task where it was
\* put: with that condition the branch TaskWorker.cpp:234 calls impossible is.
THEOREM MapExact ==
  ASSUME ~Reuse
  PROVE  Spec /\ FreshStamps => []DoingMapFinds
  <1>1. IndInv => DoingMapFinds
    BY DEF IndInv, ClockInv
  <1> QED BY <1>1, Inductive, PTL

\* No entry of doingMap leads to a task that has been handed back.
THEOREM MapLive ==
  ASSUME ~Reuse
  PROVE  Spec /\ (FreshStamps \/ EqualSizes) => []DoingMapLive
  <1>1. CoreInv => DoingMapLive
    BY DEF CoreInv
  <1> QED BY <1>1, CoreInductive, PTL

\* Under the same condition a reply is only credited to the task whose ping it
\* answers, and to a ping within its pingArray (onReceive).
THEOREM RepliesSafe ==
  ASSUME ~Reuse
  PROVE  Spec /\ FreshStamps => [](ReplyReachesItsTask /\ ReplyIndexInBounds)
  <1>1. TypeOK /\ IndInv => ReplyReachesItsTask /\ ReplyIndexInBounds
    BY KnownInBounds
    DEF IndInv, ClockInv, RepliesKnown, ReplyReachesItsTask
  <1> QED BY <1>1, Inductive, TypeCorrect, PTL

\* The index test of onReceive, though one too weak, is never put to the test.
THEOREM IndexSafe ==
  ASSUME ~Reuse
  PROVE  Spec /\ (FreshStamps \/ EqualSizes) => []ReplyIndexInBounds
  <1> QED BY CoreInductive, PTL

\* The worker is the only one to write to the tasks in its hands, and writes to
\* no other, but to a task it takes.
LEMMA StepHandedBack ==
  ASSUME TypeOK, CoreInv, ReplyIndexInBounds, [Next]_vars,
         NEW a \in Members(responseQueue)
  PROVE  task'[a] = task[a]
  <1>1. a \in Addr /\ a \in live /\ a \notin InWorker /\ a \notin Members(taskQueue)
    BY DEF CoreInv, OneOwner, InWorker, TypeOK, SharedTypeOK
  <1>2. ASSUME NEW b \in Addr, b # a, NEW v, task' = [task EXCEPT ![b] = v]
        PROVE  task'[a] = task[a]
    BY <1>1, <1>2 DEF TypeOK, SharedTypeOK
  <1>3. CASE NotifyEvent
    <2>1. CASE taskQueue = <<>>
      BY <1>3, <2>1 DEF NotifyEvent
    <2>2. CASE taskQueue # <<>>
      <3>1. Head(taskQueue) \in Addr /\ Head(taskQueue) # a
        BY <2>2, TakeTask
      <3> QED BY <1>1, <1>3, <2>2, <3>1
              DEF NotifyEvent, DropBusy, Accept, TypeOK, SharedTypeOK
    <2> QED BY <2>1, <2>2
  <1>4. CASE PingSent
    <2>1. cur \in InWorker
      BY <1>4, PingToStart DEF PingSent
    <2> QED BY <1>1, <1>4, <2>1 DEF PingSent, TypeOK, SharedTypeOK
  <1>5. CASE PingNotSent
    <2>1. cur \in InWorker
      BY <1>5, PingToStart DEF PingNotSent
    <2> QED BY <1>1, <1>5, <2>1 DEF PingNotSent, EndPing, TypeOK, SharedTypeOK
  <1>6. ASSUME NEW p \in net, NEW b \in Addr, Receive(p, b)
        PROVE  task'[a] = task[a]
    <2>1. p.stamp \in Stamp
      BY DEF TypeOK, WorkerTypeOK, Packet
    <2>2. b \in InWorker
      BY <1>6, <2>1 DEF Receive, Finds, CoreInv, DoingMapLive
    <2> QED BY <1>1, <1>6, <2>2 DEF Receive, EndPing, TypeOK, SharedTypeOK
  <1>7. ASSUME NEW b \in Addr, NEW i \in Idx, HandleTimeout(b, i)
        PROVE  task'[a] = task[a]
    <2>1. b \in InWorker
      BY <1>7 DEF HandleTimeout, CoreInv, TimersOwned
    <2> QED BY <1>1, <1>7, <2>1
            DEF HandleTimeout, EndPing, TypeOK, SharedTypeOK
  <1>8. CASE WorkerNext
    BY <1>3, <1>4, <1>5, <1>6, <1>7, <1>8, NeverPastEnd
    DEF ReadsPastEnd, WorkerNext, DoTaskReturns, NotifyMaster, heapVars
  <1>9. CASE HttpNext(Allocatable)
    <2>1. ASSUME NEW r \in Req, NEW b \in Allocatable, NEW n, NEW c,
                 HandlePingReq(r, b, n, c)
          PROVE  task'[a] = task[a]
      BY <1>1, <2>1
      DEF HandlePingReq, Allocatable, TypeOK, SharedTypeOK
    <2> QED BY <1>9, <2>1
            DEF HttpNext, NotifyWorker, NotifySelf, TryRespEvent, heapVars
  <1>10. CASE UNCHANGED vars
    BY <1>10 DEF vars, heapVars
  <1> QED BY <1>8, <1>9, <1>10 DEF Next, Quiescent

\* The worker writes nothing to a task it has handed back, so the HTTP thread
\* reads its pings without a lock.
THEOREM HandedBack ==
  ASSUME ~Reuse
  PROVE  Spec /\ (FreshStamps \/ EqualSizes) => HandedBackUntouched
  <1>1. TypeOK /\ CoreInv /\ ReplyIndexInBounds /\ [Next]_vars =>
          [\A a \in Members(responseQueue) \cap Members(responseQueue') :
             task'[a] = task[a]]_vars
    BY StepHandedBack
  <1> QED BY <1>1, CoreInductive, TypeCorrect, PTL DEF Spec, HandedBackUntouched

-----------------------------------------------------------------------------
(***************************************************************************)
(* XPing implements PingService: what the two threads do to a request is   *)
(* what the service promises its clients.  The proof needs no more of the  *)
(* clock than CoreInv does.                                                *)
(***************************************************************************)

(***************************************************************************)
(* A step of the worker, as the tasks see it.                              *)
(***************************************************************************)
\* What is reported of a ping.
LEMMA VerdictOf ==
  \A s \in Status :
    /\ s \in Open => Verdict(s) = "waiting"
    /\ s = Success <=> Verdict(s) = "alive"
    /\ s \in Final => Verdict(s) # "waiting"
    /\ s \in Final \ {Success} => Verdict(s) = "lost"
  <1> SUFFICES ASSUME NEW s \in Status
               PROVE  /\ s \in Open => Verdict(s) = "waiting"
                      /\ s = Success <=> Verdict(s) = "alive"
                      /\ s \in Final => Verdict(s) # "waiting"
                      /\ s \in Final \ {Success} => Verdict(s) = "lost"
    OBVIOUS
  <1>1. CASE s \in Open
    <2>1. s # Success /\ s \notin Final
      BY <1>1 DEF Open, Final, Success, Uninited, Doing
    <2>2. Verdict(s) = "waiting"
      BY <1>1, <2>1 DEF Verdict
    <2> QED BY <2>1, <2>2
  <1>2. CASE s = Success
    <2>1. s \notin Open
      BY <1>2 DEF Open, Success, Uninited, Doing
    <2> QED BY <1>2, <2>1 DEF Verdict
  <1>3. CASE s \notin Open /\ s # Success
    BY <1>3 DEF Verdict
  <1> QED BY <1>1, <1>2, <1>3

\* u is t, but for what no client is told.
Alike(u, t) ==
  /\ u.req = t.req /\ u.total = t.total /\ u.error = t.error /\ u.done = t.done
  /\ \A i \in Idx : Verdict(u.status[i]) = Verdict(t.status[i])

\* Nothing a client could see.
Unseen ==
  /\ UNCHANGED responseQueue
  /\ \A a \in live : Alike(task'[a], task[a])

\* A task is turned away before any of its pings is started.
Drops(a) ==
  /\ a \in Members(taskQueue)
  /\ AtCapacity /\ wpc = "loop"
  /\ task' = [task EXCEPT ![a].error = BusyCode]
  /\ responseQueue' = Append(responseQueue, a)

\* Ping i of a task ends with status s, and if it is the last one the task goes
\* back.
Ends(a, i, s) ==
  /\ a \in InWorker /\ i < task[a].total /\ task[a].status[i] \in Open
  /\ task' = [task EXCEPT ![a] = CountDone(@, i, s)]
  /\ responseQueue' = IF IsComplete(task'[a]) THEN Append(responseQueue, a)
                                              ELSE responseQueue

WorkerEffect ==
  \/ Unseen
  \/ \E a \in Addr : Drops(a)
  \/ \E a \in Addr, i \in Idx, s \in Final : Ends(a, i, s)

\* Every step of the worker is one of these.
LEMMA WorkerSteps ==
  ASSUME TypeOK, CoreInv, ReplyIndexInBounds, WorkerNext
  PROVE  WorkerEffect
  <1>0. live \subseteq Addr /\ InWorker \subseteq live
    BY DEF InWorker, TypeOK, SharedTypeOK
  <1>1. ASSUME NEW a \in Addr, NEW i \in Idx, NEW s \in Final, NEW ret,
               EndPing(a, i, s, ret), a \in InWorker, i < task[a].total,
               task[a].status[i] \in Open
        PROVE  WorkerEffect
    <2>1. Ends(a, i, s)
      BY <1>1 DEF Ends, EndPing, OnComplete
    <2> QED BY <2>1 DEF WorkerEffect
  <1>2. ASSUME UNCHANGED <<task, responseQueue>>
        PROVE  WorkerEffect
    BY <1>2 DEF WorkerEffect, Unseen, Alike
  <1>3. CASE NotifyEvent
    <2>1. CASE taskQueue = <<>>
      BY <1>2, <1>3, <2>1 DEF NotifyEvent
    <2>2. CASE taskQueue # <<>>
      <3> DEFINE a == Head(taskQueue)
      <3>1. a \in Addr /\ a \in Members(taskQueue) /\ wpc = "loop"
        BY <1>3, <2>2, MembersOfTail DEF NotifyEvent, TypeOK, SharedTypeOK
      <3>2. CASE AtCapacity
        <4>1. Drops(a)
          BY <1>3, <2>2, <3>1, <3>2 DEF NotifyEvent, DropBusy, Drops
        <4> QED BY <3>1, <4>1 DEF WorkerEffect
      <3>3. CASE ~AtCapacity
        <4>1. PICK now \in CurrentTime : task' = [task EXCEPT ![a].stamp = now]
          BY <1>3, <2>2, <3>3 DEF NotifyEvent, Accept
        <4>2. \A t \in TaskRecord : Alike([t EXCEPT !.stamp = now], t)
          BY DEF Alike, TaskRecord
        <4>3. \A t \in TaskRecord : Alike(t, t)
          BY DEF Alike
        <4>4. UNCHANGED responseQueue
          BY <1>3, <2>2, <3>3 DEF NotifyEvent, Accept
        <4>5. \A b \in live : Alike(task'[b], task[b])
          BY <1>0, <4>1, <4>2, <4>3 DEF TypeOK, SharedTypeOK
        <4> QED BY <4>4, <4>5 DEF WorkerEffect, Unseen
      <3> QED BY <3>2, <3>3
    <2> QED BY <2>1, <2>2
  <1>4. CASE PingSent
    <2>1. /\ cur \in InWorker /\ cur \in Addr /\ next \in Idx
          /\ task[cur].status[next] = Uninited
      BY <1>4, PingToStart DEF PingSent
    <2>2. /\ task' = [task EXCEPT ![cur].status[next] = Doing]
          /\ UNCHANGED responseQueue
      BY <1>4 DEF PingSent, replyVars
    <2>3. task[cur] \in TaskRecord
      BY <2>1 DEF TypeOK, SharedTypeOK
    <2>4. Alike([task[cur] EXCEPT !.status[next] = Doing], task[cur])
      <3> DEFINE t == task[cur]
                 u == [t EXCEPT !.status[next] = Doing]
      <3>1. /\ u.req = t.req /\ u.total = t.total /\ u.error = t.error
            /\ u.done = t.done /\ u.status = [t.status EXCEPT ![next] = Doing]
        BY <2>3 DEF TaskRecord
      <3>2. t.status \in [Idx -> Status]
        BY <2>3 DEF TaskRecord
      <3>3. Verdict(Doing) = Verdict(Uninited)
        BY VerdictOf DEF Open, Status
      <3>4. \A i \in Idx : Verdict(u.status[i]) = Verdict(t.status[i])
        BY <2>1, <3>1, <3>2, <3>3
      <3> QED BY <3>1, <3>4 DEF Alike
    <2>5. \A t \in TaskRecord : Alike(t, t)
      BY DEF Alike
    <2>6. \A b \in live : Alike(task'[b], task[b])
      BY <1>0, <2>1, <2>2, <2>4, <2>5 DEF TypeOK, SharedTypeOK
    <2> QED BY <2>2, <2>6 DEF WorkerEffect, Unseen
  <1>5. CASE PingNotSent
    <2>1. /\ cur \in InWorker /\ cur \in Addr /\ next \in Idx
          /\ next < task[cur].total /\ task[cur].status[next] = Uninited
      BY <1>5, PingToStart DEF PingNotSent
    <2>2. task[cur].status[next] \in Open /\ SendError \in Final
      BY <2>1 DEF Open, Final, Status, SendError, Uninited, Doing
    <2>3. EndPing(cur, next, SendError, "notifyInTask")
      BY <1>5, <2>2 DEF PingNotSent
    <2> QED BY <1>1, <2>1, <2>2, <2>3
  <1>6. CASE DoTaskReturns \/ NotifyMaster
    BY <1>2, <1>6 DEF DoTaskReturns, NotifyMaster, heapVars, replyVars
  <1>7. ASSUME NEW p \in net, NEW a \in Addr, Receive(p, a)
        PROVE  WorkerEffect
    <2>1. p.stamp \in Stamp /\ p.idx \in Idx
      BY DEF TypeOK, WorkerTypeOK, Packet
    <2>2. a \in InWorker
      BY <1>7, <2>1 DEF Receive, Finds, CoreInv, DoingMapLive
    <2>3. Success \in Final
      BY DEF Final, Status, Open, Success, Uninited, Doing
    <2> QED BY <1>1, <1>7, <2>1, <2>2, <2>3 DEF Receive
  <1>8. ASSUME NEW a \in Addr, NEW i \in Idx, HandleTimeout(a, i)
        PROVE  WorkerEffect
    <2>1. a \in InWorker /\ i < task[a].total /\ task[a].status[i] = Doing
      BY <1>8 DEF HandleTimeout, CoreInv, TimersOwned
    <2>2. task[a].status[i] \in Open /\ Timedout \in Final
      BY <2>1 DEF Open, Final, Status, Timedout, Uninited, Doing
    <2>3. EndPing(a, i, Timedout, "notify")
      BY <1>8, <2>2 DEF HandleTimeout
    <2> QED BY <1>1, <2>1, <2>2, <2>3
  <1> QED BY <1>3, <1>4, <1>5, <1>6, <1>7, <1>8, NeverPastEnd
          DEF ReadsPastEnd, WorkerNext

(***************************************************************************)
(* The outcome of a task.                                                  *)
(***************************************************************************)
\* Ending a ping leaves the error and the size of its task.
LEMMA EndsTask ==
  ASSUME TypeOK, NEW a \in Addr, NEW i \in Idx, NEW s \in Final, Ends(a, i, s)
  PROVE  /\ \A b \in Addr \ {a} : task'[b] = task[b]
         /\ task'[a].error = task[a].error /\ task'[a].total = task[a].total
         /\ task'[a].req = task[a].req
         /\ task'[a].status = [task[a].status EXCEPT ![i] = s]
  <1>1. task[a] \in TaskRecord
    BY DEF TypeOK, SharedTypeOK
  <1>2. task'[a] = CountDone(task[a], i, s)
    BY DEF Ends, TypeOK, SharedTypeOK
  <1>3. \A b \in Addr \ {a} : task'[b] = task[b]
    BY DEF Ends, TypeOK, SharedTypeOK
  <1> QED BY <1>1, <1>2, <1>3 DEF CountDone, TaskRecord

\* Every step keeps to the outcomes there are.
LEMMA StepOutcomes ==
  ASSUME TypeOK, RequestTracked, CoreInv, ReplyIndexInBounds, Outcomes,
         [Next]_vars
  PROVE  Outcomes'
  <1>0. /\ live \subseteq Addr /\ Pending \subseteq live
        /\ Members(responseQueue) \subseteq live
        /\ responseQueue \in Seq(Addr)
        /\ \A t, u : Alike(u, t) => u.error = t.error /\ (IsComplete(u) <=> IsComplete(t))
                                    /\ u.total = t.total
    BY DEF Pending, TypeOK, SharedTypeOK, CoreInv, OneOwner, Alike, IsComplete
  <1>1. CASE WorkerNext /\ UNCHANGED httpVars
    <2>0. UNCHANGED live
      BY <1>1, WorkerKeepsRequests
    <2>1. CASE Unseen
      <3>1. Pending' = Pending /\ Members(responseQueue)' = Members(responseQueue)
        BY <2>0, <2>1 DEF Unseen, Pending, Members
      <3> QED BY <1>0, <2>1, <3>1 DEF Unseen, Outcomes
    <2>2. ASSUME NEW a \in Addr, Drops(a) PROVE Outcomes'
      <3>1. Members(responseQueue)' = Members(responseQueue) \cup {a}
        <4>1. Members(responseQueue') = Members(responseQueue) \cup {a}
          BY <1>0, <2>2, MembersOfAppend DEF Drops
        <4> QED BY <4>1 DEF Members
      <3>2. Pending' = Pending \ {a}
        BY <2>0, <3>1 DEF Pending
      <3>3. /\ task'[a].error = BusyCode
            /\ \A b \in Addr \ {a} : task'[b] = task[b]
        BY <2>2 DEF Drops, TypeOK, SharedTypeOK, TaskRecord
      <3>4. BusyCode # 0
        BY DEF BusyCode
      <3> QED BY <1>0, <3>1, <3>2, <3>3, <3>4 DEF Outcomes
    <2>3. ASSUME NEW a \in Addr, NEW i \in Idx, NEW s \in Final, Ends(a, i, s)
          PROVE  Outcomes'
      <3>1. /\ \A b \in Addr \ {a} : task'[b] = task[b]
            /\ task'[a].error = task[a].error
        BY <2>3, EndsTask
      <3>2. a \in Pending /\ a \notin Members(responseQueue)
        BY <2>3 DEF Ends, InWorker, Pending
      <3>3. CASE IsComplete(task'[a])
        <4>1. Members(responseQueue)' = Members(responseQueue) \cup {a}
          <5>1. Members(responseQueue') = Members(responseQueue) \cup {a}
            BY <1>0, <2>3, <3>3, MembersOfAppend DEF Ends
          <5> QED BY <5>1 DEF Members
        <4>2. Pending' = Pending \ {a}
          BY <2>0, <4>1 DEF Pending
        <4> QED BY <1>0, <3>1, <3>3, <4>1, <4>2 DEF Outcomes
      <3>4. CASE ~IsComplete(task'[a])
        <4>1. Members(responseQueue)' = Members(responseQueue) /\ Pending' = Pending
          BY <2>0, <2>3, <3>4 DEF Ends, Members, Pending
        <4> QED BY <1>0, <3>1, <3>2, <3>4, <4>1 DEF Outcomes
      <3> QED BY <3>3, <3>4
    <2> QED BY <1>1, <2>1, <2>2, <2>3, WorkerSteps DEF WorkerEffect
  <1>2. ASSUME NEW r \in Req, NEW a \in Addr, NEW n \in 0..MaxServers, NEW code,
               HandlePingReq(r, a, n, code)
        PROVE  Outcomes'
    <2>1. /\ a \notin live /\ live' = live \cup {a}
          /\ task' = [task EXCEPT ![a] = NewTask(n, code, r)]
          /\ IF code # 0 THEN responseQueue' = Append(responseQueue, a)
                         ELSE responseQueue' = responseQueue
      BY <1>2 DEF HandlePingReq, RequestTracked
    <2>2. /\ task'[a] = NewTask(n, code, r)
          /\ \A b \in live : task'[b] = task[b]
      BY <1>0, <2>1 DEF TypeOK, SharedTypeOK
    <2>3. /\ NewTask(n, code, r).error = code
          /\ NewTask(n, code, r).total > 0 => ~IsComplete(NewTask(n, code, r))
      BY DEF NewTask, IsComplete
    <2>4. CASE code # 0
      <3>1. Members(responseQueue)' = Members(responseQueue) \cup {a}
        <4>1. Members(responseQueue') = Members(responseQueue) \cup {a}
          BY <1>0, <2>1, <2>4, MembersOfAppend
        <4> QED BY <4>1 DEF Members
      <3>2. Pending' = Pending
        BY <2>1, <3>1 DEF Pending
      <3> QED BY <1>0, <2>2, <2>3, <2>4, <3>1, <3>2 DEF Outcomes
    <2>5. CASE code = 0
      <3>1. Members(responseQueue)' = Members(responseQueue)
        BY <2>1, <2>5 DEF Members
      <3>2. Pending' \subseteq Pending \cup {a}
        BY <2>1, <3>1 DEF Pending
      <3> QED BY <1>0, <2>2, <2>3, <2>5, <3>1, <3>2 DEF Outcomes
    <2> QED BY <2>4, <2>5
  <1>3. CASE TryRespEvent
    <2>1. CASE responseQueue = <<>>
      BY <1>3, <2>1 DEF TryRespEvent, Outcomes, Pending, Members
    <2>2. CASE responseQueue # <<>>
      <3>1. /\ live' = live \ {Head(responseQueue)}
            /\ responseQueue' = Tail(responseQueue) /\ UNCHANGED task
        BY <1>3, <2>2 DEF TryRespEvent
      <3>2. Members(responseQueue) = Members(Tail(responseQueue)) \cup {Head(responseQueue)}
        BY <1>0, <2>2, MembersOfTail
      <3>3. Members(responseQueue)' = Members(Tail(responseQueue))
        BY <3>1 DEF Members
      <3>4. Pending' \subseteq Pending
        BY <3>1, <3>2, <3>3 DEF Pending
      <3> QED BY <3>1, <3>2, <3>3, <3>4 DEF Outcomes
    <2> QED BY <2>1, <2>2
  <1>4. ASSUME UNCHANGED <<heapVars, responseQueue>>
        PROVE  Outcomes'
    BY <1>4 DEF Outcomes, Pending, Members, heapVars
  <1>5. CASE HttpNext(Allocatable)
    <2>1. Sizes \subseteq 0..MaxServers /\ 0 \in 0..MaxServers
      BY HttpAssumption, TaskAssumption
    <2> QED BY <1>2, <1>3, <1>4, <1>5, <2>1
            DEF HttpNext, Allocatable, NotifyWorker, NotifySelf, replyVars
  <1>6. CASE UNCHANGED vars
    BY <1>4, <1>6 DEF vars, replyVars
  <1> QED BY <1>1, <1>5, <1>6 DEF Next, Quiescent

(***************************************************************************)
(* Requests and tasks.                                                     *)
(***************************************************************************)
\* Every step keeps one task for each request that waits for its answer.
LEMMA StepOneTaskEach ==
  ASSUME TypeOK, RequestTracked, CoreInv, OneTaskEach, [Next]_vars
  PROVE  OneTaskEach'
  <1>0. live \subseteq Addr /\ Members(responseQueue) \subseteq live
    BY DEF TypeOK, SharedTypeOK, CoreInv, OneOwner
  <1>1. CASE WorkerNext /\ UNCHANGED httpVars
    <2>1. UNCHANGED live /\ \A a \in live : task'[a].req = task[a].req
      BY <1>0, <1>1, WorkerKeepsRequests DEF SameJob
    <2> QED BY <1>1, <2>1 DEF OneTaskEach, httpVars
  <1>2. ASSUME NEW r \in Req, NEW a \in Addr, NEW n, NEW code,
               HandlePingReq(r, a, n, code)
        PROVE  OneTaskEach'
    <2>1. /\ a \notin live /\ live' = live \cup {a} /\ r \notin arrived
          /\ arrived' = arrived \cup {r} /\ UNCHANGED reply
          /\ task' = [task EXCEPT ![a] = NewTask(n, code, r)]
      BY <1>2 DEF HandlePingReq, RequestTracked
    <2>2. /\ task'[a].req = r
          /\ \A b \in live : task'[b] = task[b]
      BY <1>0, <2>1 DEF NewTask, TypeOK, SharedTypeOK
    <2>3. \A b \in live : task[b].req \in arrived /\ task[b].req # r
      BY <2>1 DEF OneTaskEach
    <2>4. \A b, c \in live' : task'[b].req = task'[c].req => b = c
      BY <2>1, <2>2, <2>3 DEF OneTaskEach
    <2>5. \A b \in live' : task'[b].req \in arrived' /\ reply'[task'[b].req] = NoReply
      BY <2>1, <2>2, <2>3 DEF OneTaskEach
    <2>6. \A q \in arrived' : reply'[q] = NoReply => \E b \in live' : task'[b].req = q
      BY <2>1, <2>2 DEF OneTaskEach
    <2> QED BY <2>1, <2>4, <2>5, <2>6 DEF OneTaskEach
  <1>3. CASE TryRespEvent
    <2>1. CASE responseQueue = <<>>
      BY <1>3, <2>1 DEF TryRespEvent, OneTaskEach
    <2>2. CASE responseQueue # <<>>
      <3> DEFINE a == Head(responseQueue)
      <3>1. a \in live
        BY <1>0, <2>2, MembersOfTail DEF TypeOK, SharedTypeOK
      <3>2. doingRequest[a] = task[a].req /\ task[a].req \in arrived
        BY <1>0, <3>1 DEF RequestTracked, OneTaskEach
      <3>3. task[a].req \in Req /\ task[a].req # NoReq
        BY <3>2, TaskAssumption DEF TypeOK, HttpTypeOK
      <3>4. /\ live' = live \ {a} /\ UNCHANGED <<task, arrived>>
            /\ reply' = [reply EXCEPT ![task[a].req] = Response(task[a])]
        BY <1>3, <2>2, <3>2, <3>3 DEF TryRespEvent
      <3>5. Response(task[a]) \in Reply
        BY <1>0, <3>1, TaskTypes DEF TypeOK, SharedTypeOK
      <3>6. Response(task[a]) # NoReply
        BY <3>5, HttpAssumption
      <3> HIDE DEF a
      <3>7. /\ reply'[task[a].req] # NoReply
            /\ \A q \in Req : q # task[a].req => reply'[q] = reply[q]
        BY <3>3, <3>4, <3>6 DEF TypeOK, HttpTypeOK
      <3>8. arrived \subseteq Req
        BY DEF TypeOK, HttpTypeOK
      <3>9. \A b, c \in live' : task'[b].req = task'[c].req => b = c
        BY <3>4 DEF OneTaskEach
      <3>10. \A b \in live' : task'[b].req \in arrived' /\ reply'[task'[b].req] = NoReply
        BY <3>1, <3>4, <3>7, <3>8 DEF OneTaskEach
      <3>11. ASSUME NEW q \in arrived', reply'[q] = NoReply
             PROVE  \E b \in live' : task'[b].req = q
        <4>1. q # task[a].req /\ reply[q] = NoReply
          BY <3>4, <3>7, <3>8, <3>11
        <4>2. PICK b \in live : task[b].req = q
          BY <3>4, <4>1 DEF OneTaskEach
        <4> QED BY <3>4, <4>1, <4>2
      <3>12. \A q \in Req \ arrived' : reply'[q] = NoReply
        BY <3>2, <3>4, <3>7 DEF OneTaskEach
      <3> QED BY <3>9, <3>10, <3>11, <3>12 DEF OneTaskEach
    <2> QED BY <2>1, <2>2
  <1>4. ASSUME UNCHANGED <<heapVars, arrived, reply>>
        PROVE  OneTaskEach'
    BY <1>4 DEF OneTaskEach, heapVars
  <1>5. CASE HttpNext(Allocatable)
    BY <1>2, <1>3, <1>4, <1>5
    DEF HttpNext, Allocatable, NotifyWorker, NotifySelf
  <1>6. CASE UNCHANGED vars
    BY <1>4, <1>6 DEF vars, httpVars
  <1> QED BY <1>1, <1>5, <1>6 DEF Next, Quiescent

(***************************************************************************)
(* What the clients see.                                                   *)
(***************************************************************************)
\* The service counts as the worker does.
LEMMA SameNames ==
  /\ Service!Idx = Idx /\ Service!BusyCode = BusyCode
  /\ \A S : Service!Cardinality(S) = Cardinality(S)
  BY DEF Service!Idx, Idx, Service!BusyCode, BusyCode, Service!Cardinality, Cardinality

\* A request is what its answer or its task says of it.
LifeFacts ==
  /\ \A r \in Req : reply[r] # NoReply => Life[r] = Service!Closed(reply[r])
  /\ \A r \in Req \ arrived : Life[r] = Service!New
  /\ \A a \in live : Life[task[a].req] = Seen(task[a])

LEMMA LifeOf == TypeOK /\ RequestTracked /\ OneTaskEach => LifeFacts
  <1> SUFFICES ASSUME TypeOK, RequestTracked, OneTaskEach
               PROVE  LifeFacts
    OBVIOUS
  <1>1. \A r \in Req : reply[r] # NoReply => Life[r] = Service!Closed(reply[r])
    <2> SUFFICES ASSUME NEW r \in Req, reply[r] # NoReply
                 PROVE  Life[r] = Service!Closed(reply[r])
      OBVIOUS
    <2>1. r \in arrived
      BY DEF OneTaskEach
    <2> QED BY <2>1 DEF Life, Service!Closed
  <1>2. \A r \in Req \ arrived : Life[r] = Service!New
    BY DEF Life, Service!New, OneTaskEach
  <1>3. ASSUME NEW a \in live
        PROVE  Life[task[a].req] = Seen(task[a])
    <2> DEFINE r == task[a].req
    <2>1. r \in arrived /\ r \in Req /\ reply[r] = NoReply /\ r # NoReq
      BY TaskAssumption DEF OneTaskEach, TypeOK, HttpTypeOK
    <2>2. \A b \in live : doingRequest[b] = task[b].req
      BY DEF RequestTracked, TypeOK, SharedTypeOK
    <2>3. TaskOf(r) = a
      <3>1. TaskOf(r) \in live /\ doingRequest[TaskOf(r)] = r
        BY <2>2 DEF TaskOf
      <3> QED BY <2>2, <3>1 DEF OneTaskEach
    <2>4. Life[r] = Seen(task[TaskOf(r)])
      BY <2>1 DEF Life
    <2> QED BY <2>3, <2>4
  <1> QED BY <1>1, <1>2, <1>3 DEF LifeFacts

SafeInv ==
  /\ TypeOK /\ RequestTracked /\ CoreInv /\ ReplyIndexInBounds
  /\ Outcomes /\ OneTaskEach /\ LifeFacts

\* Between the two threads no request is lost, none is answered by two tasks,
\* and a task is only given back with its outcome.
THEOREM ServiceInductive ==
  ASSUME ~Reuse
  PROVE  Spec /\ (FreshStamps \/ EqualSizes) => []SafeInv
  <1>1. Init => Outcomes /\ OneTaskEach
    BY DEF Init, SharedInit, HttpInit, Outcomes, OneTaskEach, Pending, Members
  <1>2. ASSUME TypeOK, RequestTracked, CoreInv, ReplyIndexInBounds,
               Outcomes, OneTaskEach, [Next]_vars
        PROVE  Outcomes' /\ OneTaskEach'
    BY <1>2, StepOutcomes, StepOneTaskEach
  <1>3. ASSUME TypeOK, RequestTracked, CoreInv, ReplyIndexInBounds,
               Outcomes, OneTaskEach
        PROVE  SafeInv
    BY <1>3, LifeOf DEF SafeInv
  <1> QED BY <1>1, <1>2, <1>3, TypeCorrect, Tracked, CoreInductive, PTL DEF Spec

\* The rest of a request's life is untouched.
LEMMA LifeFrame ==
  ASSUME SafeInv, SafeInv', NEW q \in Req, reply'[q] = reply[q],
         q \in arrived' <=> q \in arrived,
         \A b \in live : task[b].req = q =>
           b \in live' /\ task'[b].req = q /\ Seen(task'[b]) = Seen(task[b])
  PROVE  Life'[q] = Life[q]
  <1>1. CASE reply[q] # NoReply
    BY <1>1 DEF SafeInv, LifeFacts, Service!Closed
  <1>2. CASE q \notin arrived
    BY <1>2 DEF SafeInv, LifeFacts, Service!New
  <1>3. CASE q \in arrived /\ reply[q] = NoReply
    <2>1. PICK b \in live : task[b].req = q
      BY <1>3 DEF SafeInv, OneTaskEach
    <2>2. Life[q] = Seen(task[b])
      BY <2>1 DEF SafeInv, LifeFacts
    <2>3. Life'[q] = Seen(task'[b])
      BY <2>1 DEF SafeInv, LifeFacts
    <2> QED BY <2>1, <2>2, <2>3
  <1> QED BY <1>1, <1>2, <1>3

\* What the clients see changes for one request.
LEMMA LifeExcept ==
  ASSUME NEW r \in Req, NEW v, Life'[r] = v,
         \A q \in Req \ {r} : Life'[q] = Life[q]
  PROVE  Life' = [Life EXCEPT ![r] = v]
  <1>1. Life = [q \in Req |-> Life[q]] /\ Life' = [q \in Req |-> Life'[q]]
    BY DEF Life
  <1> QED BY <1>1

LEMMA LifeSame ==
  ASSUME \A q \in Req : Life'[q] = Life[q]
  PROVE  Life' = Life
  <1>1. Life = [q \in Req |-> Life[q]] /\ Life' = [q \in Req |-> Life'[q]]
    BY DEF Life
  <1> QED BY <1>1

\* What the clients see of a task, part by part.
LEMMA SeenDecided ==
  ASSUME NEW t \in TaskRecord, NEW u, NEW i \in Idx, NEW s,
         u.total = t.total, u.error = t.error,
         u.status = [t.status EXCEPT ![i] = s]
  PROVE  Seen(u) = [Seen(t) EXCEPT !.verdict[i] = Verdict(s)]
  <1> DEFINE f == [j \in Idx |-> Verdict(t.status[j])]
             g == [j \in Idx |-> Verdict(u.status[j])]
  <1>1. t.status \in [Idx -> Status]
    BY DEF TaskRecord
  <1>2. g = [f EXCEPT ![i] = Verdict(s)]
    BY <1>1
  <1>3. /\ Seen(t) = [phase |-> "open", size |-> t.total, fault |-> t.error, verdict |-> f]
        /\ Seen(u) = [phase |-> "open", size |-> u.total, fault |-> u.error, verdict |-> g]
    BY DEF Seen
  <1> HIDE DEF f, g
  <1> QED BY <1>2, <1>3

LEMMA SeenFields ==
  ASSUME NEW t
  PROVE  /\ Seen(t).phase = "open" /\ Seen(t).size = t.total
         /\ Seen(t).fault = t.error
         /\ Seen(t).verdict = [i \in Idx |-> Verdict(t.status[i])]
  BY DEF Seen

LEMMA SeenFaulted ==
  ASSUME NEW t \in TaskRecord, NEW e
  PROVE  Seen([t EXCEPT !.error = e]) = [Seen(t) EXCEPT !.fault = e]
  <1> DEFINE u == [t EXCEPT !.error = e]
             f == [j \in Idx |-> Verdict(t.status[j])]
  <1>1. u.total = t.total /\ u.error = e /\ u.status = t.status
    BY DEF TaskRecord
  <1>2. /\ Seen(t) = [phase |-> "open", size |-> t.total, fault |-> t.error, verdict |-> f]
        /\ Seen(u) = [phase |-> "open", size |-> u.total, fault |-> u.error, verdict |-> f]
    BY <1>1 DEF Seen
  <1> HIDE DEF f, u
  <1>3. Seen(u) = [Seen(t) EXCEPT !.fault = e]
    BY <1>1, <1>2
  <1> QED BY <1>3 DEF u

\* A ping that ends is a verdict that is reached.
LEMMA EndsDecides ==
  ASSUME SafeInv, SafeInv', UNCHANGED <<live, httpVars>>,
         NEW a \in Addr, NEW i \in Idx, NEW s \in Final, Ends(a, i, s)
  PROVE  Service!Next
  <1> DEFINE r == task[a].req
             t == task[a]
             u == task'[a]
             v == Verdict(s)
  <1>1. /\ a \in live /\ a \in Pending /\ i < t.total /\ t.status[i] \in Open
        /\ t \in TaskRecord /\ live \subseteq Addr
    BY DEF Ends, InWorker, Pending, SafeInv, TypeOK, SharedTypeOK
  <1>2. r \in Req /\ t.error = 0
    BY <1>1 DEF SafeInv, OneTaskEach, Outcomes, TypeOK, HttpTypeOK
  <1>3. /\ \A b \in Addr \ {a} : task'[b] = task[b]
        /\ u.error = t.error /\ u.total = t.total /\ u.req = t.req
        /\ u.status = [t.status EXCEPT ![i] = s]
    BY EndsTask DEF SafeInv
  <1>4. v \in {"alive", "lost"} /\ Verdict(t.status[i]) = "waiting"
    BY <1>1, VerdictOf DEF Final, Open, Status
  <1>5. Seen(u) = [Seen(t) EXCEPT !.verdict[i] = v]
    BY <1>1, <1>3, SeenDecided
  <1>6. Life[r] = Seen(t) /\ Life'[r] = Seen(u)
    BY <1>1, <1>3 DEF SafeInv, LifeFacts
  <1>7. ASSUME NEW q \in Req \ {r} PROVE Life'[q] = Life[q]
    BY <1>1, <1>3, LifeFrame DEF httpVars
  <1>8. Life' = [Life EXCEPT ![r] = [@ EXCEPT !.verdict[i] = v]]
    <2> HIDE DEF r, t, u, v
    <2> QED BY <1>2, <1>5, <1>6, <1>7, LifeExcept DEF r
  <1>9. /\ Life[r].phase = "open" /\ Life[r].fault = 0 /\ i < Life[r].size
        /\ Life[r].verdict[i] = "waiting"
    <2> HIDE DEF r, t
    <2>1. Life[r].verdict[i] = Verdict(t.status[i])
      <3>1. Life[r].verdict = [j \in Idx |-> Verdict(t.status[j])]
        BY <1>6, SeenFields
      <3> QED BY <3>1
    <2>2. Life[r].phase = "open" /\ Life[r].fault = 0 /\ Life[r].size = t.total
      BY <1>2, <1>6, SeenFields
    <2> QED BY <1>1, <1>4, <2>1, <2>2
  <1>10. Service!Decide(r, i, v)
    <2> HIDE DEF r, v
    <2> QED BY <1>8, <1>9 DEF Service!Decide, Service!Healthy
  <1>11. \E j \in Idx, w \in {"alive", "lost"} : Service!Decide(r, j, w)
    BY <1>4, <1>10
  <1> QED BY <1>2, <1>11, SameNames DEF Service!Next

\* A task dropped as busy is a request that is turned away, and the tasks in the
\* worker's hands are open requests.
LEMMA DropsTurnsAway ==
  ASSUME SafeInv, SafeInv', UNCHANGED <<live, httpVars>>,
         NEW a \in Addr, Drops(a)
  PROVE  Service!Next
  <1> DEFINE r == task[a].req
             t == task[a]
             u == task'[a]
             Others == {q \in Req \ {r} : Service!Healthy(q)}
  <1>1. /\ a \in live /\ a \in Pending /\ a \notin InWorker
        /\ t \in TaskRecord /\ live \subseteq Addr /\ InWorker \subseteq Pending
        /\ Pending \subseteq live
        /\ \A i \in Idx : t.status[i] = Uninited
    BY DEF Drops, InWorker, Pending, SafeInv, CoreInv, OneOwner, QueuedFresh,
           TypeOK, SharedTypeOK
  <1>2. r \in Req /\ t.error = 0
    BY <1>1 DEF SafeInv, OneTaskEach, Outcomes, TypeOK, HttpTypeOK
  <1>3. /\ \A b \in Addr \ {a} : task'[b] = task[b]
        /\ u = [t EXCEPT !.error = BusyCode]
    BY DEF Drops, SafeInv, TypeOK, SharedTypeOK
  <1>4. Life[r] = Seen(t) /\ Life'[r] = Seen(u)
    BY <1>1, <1>3 DEF SafeInv, LifeFacts, TaskRecord
  <1>5. Seen(u) = [Seen(t) EXCEPT !.fault = BusyCode]
    <2> HIDE DEF t, u
    <2> QED BY <1>1, <1>3, SeenFaulted
  <1>6. ASSUME NEW q \in Req \ {r} PROVE Life'[q] = Life[q]
    <2>1. \A b \in live : task[b].req = q => b # a
      OBVIOUS
    <2> QED BY <1>1, <1>3, <2>1, LifeFrame DEF httpVars
  <1>7. Life' = [Life EXCEPT ![r] = [@ EXCEPT !.fault = BusyCode]]
    <2> HIDE DEF r, t, u
    <2> QED BY <1>2, <1>4, <1>5, <1>6, LifeExcept DEF r
  <1>8. Life[r].phase = "open" /\ Life[r].fault = 0
        /\ Life[r].verdict = Service!Undecided
    <2>1. Verdict(Uninited) = "waiting"
      BY VerdictOf DEF Open, Status
    <2>2. [i \in Idx |-> Verdict(t.status[i])] = [i \in Idx |-> "waiting"]
      BY <1>1, <2>1
    <2> HIDE DEF t
    <2> QED BY <1>2, <1>4, <2>2, SeenFields, SameNames DEF Service!Undecided
  <1>9. Cardinality(Others) >= Capacity
    <2> DEFINE f == [b \in InWorker |-> task[b].req]
               g == [b \in live |-> task[b].req]
    <2>1. ASSUME NEW b \in InWorker PROVE task[b].req \in Others
      <3>1. b \in live /\ b # a /\ task[b].error = 0
        BY <1>1 DEF SafeInv, Outcomes
      <3>2. task[b].req \in Req /\ task[b].req # r
        BY <1>1, <3>1 DEF SafeInv, OneTaskEach, TypeOK, HttpTypeOK
      <3>3. Life[task[b].req] = Seen(task[b])
        BY <3>1 DEF SafeInv, LifeFacts
      <3>4. Service!Healthy(task[b].req)
        BY <3>1, <3>3 DEF Service!Healthy, Seen
      <3> QED BY <3>2, <3>4
    <2>2. \A b, c \in InWorker : f[b] = f[c] => b = c
      BY <1>1 DEF SafeInv, OneTaskEach
    <2>3. IsFiniteSet(live) /\ IsFiniteSet(InWorker)
      BY <1>1, SharedAssumption, FS_Subset
    <2>4. Others \subseteq {task[b].req : b \in live}
      <3> SUFFICES ASSUME NEW q \in Others PROVE \E b \in live : q = task[b].req
        OBVIOUS
      <3>1. q \in Req /\ Life[q].phase = "open"
        BY DEF Service!Healthy
      <3>2. q \in arrived
        BY <3>1 DEF SafeInv, LifeFacts, Service!New
      <3>3. reply[q] = NoReply
        <4>1. \A x : Service!Closed(x).phase = "closed"
          BY DEF Service!Closed
        <4> QED BY <3>1, <4>1 DEF SafeInv, LifeFacts
      <3> QED BY <3>2, <3>3 DEF SafeInv, OneTaskEach
    <2>5. IsFiniteSet({task[b].req : b \in live})
      <3>1. g \in Surjection(live, {task[b].req : b \in live})
        BY DEF Surjection
      <3> QED BY <2>3, <3>1, FS_Surjection
    <2>6. IsFiniteSet(Others)
      BY <2>4, <2>5, FS_Subset
    <2> HIDE DEF Others
    <2>7. f \in Injection(InWorker, Others)
      BY <2>1, <2>2 DEF Injection, IsInjective
    <2>8. Cardinality(InWorker) <= Cardinality(Others)
      BY <2>6, <2>7, FS_Injection
    <2>9. Cardinality(InWorker) >= Capacity
      BY DEF Drops, AtCapacity, SafeInv, CoreInv, SlotsExact
    <2>10. /\ Cardinality(InWorker) \in Nat /\ Cardinality(Others) \in Nat
           /\ Capacity \in Nat
      BY <2>3, <2>6, FS_CardinalityType, WorkerAssumption
    <2> QED BY <2>8, <2>9, <2>10
  <1>10. Service!TurnAway(r)
    <2>1. Cardinality({q \in Req \ {r} : Service!Healthy(q)}) >= Capacity
      BY <1>9, SameNames
    <2> HIDE DEF r, Others
    <2>2. Service!Healthy(r)
      BY <1>8 DEF Service!Healthy
    <2> QED BY <1>7, <1>8, <2>1, <2>2, SameNames DEF Service!TurnAway
  <1> QED BY <1>2, <1>10 DEF Service!Next

\* A task that comes into being is a request that is submitted.
LEMMA NewSubmits ==
  ASSUME SafeInv, SafeInv', NEW r \in Req, NEW a \in Addr,
         NEW n \in 0..MaxServers, NEW code \in ErrorCode \cup {0},
         HandlePingReq(r, a, n, code),
         \/ n \in Sizes /\ code = 0
         \/ n = 0 /\ code \in BadCodes
  PROVE  Service!Next
  <1> DEFINE t == NewTask(n, code, r)
  <1>1. /\ a \notin live /\ live' = live \cup {a} /\ r \notin arrived
        /\ arrived' = arrived \cup {r} /\ UNCHANGED reply
        /\ task' = [task EXCEPT ![a] = t]
    BY DEF HandlePingReq, SafeInv, RequestTracked
  <1>2. /\ task'[a] = t /\ live \subseteq Addr
        /\ \A b \in live : task'[b] = task[b]
    BY <1>1 DEF SafeInv, TypeOK, SharedTypeOK
  <1>3. t.req = r /\ t.total = n /\ t.error = code
        /\ t.status = [i \in Idx |-> Uninited]
    BY DEF NewTask
  <1>4. Life[r] = Service!New
    BY <1>1 DEF SafeInv, LifeFacts
  <1>5. Seen(t) = Service!Opened(n, code, Service!Undecided)
    <2>1. Verdict(Uninited) = "waiting"
      BY VerdictOf DEF Open, Status
    <2>2. [i \in Idx |-> Verdict(t.status[i])] = [i \in Idx |-> "waiting"]
      BY <1>3, <2>1
    <2> HIDE DEF t
    <2> QED BY <1>3, <2>2, SameNames
            DEF Seen, Service!Opened, Service!Undecided
  <1>6. Life'[r] = Service!Opened(n, code, Service!Undecided)
    <2> HIDE DEF t
    <2>1. a \in live' /\ task'[a].req = r
      BY <1>1, <1>2, <1>3
    <2>2. Life'[r] = Seen(t)
      BY <1>2, <2>1 DEF SafeInv, LifeFacts
    <2> QED BY <1>5, <2>2
  <1>7. ASSUME NEW q \in Req \ {r} PROVE Life'[q] = Life[q]
    BY <1>1, <1>2, LifeFrame
  <1>8. Life' = [Life EXCEPT ![r] = Service!Opened(n, code, Service!Undecided)]
    <2> HIDE DEF t
    <2> QED BY <1>6, <1>7, LifeExcept
  <1>9. Life[r].phase = "new"
    BY <1>4 DEF Service!New
  <1>10. Service!Submit(r)
    <2>1. CASE n \in Sizes /\ code = 0
      BY <1>8, <1>9, <2>1 DEF Service!Submit
    <2>2. CASE n = 0 /\ code \in BadCodes
      BY <1>8, <1>9, <2>2 DEF Service!Submit
    <2> QED BY <2>1, <2>2
  <1> QED BY <1>10 DEF Service!Next

\* The answer to a request is the one its task has earned.
LEMMA ReportIs ==
  ASSUME NEW t \in TaskRecord, t.error = 0, NEW r \in Req, Life[r] = Seen(t)
  PROVE  Response(t) = Service!Report(r)
  <1>1. Life[r].size = t.total
        /\ Life[r].verdict = [i \in Idx |-> Verdict(t.status[i])]
    BY SeenFields
  <1>2. ASSUME NEW i \in 0..(t.total - 1)
        PROVE  t.status[i] = Success <=> Life[r].verdict[i] = "alive"
    <2>1. i \in Idx /\ t.status[i] \in Status
      BY <1>2, TaskAssumption DEF TaskRecord, Idx
    <2> QED BY <1>1, <2>1, VerdictOf
  <1>3. Alive(t) = {i \in 0..(Life[r].size - 1) : Life[r].verdict[i] = "alive"}
    BY <1>1, <1>2 DEF Alive
  <1> QED BY <1>1, <1>3 DEF Response, Service!Report

LEMMA FaultIs ==
  ASSUME NEW t \in TaskRecord, t.error # 0
  PROVE  Response(t) = Service!Fault(t.error)
  <1>1. t.error \in Nat
    BY DEF TaskRecord, ErrorCode, BusyCode
  <1>2. CASE t.error < 1000
    <2>1. t.error \in 1..999
      BY <1>1, <1>2
    <2> QED BY <1>2, <2>1 DEF Response, Service!Fault
  <1>3. CASE ~(t.error < 1000)
    <2>1. t.error \notin 1..999
      BY <1>1, <1>3
    <2> QED BY <1>3, <2>1 DEF Response, Service!Fault
  <1> QED BY <1>2, <1>3

\* A task that is deleted is a request that is answered.
LEMMA RespAnswers ==
  ASSUME SafeInv, SafeInv', TryRespEvent, responseQueue # <<>>
  PROVE  Service!Next
  <1> DEFINE a == Head(responseQueue)
             t == task[a]
             r == t.req
  <1>1. /\ a \in Members(responseQueue) /\ a \in live /\ live \subseteq Addr
        /\ t \in TaskRecord /\ t.done = Cardinality(Ended(t))
    BY MembersOfTail
    DEF SafeInv, CoreInv, OneOwner, DoneCountExact, TypeOK, SharedTypeOK
  <1>2. doingRequest[a] = r /\ r \in arrived /\ r \in Req /\ r # NoReq
    BY <1>1, TaskAssumption
    DEF SafeInv, RequestTracked, OneTaskEach, TypeOK, HttpTypeOK
  <1>3. /\ live' = live \ {a} /\ UNCHANGED <<task, arrived>>
        /\ reply' = [reply EXCEPT ![r] = Response(t)]
    BY <1>2 DEF TryRespEvent
  <1>4. Life[r] = Seen(t)
    BY <1>1 DEF SafeInv, LifeFacts
  <1>5. Response(t) # NoReply
    BY <1>1, TaskTypes, HttpAssumption
  <1>6. /\ reply'[r] = Response(t)
        /\ \A q \in Req \ {r} : reply'[q] = reply[q]
    BY <1>2, <1>3 DEF SafeInv, TypeOK, HttpTypeOK
  <1>7. Life'[r] = Service!Closed(Response(t))
    BY <1>2, <1>5, <1>6 DEF SafeInv, LifeFacts
  <1>8. ASSUME NEW q \in Req \ {r} PROVE Life'[q] = Life[q]
    <2>1. \A b \in live : task[b].req = q => b # a
      OBVIOUS
    <2> HIDE DEF a, t, r
    <2> QED BY <1>3, <1>6, <1>8, <2>1, LifeFrame
  <1>9. Life' = [Life EXCEPT ![r] = Service!Closed(Response(t))]
    <2> HIDE DEF r, t
    <2> QED BY <1>2, <1>7, <1>8, LifeExcept
  <1>10. Life[r].phase = "open" /\ Life[r].fault = t.error /\ Life[r].size = t.total
         /\ Life[r].verdict = [i \in Idx |-> Verdict(t.status[i])]
    BY <1>4, SeenFields
  <1>11. CASE t.error = 0
    <2>1. ASSUME NEW i \in 0..(t.total - 1) PROVE Life[r].verdict[i] # "waiting"
      <3>1. i \in Idx /\ i < t.total
        BY <1>1, TaskAssumption DEF TaskRecord, Idx
      <3>2. IsComplete(t)
        BY <1>1, <1>11 DEF SafeInv, Outcomes
      <3>3. t.status[i] \in Final
        BY <1>1, <3>1, <3>2, CompleteAllEnded
      <3>4. Verdict(t.status[i]) # "waiting"
        BY <3>3, VerdictOf DEF Final
      <3> QED BY <1>10, <3>1, <3>4
    <2> HIDE DEF r, t
    <2>2. Response(t) = Service!Report(r)
      BY <1>1, <1>2, <1>4, <1>11, ReportIs
    <2>3. Service!Answer(r)
      BY <1>9, <1>10, <1>11, <2>1, <2>2 DEF Service!Answer, Service!Healthy
    <2> QED BY <1>2, <2>3 DEF Service!Next
  <1>12. CASE t.error # 0
    <2> HIDE DEF r, t
    <2>1. Response(t) = Service!Fault(Life[r].fault)
      BY <1>1, <1>10, <1>12, FaultIs
    <2>2. Service!Answer(r)
      BY <1>9, <1>10, <1>12, <2>1 DEF Service!Answer, Service!Healthy
    <2> QED BY <1>2, <2>2 DEF Service!Next
  <1> QED BY <1>11, <1>12

\* What changes nothing that is told changes nothing that is seen.
LEMMA AlikeLife ==
  ASSUME SafeInv, SafeInv', UNCHANGED <<live, arrived, reply>>,
         \A b \in live : Alike(task'[b], task[b])
  PROVE  Life' = Life
  <1>1. ASSUME NEW b \in live
        PROVE  task'[b].req = task[b].req /\ Seen(task'[b]) = Seen(task[b])
    <2> DEFINE t == task[b]
               u == task'[b]
    <2>1. Alike(u, t)
      OBVIOUS
    <2> HIDE DEF t, u
    <2>2. [i \in Idx |-> Verdict(u.status[i])] = [i \in Idx |-> Verdict(t.status[i])]
      BY <2>1 DEF Alike
    <2>3. u.req = t.req /\ Seen(u) = Seen(t)
      BY <2>1, <2>2 DEF Alike, Seen
    <2> QED BY <2>3 DEF t, u
  <1>2. \A q \in Req : Life'[q] = Life[q]
    BY <1>1, LifeFrame
  <1> QED BY <1>2, LifeSame

(***************************************************************************)
(* Every step is a step of the service, or none.                           *)
(***************************************************************************)
LEMMA StepImplements ==
  ASSUME SafeInv, SafeInv', [Next]_vars
  PROVE  [Service!Next]_Life
  <1>1. CASE WorkerNext /\ UNCHANGED httpVars
    <2>0. TypeOK /\ CoreInv /\ ReplyIndexInBounds
      BY DEF SafeInv
    <2>1. UNCHANGED live
      BY <1>1, <2>0, WorkerKeepsRequests
    <2>2. CASE Unseen
      BY <1>1, <2>1, <2>2, AlikeLife DEF Unseen, httpVars
    <2>3. ASSUME NEW a \in Addr, Drops(a) PROVE Service!Next
      BY <1>1, <2>1, <2>3, DropsTurnsAway
    <2>4. ASSUME NEW a \in Addr, NEW i \in Idx, NEW s \in Final, Ends(a, i, s)
          PROVE  Service!Next
      BY <1>1, <2>1, <2>4, EndsDecides
    <2> QED BY <1>1, <2>0, <2>2, <2>3, <2>4, WorkerSteps DEF WorkerEffect
  <1>3. ASSUME UNCHANGED <<heapVars, arrived, reply>>
        PROVE  Life' = Life
    <2>1. \A b \in live : Alike(task'[b], task[b])
      BY <1>3 DEF heapVars, Alike
    <2> QED BY <1>3, <2>1, AlikeLife DEF heapVars
  <1>4. CASE TryRespEvent
    <2>1. CASE responseQueue = <<>>
      BY <1>3, <1>4, <2>1 DEF TryRespEvent, heapVars
    <2> QED BY <1>4, <2>1, RespAnswers
  <1>5. CASE HttpNext(Allocatable)
    <2>1. ASSUME NEW r \in Req, NEW a \in Allocatable,
                 \/ \E n \in Sizes : HandlePingReq(r, a, n, 0)
                 \/ \E code \in BadCodes : HandlePingReq(r, a, 0, code)
          PROVE  Service!Next
      <3>1. a \in Addr
        BY DEF Allocatable
      <3>2. ASSUME NEW n \in Sizes, HandlePingReq(r, a, n, 0) PROVE Service!Next
        BY <3>1, <3>2, NewSubmits, HttpAssumption
      <3>3. ASSUME NEW code \in BadCodes, HandlePingReq(r, a, 0, code)
            PROVE  Service!Next
        BY <3>1, <3>3, NewSubmits, HttpAssumption, TaskAssumption
      <3> QED BY <2>1, <3>2, <3>3
    <2>2. CASE NotifyWorker \/ NotifySelf
      BY <1>3, <2>2 DEF NotifyWorker, NotifySelf
    <2> QED BY <1>4, <1>5, <2>1, <2>2 DEF HttpNext
  <1>6. CASE UNCHANGED vars
    BY <1>3, <1>6 DEF vars, httpVars
  <1> QED BY <1>1, <1>5, <1>6 DEF Next, Quiescent

\* The clients of /net/ping get what the service promises: one answer to each
\* request, with a verdict on every server it names that was reached once, or
\* with the fault it was found to have; and they are only turned away while
\* Capacity others are served.
THEOREM KeepsItsPromise ==
  ASSUME ~Reuse
  PROVE  Spec /\ (FreshStamps \/ EqualSizes) => Implements
  <1>1. Init => Service!Init
    BY DEF Init, SharedInit, HttpInit, Service!Init, Life, Service!New
  <1>2. SafeInv /\ SafeInv' /\ [Next]_vars => [Service!Next]_Life
    BY StepImplements
  <1> QED BY <1>1, <1>2, ServiceInductive, PTL DEF Spec, Implements, Service!Spec

(***************************************************************************)
(* When a task is turned away.                                             *)
(***************************************************************************)
\* While the worker waits for an event, each task in its hands that names a
\* server has a ping that waits for its reply.
LEMMA HeldIsWorking ==
  ASSUME TypeOK, CoreInv, Outcomes, SizesKept, 0 \notin Sizes, wpc = "loop"
  PROVE  InWorker \subseteq Working
  <1> SUFFICES ASSUME NEW b \in InWorker PROVE b \in Working
    OBVIOUS
  <1>1. b \in live /\ b \in Addr /\ b \in Pending /\ task[b] \in TaskRecord
    BY DEF InWorker, Pending, TypeOK, SharedTypeOK
  <1>2. task[b].total \in Sizes /\ task[b].total > 0
    BY <1>1 DEF SizesKept, TaskRecord
  <1>3. ~IsComplete(task[b])
    BY <1>1, <1>2 DEF Outcomes
  <1>4. PICK i \in Idx : i < task[b].total /\ task[b].status[i] \notin Final
    <2> SUFFICES ASSUME \A i \in Idx : i < task[b].total => task[b].status[i] \in Final
                 PROVE  FALSE
      OBVIOUS
    <2>1. 0..(task[b].total - 1) \subseteq Idx
      BY <1>1, TaskAssumption DEF Idx, TaskRecord
    <2>2. \A i \in 0..(task[b].total - 1) : i < task[b].total
      BY <1>1 DEF TaskRecord
    <2>3. Ended(task[b]) = 0..(task[b].total - 1)
      BY <2>1, <2>2 DEF Ended
    <2>4. Cardinality(0..(task[b].total - 1)) = task[b].total
      BY <1>1, <1>2, FS_Interval DEF TaskRecord
    <2>5. task[b].done = task[b].total
      BY <1>1, <2>3, <2>4 DEF CoreInv, DoneCountExact
    <2> QED BY <1>1, <1>3, <2>5 DEF IsComplete, TaskRecord
  <1>5. task[b].status[i] # Uninited
    BY <1>4 DEF CoreInv, StartedInOrder, InTask
  <1>6. task[b].status[i] = Doing
    <2>1. task[b].status[i] \in Status
      BY <1>1 DEF TaskRecord
    <2> QED BY <1>4, <1>5, <2>1 DEF Final, Open
  <1>7. timers[b][i] = 1
    BY <1>1, <1>4, <1>6 DEF CoreInv, TimersOwned
  <1> QED BY <1>1, <1>7 DEF Working

LEMMA StepDrops ==
  ASSUME TypeOK, RequestTracked, CoreInv, ReplyIndexInBounds, Outcomes, SizesKept,
         0 \notin Sizes, [Next]_vars,
         NEW a \in live, task'[a].error = BusyCode, task[a].error # BusyCode
  PROVE  Cardinality(Working) >= Capacity
  <1>0. a \in Addr /\ live \subseteq Addr
    BY DEF TypeOK, SharedTypeOK
  <1>1. CASE WorkerNext /\ UNCHANGED httpVars
    <2>1. ~Unseen
      BY DEF Unseen, Alike
    <2>2. ASSUME NEW b \in Addr, NEW i \in Idx, NEW s \in Final, Ends(b, i, s)
          PROVE  FALSE
      <3>1. task'[b].error = task[b].error
        BY <2>2, EndsTask
      <3>2. a # b => task'[a] = task[a]
        BY <1>0, <2>2, EndsTask
      <3>3. CASE a = b
        BY <3>1, <3>3
      <3>4. CASE a # b
        BY <3>2, <3>4
      <3> QED BY <3>3, <3>4
    <2>3. PICK b \in Addr : Drops(b)
      BY <1>1, <2>1, <2>2, WorkerSteps DEF WorkerEffect
    <2>4. InWorker \subseteq Working
      BY <2>3, HeldIsWorking DEF Drops
    <2>5. Cardinality(InWorker) >= Capacity
      BY <2>3 DEF Drops, AtCapacity, CoreInv, SlotsExact
    <2>6. IsFiniteSet(Working)
      BY <1>0, SharedAssumption, FS_Subset DEF Working
    <2>7. /\ Cardinality(InWorker) <= Cardinality(Working)
          /\ Cardinality(InWorker) \in Nat /\ Cardinality(Working) \in Nat
          /\ Capacity \in Nat
      BY <2>4, <2>6, FS_Subset, FS_CardinalityType, WorkerAssumption
    <2> QED BY <2>5, <2>7
  <1>2. ASSUME NEW r \in Req, NEW b \in Addr, NEW n, NEW code,
               HandlePingReq(r, b, n, code)
        PROVE  FALSE
    <2>1. b # a /\ task' = [task EXCEPT ![b] = NewTask(n, code, r)]
      BY <1>2 DEF HandlePingReq
    <2> QED BY <1>0, <2>1 DEF TypeOK, SharedTypeOK
  <1>3. ~(NotifyWorker \/ NotifySelf \/ TryRespEvent \/ UNCHANGED vars)
    BY DEF NotifyWorker, NotifySelf, TryRespEvent, vars, heapVars
  <1>4. ~HttpNext(Allocatable)
    BY <1>2, <1>3 DEF HttpNext, Allocatable
  <1> QED BY <1>1, <1>3, <1>4 DEF Next, Quiescent

\* A request is answered "too many tasks working" only while Capacity tasks
\* have pings under way, provided no request names no server at all.
THEOREM DropsJustified ==
  ASSUME ~Reuse, 0 \notin Sizes
  PROVE  Spec /\ (FreshStamps \/ EqualSizes) => DropsOnlyWhileWorking
  <1>1. Init => SizesKept
    BY InitFitInv DEF FitInv
  <1>2. TypeOK /\ RequestTracked /\ SizesKept /\ [Next]_vars => SizesKept'
    BY StepSizesKept
  <1>3. SafeInv /\ SizesKept /\ [Next]_vars =>
          [\A a \in live : task'[a].error = BusyCode /\ task[a].error # BusyCode
             => Cardinality(Working) >= Capacity]_vars
    BY StepDrops DEF SafeInv
  <1>4. SafeInv => TypeOK /\ RequestTracked
    BY DEF SafeInv
  <1> QED BY <1>1, <1>2, <1>3, <1>4, ServiceInductive, PTL
          DEF Spec, DropsOnlyWhileWorking
=============================================================================
