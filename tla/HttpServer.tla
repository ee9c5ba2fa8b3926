----------------------------- MODULE HttpServer -----------------------------
(***************************************************************************)
(* The HTTP thread (HttpServer.cpp, HttpHandler.cpp, HttpResponse.cpp): a  *)
(* libevent loop that turns requests into tasks, queues them for the       *)
(* worker, and answers a request when its task comes back.                 *)
(*                                                                         *)
(* evhttp, which reads requests from the network and writes the answers,   *)
(* is external: a request of Req arrives once and stays valid until it is  *)
(* answered.                                                               *)
(***************************************************************************)
EXTENDS Shared

CONSTANTS
  Sizes,    \* lengths of the "servers" array of the admissible requests
  BadCodes, \* errors the other requests are rejected with
  NoReply   \* not an answer

\* The answers: HTTP status, error in the body, servers and those found alive.
Reply == [http : {200, 405, 415}, error : ErrorCode \cup {0},
          total : 0..MaxServers, alive : SUBSET Idx]

ASSUME HttpAssumption ==
  /\ Sizes \subseteq 0..MaxServers
  /\ BadCodes \subseteq ErrorCode \ {BusyCode}
  /\ NoReply \notin Reply

VARIABLES
  doingRequest,  \* HttpServer::doingRequest, task to request
  hpc,           \* where the thread is
  arrived,       \* evhttp: the requests that have come in
  reply          \* evhttp: the answer each request has been sent

httpVars == <<doingRequest, hpc, arrived, reply>>

\* "loop": waiting in event_base_dispatch.  "notifyWorker" and "notifySelf":
\* about to write the byte that announces the task just pushed.
HttpPc == {"loop", "notifyWorker", "notifySelf"}

HttpTypeOK ==
  /\ doingRequest \in [Addr -> Req \cup {NoReq}]
  /\ hpc \in HttpPc
  /\ arrived \subseteq Req
  /\ reply \in [Req -> Reply \cup {NoReply}]

HttpInit ==
  /\ doingRequest = [a \in Addr |-> NoReq]
  /\ hpc = "loop"
  /\ arrived = {}
  /\ reply = [r \in Req |-> NoReply]

(***************************************************************************)
(* handlePingReq: new Task at a, from request r of n servers or with error *)
(* code.  The test for an address that is already in the map comes first   *)
(* and drops the request.  A bad request is queued back to this thread.    *)
(***************************************************************************)
HandlePingReq(r, a, n, code) ==
  /\ hpc = "loop"
  /\ r \in Req \ arrived
  /\ a \in Addr \ live
  /\ arrived' = arrived \cup {r}
  /\ task' = [task EXCEPT ![a] = NewTask(n, code, r)]
  /\ IF doingRequest[a] # NoReq
     THEN UNCHANGED <<live, taskQueue, responseQueue, doingRequest, hpc>>
     ELSE /\ live' = live \cup {a}
          /\ doingRequest' = [doingRequest EXCEPT ![a] = r]
          /\ IF code # 0
             THEN /\ responseQueue' = Append(responseQueue, a)
                  /\ hpc' = "notifySelf"
                  /\ UNCHANGED taskQueue
             ELSE /\ taskQueue' = Append(taskQueue, a)
                  /\ hpc' = "notifyWorker"
                  /\ UNCHANGED responseQueue
  /\ UNCHANGED <<taskPipe, respPipe, reply>>

\* sendToWorker, its second half: TaskWorker::notify.
NotifyWorker ==
  /\ hpc = "notifyWorker"
  /\ taskPipe < PipeCap
  /\ taskPipe' = taskPipe + 1
  /\ hpc' = "loop"
  /\ UNCHANGED <<heapVars, taskQueue, replyVars, doingRequest, arrived, reply>>

\* HttpServer::notify called by the thread that reads the pipe.
NotifySelf ==
  /\ hpc = "notifySelf"
  /\ respPipe < PipeCap
  /\ respPipe' = respPipe + 1
  /\ hpc' = "loop"
  /\ UNCHANGED <<heapVars, todoVars, responseQueue, doingRequest, arrived,
                 reply>>

\* The request of a task is erased from doingRequest.  Mutant: it stays.
ForgetNot(a) == UNCHANGED doingRequest
Forget(a)    == doingRequest' = [doingRequest EXCEPT ![a] = NoReq]

(***************************************************************************)
(* tryRespEventHandler: one byte, one task.  The task's request is looked  *)
(* up by address and answered, and the task is deleted.                    *)
(***************************************************************************)
TryRespEvent ==
  /\ hpc = "loop"
  /\ respPipe > 0
  /\ respPipe' = respPipe - 1
  /\ IF responseQueue = <<>>
     THEN UNCHANGED <<live, responseQueue, doingRequest, reply>>
     ELSE LET a == Head(responseQueue)
              r == doingRequest[a]
          IN /\ responseQueue' = Tail(responseQueue)
             /\ live' = live \ {a}
             /\ Forget(a)
             /\ reply' = IF r = NoReq
                         THEN reply
                         ELSE [reply EXCEPT ![r] = Response(task[a])]
  /\ UNCHANGED <<task, todoVars, hpc, arrived>>

\* A are the addresses the allocator may return.
HttpNext(A) ==
  \/ \E r \in Req, a \in A :
       \/ \E n \in Sizes : HandlePingReq(r, a, n, 0)
       \/ \E code \in BadCodes : HandlePingReq(r, a, 0, code)
  \/ NotifyWorker
  \/ NotifySelf
  \/ TryRespEvent
=============================================================================
