-------------------------------- MODULE Task --------------------------------
(***************************************************************************)
(* The Task and Ping objects of async-ping (Task.h, Task.cpp, Ping.h) as   *)
(* values: one Task per HTTP request, one Ping per server the request      *)
(* names.  A Ping's index is the index of its server in the request.  The  *)
(* texts (addresses, messages, times of flight) are left out.              *)
(***************************************************************************)
EXTENDS Integers, FiniteSets

CONSTANTS
  Req,         \* the HTTP requests (struct evhttp_request)
  NoReq,       \* not a request
  MaxServers,  \* bound: the longest "servers" array of a request
  MaxTasks     \* bound: how many different timestamps tasks are given

ASSUME TaskAssumption ==
  /\ NoReq \notin Req
  /\ MaxServers \in Nat
  /\ MaxTasks \in Nat

\* Ping.h, the value of Ping::status.
Uninited  == "PING_UNINITED"
Doing     == "PING_DOING"
Timedout  == "PING_TIMEOUT"
SendError == "PING_SEND_ERROR"
Success   == "PING_SUCCESS"
Status    == {Uninited, Doing, Timedout, SendError, Success}

\* The statuses that every completion handler tests for before it counts a
\* ping as done, and the final ones.
Open  == {Uninited, Doing}
Final == Status \ Open

Idx   == 0..(MaxServers - 1)

\* Task::timestamp: microseconds since the epoch in the code, an ordinal here.
\* 0 stands for a timestamp that setTimestamp has not written yet.
Stamp == 0..MaxTasks

\* Task::preErrorCode.  0 is "no error", codes below 1000 are HTTP status
\* codes, the others select the message of an HTTP 200 response.
BusyCode   == 1005
ErrorCode  == {405, 415, 1001, 1002, 1003, 1004, BusyCode}

TaskRecord ==
  [total  : 0..MaxServers,      \* totalCount
   done   : Int,                \* doneCount
   stamp  : Stamp,              \* timestamp
   error  : ErrorCode \cup {0}, \* preErrorCode, 0 iff ~prepareError
   status : [Idx -> Status],    \* pingArray[i].status
   req    : Req \cup {NoReq}]   \* history: the request it was created for

\* Task::Task(JsonValue &) for an admissible body of n servers, and
\* Task::Task(int) or a rejected body for an error code.
NewTask(n, code, r) ==
  [total  |-> n, done |-> 0, stamp |-> 0, error |-> code,
   status |-> [i \in Idx |-> Uninited], req |-> r]

\* Mutant: complete one ping too early.
IsCompleteEarly(t) == t.done + 1 >= t.total

IsComplete(t) == t.done >= t.total

\* Mutant: the ping is counted and its status left as it is.
CountOnly(t, i, s) == [t EXCEPT !.done = @ + 1]

\* A completion handler gives ping i its final status and counts it.
CountDone(t, i, s) == [t EXCEPT !.status[i] = s, !.done = @ + 1]

\* The pings of t that have ended.
Ended(t) == {i \in 0..(t.total - 1) : t.status[i] \in Final}

\* Mutant: a ping that could not be sent is not reported as lost.
AliveUnlessTimedOut(t) == {i \in 0..(t.total - 1) : t.status[i] # Timedout}

\* The servers buildResponse reports as alive (lossRate 0).
Alive(t) == {i \in 0..(t.total - 1) : t.status[i] = Success}

\* Task::fillHttpResponse and HttpResponse::doResponse: the HTTP status, the
\* error reported in the body (0 for success) and the servers found alive.
Response(t) ==
  IF t.error \in 1..999
  THEN [http |-> t.error, error |-> 0, total |-> 0, alive |-> {}]
  ELSE IF t.error # 0
       THEN [http |-> 200, error |-> t.error, total |-> 0, alive |-> {}]
       ELSE [http |-> 200, error |-> 0, total |-> t.total, alive |-> Alive(t)]
=============================================================================
