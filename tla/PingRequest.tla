----------------------------- MODULE PingRequest -----------------------------
(***************************************************************************)
(* How HttpHandler::handlePingReq makes a Task of a request: the checks of *)
(* the handler, then those of Task::Task(JsonValue &), then the loop that  *)
(* sets up one Ping per server.  The loop counter is an unsigned short and *)
(* the size it runs up to an int, so the loop is modelled step by step.    *)
(*                                                                         *)
(* XPing takes the outcome, NewTask(n, code, r), as one choice.  A value   *)
(* of the wrong JSON type is modelled by what jsoncpp does: asInt and      *)
(* asString throw, and nothing between the handler and main catches.       *)
(***************************************************************************)
EXTENDS Task, TLAPS

CONSTANTS
  IndexMod,  \* 2^16, the number of values of an unsigned short
  MaxPing,   \* MAX_PING_PER_TASK
  MaxArray   \* bound: the longest array a request is given

ASSUME PingRequestAssumption ==
  /\ IndexMod \in Nat \ {0}
  /\ MaxPing \in 0..MaxServers
  /\ MaxPing <= IndexMod  \* in the source both are 65536
  /\ MaxArray \in Nat

\* A request as the checks tell it from others.  array: "servers" is an array,
\* of length size.  badName: the first server that is not convertible to a
\* string; there is none if badName is not an index of the array.
Request ==
  [post : BOOLEAN, json : BOOLEAN, object : BOOLEAN,
   timeout : {"absent", "positive", "notPositive", "notInt"},
   array : BOOLEAN, size : 0..MaxArray, badName : 0..MaxArray]

VARIABLES
  request,
  pc,      \* the next check; "loop" in the loop; "made" or "thrown" at the end
  object,  \* the Task under construction
  i,       \* the loop counter
  filled   \* the members of pingArray that have been set up

vars == <<request, pc, object, i, filled>>

Init ==
  /\ request \in Request
  /\ pc = "method"
  /\ object = NewTask(0, 0, NoReq)
  /\ i = 0
  /\ filled = {}

Goto(p) == pc' = p /\ UNCHANGED <<request, object, i, filled>>

\* new Task(code), or the constructor returns early with prepareError set.
Reject(code) ==
  /\ object' = NewTask(0, code, NoReq)
  /\ pc' = "made"
  /\ UNCHANGED <<request, i, filled>>

CheckMethod ==
  /\ pc = "method"
  /\ IF request.post THEN Goto("input") ELSE Reject(405)

RecvReqInput ==
  /\ pc = "input"
  /\ IF request.json THEN Goto("object") ELSE Reject(415)

CheckObject ==
  /\ pc = "object"
  /\ IF request.object THEN Goto("timeout") ELSE Reject(1001)

\* get("timeout", 5).asInt()
CheckTimeout ==
  /\ pc = "timeout"
  /\ CASE request.timeout = "notInt"      -> Goto("thrown")
       [] request.timeout = "notPositive" -> Reject(1002)
       [] OTHER                           -> Goto("servers")

CheckServers ==
  /\ pc = "servers"
  /\ IF request.array THEN Goto("size") ELSE Reject(1003)

\* Mutant: one server too many is let in.
OneTooMany(size) == size > MaxPing + 1

TooMany(size) == size > MaxPing

CheckSize ==
  /\ pc = "size"
  /\ IF TooMany(request.size)
     THEN Reject(1004)
     ELSE /\ object' = [object EXCEPT !.total = request.size]
          /\ pc' = "loop"
          /\ UNCHANGED <<request, i, filled>>

\* Mutant: the last ping is not set up.
MoreButOne == i + 1 < object.total

\* The loop test compares the counter, promoted to int, with the size.
More == i < object.total

\* One round of the loop, and i ++ in 16 bits.
FillPing ==
  /\ pc = "loop"
  /\ More
  /\ IF request.badName = i
     THEN Goto("thrown")
     ELSE /\ filled' = filled \cup {i}
          /\ i' = (i + 1) % IndexMod
          /\ UNCHANGED <<request, pc, object>>

EndLoop ==
  /\ pc = "loop"
  /\ ~More
  /\ Goto("made")

Next ==
  \/ CheckMethod \/ RecvReqInput \/ CheckObject \/ CheckTimeout
  \/ CheckServers \/ CheckSize \/ FillPing \/ EndLoop

Spec == Init /\ [][Next]_vars

\* The handler runs to its end, or for ever.
FairSpec == Spec /\ WF_vars(Next)

-----------------------------------------------------------------------------
TypeOK ==
  /\ request \in Request
  /\ pc \in {"method", "input", "object", "timeout", "servers", "size", "loop",
            "made", "thrown"}
  /\ object \in TaskRecord
  /\ i \in 0..(IndexMod - 1)
  /\ filled \subseteq Idx

\* The error of the first check that the request fails.
Fault(r) ==
  IF ~r.post                        THEN 405
  ELSE IF ~r.json                   THEN 415
  ELSE IF ~r.object                 THEN 1001
  ELSE IF r.timeout = "notPositive" THEN 1002
  ELSE IF ~r.array                  THEN 1003
  ELSE IF r.size > MaxPing          THEN 1004
  ELSE 0

\* What handlePingReq hands on is what XPing assumes of it: a task with the
\* first error of its request and no pings, or one with a ping per server, each
\* of them set up.  The worker reads status and parentTask of every ping, and
\* Ping::Ping initialises neither status nor index.
MadeRight ==
  pc = "made" =>
    /\ object = NewTask(IF Fault(request) = 0 THEN request.size ELSE 0,
                        Fault(request), NoReq)
    /\ filled = 0..(object.total - 1)

\* The counter wraps in no request but one of IndexMod servers, and not before
\* all its pings are set up; in any other, each round of the loop sets up a ping
\* that was not set up yet.
Advances ==
  [][i' # i =>
       IF i' = i + 1
       THEN i \notin filled \/ request.size = IndexMod
       ELSE i' = 0 /\ request.size = IndexMod /\ filled' = 0..(IndexMod - 1)]_vars

\* A request that passes all checks, of as many servers as the counter has
\* values, all of them strings.
Endless(r) ==
  /\ r.post /\ r.json /\ r.object /\ r.timeout \in {"absent", "positive"}
  /\ r.array /\ r.size = IndexMod /\ r.size <= MaxPing /\ r.badName >= r.size

Returned == pc \in {"made", "thrown"}

\* Such a request keeps the HTTP thread in the constructor for ever, and no
\* other request does.
EndsUnlessEndless ==
  /\ ~Endless(request) => <>Returned
  /\ Endless(request) => []~Returned

\* The HTTP thread comes out of the handler, for every request: of a body with
\* up to MAX_PING_PER_TASK servers it makes a task, and rejects a longer one.
Ends == <>Returned

-----------------------------------------------------------------------------
(***************************************************************************)
(* The theorems, for every limit up to the number of values of the         *)
(* counter, that number (the limit of the source) included.                *)
(***************************************************************************)
\* What each check knows of those before it, and the loop of its counter.
Passed ==
  /\ pc # "method" /\ pc # "made" => request.post
  /\ pc \notin {"method", "input", "made"} => request.json
  /\ pc \notin {"method", "input", "object", "made"} => request.object
  /\ pc \in {"servers", "size", "loop"} =>
       request.timeout \in {"absent", "positive"}
  /\ pc \in {"size", "loop"} => request.array
  /\ pc \notin {"loop", "made", "thrown"} =>
       object = NewTask(0, 0, NoReq) /\ i = 0 /\ filled = {}
  /\ pc = "loop" =>
       /\ request.size <= MaxPing
       /\ object = NewTask(request.size, 0, NoReq)
       /\ i <= request.size
       /\ \/ filled = 0..(i - 1)
          \/ request.size = IndexMod /\ filled = 0..(IndexMod - 1)

Inv == TypeOK /\ MadeRight /\ Passed

\* The constructor's records are tasks.
LEMMA NewTaskType ==
  ASSUME NEW n \in 0..MaxServers, NEW code \in ErrorCode \cup {0}
  PROVE  NewTask(n, code, NoReq) \in TaskRecord
  BY TaskAssumption DEF NewTask, TaskRecord, Stamp, Status

\* Adding one to a number of IndexMod values wraps at the last.
LEMMA WrapsAt ==
  ASSUME NEW n \in 0..(IndexMod - 1)
  PROVE  (n + 1) % IndexMod = IF n + 1 < IndexMod THEN n + 1 ELSE 0
  BY PingRequestAssumption

\* Before the first check nothing has been made.
LEMMA InitInv == Init => Inv
  <1> SUFFICES ASSUME Init PROVE Inv
    OBVIOUS
  <1> USE TaskAssumption, PingRequestAssumption DEF Init
  <1>1. TypeOK
    BY NewTaskType DEF TypeOK
  <1>2. MadeRight /\ Passed
    BY DEF MadeRight, Passed
  <1> QED BY <1>1, <1>2 DEF Inv

\* Every check and every round of the loop preserves the invariant.
LEMMA StepInv ==
  ASSUME Inv, [Next]_vars
  PROVE  Inv'
  <1> USE TaskAssumption, PingRequestAssumption DEF Inv
  <1>1. CASE UNCHANGED vars
    BY <1>1 DEF vars, TypeOK, MadeRight, Passed
  <1>2. ASSUME NEW code \in {405, 415, 1001, 1002, 1003, 1004}, Reject(code),
               Fault(request) = code, filled = {}
        PROVE  Inv'
    <2>1. TypeOK'
      BY <1>2, NewTaskType DEF TypeOK, Reject, ErrorCode
    <2>2. MadeRight'
      BY <1>2 DEF MadeRight, Reject, NewTask
    <2>3. Passed'
      BY <1>2 DEF Passed, Reject
    <2> QED BY <2>1, <2>2, <2>3
  <1>3. ASSUME NEW p \in {"input", "object", "timeout", "servers", "size", "thrown"},
               Goto(p), Passed', pc # "made"
        PROVE  Inv'
    BY <1>3 DEF Goto, TypeOK, MadeRight
  <1>4. CASE CheckMethod
    <2>1. CASE request.post
      BY <1>3, <1>4, <2>1 DEF CheckMethod, Goto, Passed
    <2>2. CASE ~request.post
      <3>1. Fault(request) = 405 /\ Reject(405) /\ filled = {}
        BY <1>4, <2>2 DEF CheckMethod, Fault, Passed
      <3> QED BY <1>2, <3>1
    <2> QED BY <2>1, <2>2
  <1>5. CASE RecvReqInput
    <2>1. CASE request.json
      BY <1>3, <1>5, <2>1 DEF RecvReqInput, Goto, Passed
    <2>2. CASE ~request.json
      <3>1. Fault(request) = 415 /\ Reject(415) /\ filled = {}
        BY <1>5, <2>2 DEF RecvReqInput, Fault, Passed
      <3> QED BY <1>2, <3>1
    <2> QED BY <2>1, <2>2
  <1>6. CASE CheckObject
    <2>1. CASE request.object
      BY <1>3, <1>6, <2>1 DEF CheckObject, Goto, Passed
    <2>2. CASE ~request.object
      <3>1. Fault(request) = 1001 /\ Reject(1001) /\ filled = {}
        BY <1>6, <2>2 DEF CheckObject, Fault, Passed
      <3> QED BY <1>2, <3>1
    <2> QED BY <2>1, <2>2
  <1>7. CASE CheckTimeout
    <2>1. CASE request.timeout = "notInt"
      BY <1>3, <1>7, <2>1 DEF CheckTimeout, Goto, Passed
    <2>2. CASE request.timeout = "notPositive"
      <3>1. Fault(request) = 1002 /\ Reject(1002) /\ filled = {}
        BY <1>7, <2>2 DEF CheckTimeout, Fault, Passed
      <3> QED BY <1>2, <3>1
    <2>3. CASE request.timeout \in {"absent", "positive"}
      BY <1>3, <1>7, <2>3 DEF CheckTimeout, Goto, Passed
    <2> QED BY <2>1, <2>2, <2>3 DEF TypeOK, Request
  <1>8. CASE CheckServers
    <2>1. CASE request.array
      BY <1>3, <1>8, <2>1 DEF CheckServers, Goto, Passed
    <2>2. CASE ~request.array
      <3>1. Fault(request) = 1003 /\ Reject(1003) /\ filled = {}
        BY <1>8, <2>2 DEF CheckServers, Fault, Passed
      <3> QED BY <1>2, <3>1
    <2> QED BY <2>1, <2>2
  <1>9. CASE CheckSize
    <2>1. CASE TooMany(request.size)
      <3>1. Fault(request) = 1004
        BY <1>9, <2>1 DEF CheckSize, TooMany, Fault, Passed
      <3> QED BY <1>2, <1>9, <2>1, <3>1 DEF CheckSize, Passed
    <2>2. CASE ~TooMany(request.size)
      <3>1. /\ request.size \in 0..MaxPing /\ object' = NewTask(request.size, 0, NoReq)
            /\ pc' = "loop" /\ UNCHANGED <<request, i, filled>>
            /\ i = 0 /\ filled = {}
        BY <1>9, <2>2 DEF CheckSize, TooMany, TypeOK, Request, Passed, NewTask
      <3>2. TypeOK'
        BY <3>1, NewTaskType DEF TypeOK
      <3>3. MadeRight'
        BY <3>1 DEF MadeRight
      <3>4. Passed'
        BY <1>9, <3>1 DEF Passed, CheckSize
      <3> QED BY <3>2, <3>3, <3>4
    <2> QED BY <2>1, <2>2
  <1>10. CASE FillPing
    <2>1. /\ pc = "loop" /\ i < request.size /\ request.size <= MaxPing
          /\ request.size \in Nat /\ i \in Nat
      BY <1>10 DEF FillPing, More, Passed, NewTask, TypeOK, Request
    <2>2. CASE request.badName = i
      BY <1>3, <1>10, <2>1, <2>2 DEF FillPing, Goto, Passed
    <2>3. CASE request.badName # i
      <3>1. /\ i' = (i + 1) % IndexMod /\ filled' = filled \cup {i}
            /\ UNCHANGED <<request, pc, object>>
        BY <1>10, <2>3 DEF FillPing
      <3>2. IF i + 1 < IndexMod THEN i' = i + 1
                                ELSE i' = 0 /\ i + 1 = IndexMod /\ request.size = IndexMod
        BY <2>1, <3>1, WrapsAt
      <3>3. \/ filled' = 0..(i' - 1)
            \/ request.size = IndexMod /\ filled' = 0..(IndexMod - 1)
        <4>1. CASE filled = 0..(i - 1)
          <5>1. filled' = 0..i
            BY <2>1, <3>1, <4>1
          <5> QED BY <2>1, <3>2, <5>1
        <4>2. CASE request.size = IndexMod /\ filled = 0..(IndexMod - 1)
          BY <2>1, <3>1, <4>2
        <4> QED BY <2>1, <4>1, <4>2 DEF Passed
      <3>4. i' \in 0..(IndexMod - 1) /\ i' <= request.size
        BY <2>1, <3>2
      <3>5. TypeOK'
        BY <2>1, <3>1, <3>4 DEF TypeOK, Idx
      <3>6. MadeRight' /\ Passed'
        BY <2>1, <3>1, <3>3, <3>4 DEF MadeRight, Passed
      <3> QED BY <3>5, <3>6
    <2> QED BY <2>2, <2>3
  <1>11. CASE EndLoop
    <2>1. /\ pc = "loop" /\ pc' = "made" /\ UNCHANGED <<request, object, i, filled>>
          /\ i = request.size /\ filled = 0..(i - 1)
      BY <1>11 DEF EndLoop, More, Goto, Passed, NewTask, TypeOK, Request
    <2>2. Fault(request) = 0
      BY <2>1 DEF Fault, Passed, TypeOK, Request
    <2>3. TypeOK' /\ Passed'
      BY <2>1 DEF TypeOK, Passed
    <2>4. MadeRight'
      BY <2>1, <2>2 DEF MadeRight, Passed, NewTask, Fault
    <2> QED BY <2>3, <2>4
  <1> QED BY <1>1, <1>4, <1>5, <1>6, <1>7, <1>8, <1>9, <1>10, <1>11 DEF Next

\* Types, the counter's width included, which the rest of the invariant needs.
THEOREM TypeCorrect == Spec => []TypeOK
  <1>1. Inv /\ [Next]_vars => Inv'
    BY StepInv
  <1>2. Inv => TypeOK
    BY DEF Inv
  <1> QED BY <1>1, <1>2, InitInv, PTL DEF Spec

\* Every request of which handlePingReq makes a task gets the one that XPing
\* assumes: with the first fault it has, or a ping per server, each set up.
THEOREM AlwaysMadeRight == Spec => []MadeRight
  <1>1. Inv /\ [Next]_vars => Inv'
    BY StepInv
  <1>2. Inv => MadeRight
    BY DEF Inv
  <1> QED BY <1>1, <1>2, InitInv, PTL DEF Spec

\* The loop counter wraps in no request but one of IndexMod servers; in any
\* other, every round sets up another ping (the loop of Task::Task).
THEOREM WrapsOnlyWhenFull == Spec => Advances
  <1>1. Inv /\ [Next]_vars => Inv'
    BY StepInv
  <1>2. ASSUME Inv, [Next]_vars
        PROVE  [i' # i =>
                  IF i' = i + 1
                  THEN i \notin filled \/ request.size = IndexMod
                  ELSE i' = 0 /\ request.size = IndexMod /\ filled' = 0..(IndexMod - 1)]_vars
    <2> USE TaskAssumption, PingRequestAssumption
    <2> SUFFICES ASSUME i' # i
                 PROVE  IF i' = i + 1
                        THEN i \notin filled \/ request.size = IndexMod
                        ELSE /\ i' = 0 /\ request.size = IndexMod
                             /\ filled' = 0..(IndexMod - 1)
      OBVIOUS
    <2>1. FillPing
      BY <1>2 DEF Next, CheckMethod, RecvReqInput, CheckObject, CheckTimeout,
                  CheckServers, CheckSize, EndLoop, Goto, Reject, vars
    <2>2. /\ i < request.size /\ request.size <= MaxPing /\ request.size \in Nat
          /\ i \in 0..(IndexMod - 1) /\ i \in Nat
          /\ \/ filled = 0..(i - 1)
             \/ request.size = IndexMod /\ filled = 0..(IndexMod - 1)
      BY <1>2, <2>1 DEF FillPing, More, Inv, Passed, NewTask, TypeOK, Request
    <2>3. i' = (i + 1) % IndexMod /\ filled' = filled \cup {i}
      BY <2>1 DEF FillPing, Goto
    <2>4. IF i + 1 < IndexMod THEN i' = i + 1
                              ELSE i' = 0 /\ i + 1 = IndexMod /\ request.size = IndexMod
      BY <2>2, <2>3, WrapsAt
    <2>5. CASE i + 1 < IndexMod
      BY <2>2, <2>4, <2>5
    <2>6. CASE ~(i + 1 < IndexMod)
      <3>1. i' = 0 /\ i = IndexMod - 1 /\ request.size = IndexMod
        BY <2>2, <2>4, <2>6
      <3>2. CASE filled = 0..(i - 1)
        <4>1. filled' = 0..i
          BY <2>2, <2>3, <3>2
        <4> QED BY <2>2, <3>1, <4>1
      <3>3. CASE filled = 0..(IndexMod - 1)
        <4>1. filled' = filled
          BY <2>2, <2>3, <3>3
        <4> QED BY <2>2, <3>1, <3>3, <4>1
      <3> QED BY <2>2, <3>2, <3>3
    <2> QED BY <2>5, <2>6
  <1> QED BY <1>1, <1>2, InitInv, PTL DEF Spec, Advances

\* An endless request, which the source's limit admits, never comes out of the
\* constructor: the safety half of EndsUnlessEndless.
THEOREM EndlessStays == Spec => [](Endless(request) => ~Returned)
  <1> DEFINE Stays == Endless(request) => ~Returned
  <1>1. Init => Stays
    BY DEF Init, Returned
  <1>2. Inv /\ [Next]_vars => Inv'
    BY StepInv
  <1>3. ASSUME Inv, Stays, [Next]_vars
        PROVE  Stays'
    <2> USE TaskAssumption, PingRequestAssumption
    <2>1. UNCHANGED request
      BY <1>3 DEF Next, CheckMethod, RecvReqInput, CheckObject, CheckTimeout,
                  CheckServers, CheckSize, FillPing, EndLoop, Goto, Reject, vars
    <2> SUFFICES ASSUME Endless(request), Returned'
                 PROVE  FALSE
      BY <2>1 DEF Endless
    <2>2. /\ request.post /\ request.json /\ request.object /\ request.array
          /\ request.timeout \in {"absent", "positive"}
          /\ request.size = IndexMod /\ ~TooMany(request.size)
          /\ request.badName >= IndexMod /\ request.badName \in Nat
      BY <1>3 DEF Endless, TooMany, Inv, TypeOK, Request
    <2>3. pc \notin {"made", "thrown"}
      BY <1>3 DEF Returned
    <2>4. ~(CheckMethod \/ RecvReqInput \/ CheckObject \/ CheckTimeout
             \/ CheckServers \/ CheckSize)
      BY <2>2 DEF CheckMethod, RecvReqInput, CheckObject, CheckTimeout,
                  CheckServers, CheckSize, Goto, Returned
    <2>5. pc = "loop" => /\ object.total = IndexMod
                         /\ i \in 0..(IndexMod - 1)
      BY <1>3, <2>2 DEF Inv, Passed, NewTask, TypeOK
    <2>6. ~EndLoop
      BY <2>5 DEF EndLoop, More
    <2>7. ~FillPing
      BY <2>2, <2>5 DEF FillPing, Returned
    <2>8. ~UNCHANGED vars
      BY <2>3 DEF Returned, vars
    <2> QED BY <1>3, <2>4, <2>6, <2>7, <2>8 DEF Next
  <1> QED BY <1>1, <1>2, <1>3, InitInv, PTL DEF Spec
=============================================================================
