--------------------------------- MODULE Json ---------------------------------
(***************************************************************************)
(* The JSON side of a request: HttpHandler::recvReqInput parses the body,  *)
(* Task::Task(JsonValue &) looks into the Value, and Task::buildResponse   *)
(* builds another Value and writes it for the client, who reads it again.  *)
(* JsonValue::toString and toFormatString are the other two ways to write  *)
(* what was parsed.  The client is taken to read with the same Reader.     *)
(*                                                                         *)
(* PingRequest has the steps of the constructor, for a request given by    *)
(* what its checks see; here the checks see a real Value.                  *)
(***************************************************************************)
EXTENDS Copy, Writer

CONSTANTS
  Cost,      \* what a lexeme of a request adds to its cost
  MaxCost,   \* bound: the cost of a request
  MaxPing,   \* MAX_PING_PER_TASK
  Costs      \* recvtime - sendtime of pings, in quarters of a millisecond

ASSUME JsonAssumption ==
  /\ Cost \in [Texts -> Nat] /\ MaxCost \in Nat
  /\ MaxPing \in Nat /\ Costs \subseteq Nat

VARIABLES
  phase,    \* "request": the body is read; "task": the Task is made; "answer"
            \* and "copy": a written text is read again; "thrown"; "crashed"
  left,     \* what is left of MaxCost; -1 once the body has ended
  task      \* the Task: its error code and the servers of its pings

vars == <<copyVars, phase, left, task>>

NoTask == [code |-> 0, ips |-> <<>>]

Init ==
  /\ CopyInit
  /\ phase = "request"
  /\ left = MaxCost
  /\ task = NoTask

\* recvReqInput: JsonValue::parse reads the body.  Any text comes from a client.
RecvReqInput ==
  /\ phase = "request"
  /\ \/ FirstElement /\ UNCHANGED left
     \/ \E x \in Texts :
          /\ x.type = "eof" \/ Cost[x] <= left
          /\ Read(x)
          /\ left' = IF x.type = "eof" THEN -1 ELSE left - Cost[x]
  /\ UNCHANGED <<phase, rest, task, original>>

Servers(t) == At(t, <<>>, Name(<<"servers">>))

ServerPath(i) == <<Name(<<"servers">>), Index(i - 1)>>

Timeout(t) == AsInt(Get(t, <<>>, Name(<<"timeout">>), Node("int", 5, <<>>)))

\* How many servers, and what each of them is converted to.
Total(t) == Size(t, <<Name(<<"servers">>)>>)
Ips(t) == [i \in 1..Total(t) |-> AsString(t[ServerPath(i)])]

Made(code, ips) == [throws |-> FALSE, is |-> [code |-> code, ips |-> ips]]

\* Task::Task(JsonValue &).
TaskOf(t) ==
  IF ~IsObject(t[<<>>])                              THEN Made(1001, <<>>)
  ELSE IF Timeout(t).throws                          THEN Throws(NoTask)
  ELSE IF Timeout(t).is <= 0                         THEN Made(1002, <<>>)
  ELSE IF IsNull(Servers(t)) \/ ~IsArray(Servers(t)) THEN Made(1003, <<>>)
  ELSE IF Total(t) > MaxPing                         THEN Made(1004, <<>>)
  ELSE IF \E i \in 1..Total(t) : Ips(t)[i].throws    THEN Throws(NoTask)
  ELSE Made(0, [i \in 1..Total(t) |-> Ips(t)[i].is])

\* handlePingReq: new Task(415), or new Task(jv), which may throw.
MakeTask ==
  /\ phase = "request"
  /\ pc = "done"
  /\ LET made == IF successful THEN TaskOf(tree) ELSE Made(415, <<>>)
     IN /\ phase' = IF made.throws THEN "thrown" ELSE "task"
        /\ task' = made.is
  /\ UNCHANGED <<readerVars, left, rest, original>>

-----------------------------------------------------------------------------
\* The tree once body[path[1]]...[path[n]] = v is done.
Put(t, path, v) ==
  LET reached[i \in 0..Len(path)] ==
        IF i = 0 THEN t
        ELSE Resolve(reached[i - 1], SubSeq(path, 1, i - 1), path[i])
  IN Assign(reached[Len(path)], path, v)

Flag(b) == Leaf("bool", IF b THEN 1 ELSE 0, <<>>)
Text(s) == Leaf("string", 0, s)
Real(quarters) == Leaf("real", quarters, <<>>)

\* body["results"][i][field]
Field(i, field) == <<Name(<<"results">>), Index(i - 1), Name(<<field>>)>>

\* buildResponse: one round of the loop, for a ping that succeeded or not.
PutResult(t, i, ip, ping) ==
  LET lost == Put(Put(t, Field(i, "ip"), Text(ip)),
                  Field(i, "lossRate"), Real(IF ping.success THEN 0 ELSE 4))
  IN IF ping.success THEN Put(lost, Field(i, "avgRtt"), Real(ping.cost)) ELSE lost

Head2(success, message) ==
  Put(Put(NewValue("null"), <<Name(<<"success">>)>>, Flag(success)),
      <<Name(<<"errMsg">>)>>, Text(message))

\* buildResponse.
Response(pings) ==
  LET built[i \in 0..Len(task.ips)] ==
        IF i = 0 THEN Head2(TRUE, <<>>)
        ELSE PutResult(built[i - 1], i, task.ips[i], pings[i])
  IN IF task.code # 0 THEN Head2(FALSE, <<"message">>)
     ELSE built[Len(task.ips)]

\* fillHttpResponse: a code below 1000 is sent without a body.  The client
\* begins to read the text.
BuildResponse ==
  /\ phase = "task"
  /\ task.code \notin 1..999
  /\ \E pings \in [DOMAIN task.ips -> [success : BOOLEAN, cost : Costs]] :
        LET response == Response(pings)
        IN original' = {response} /\ rest' = StyledText("stream", response)
  /\ Parse
  /\ phase' = "answer"
  /\ left' = -1
  /\ UNCHANGED task

\* JsonValue::toString and toFormatString, of what was parsed.
CopyRequest(text) ==
  /\ phase = "request"
  /\ WriteCopy(text)
  /\ phase' = "copy"
  /\ left' = -1
  /\ UNCHANGED task

\* A double is too long for the buffer of valueToString.  What that leads to is
\* undefined: the process ends, or goes on as if nothing were (CopyRequest).
Overrun ==
  /\ phase = "request"
  /\ pc = "done" /\ successful
  /\ \E p \in DOMAIN tree : tree[p].type = "real" /\ Overruns(tree[p].num)
  /\ phase' = "crashed"
  /\ UNCHANGED <<copyVars, left, task>>

ReadText == ReadAgain /\ UNCHANGED <<phase, left, task>>

Next ==
  \/ RecvReqInput \/ MakeTask \/ BuildResponse \/ ReadText
  \/ CopyRequest(FastText(tree)) \/ CopyRequest(StyledText("styled", tree))
  \/ Overrun

Spec == Init /\ [][Next]_vars

\* A call of parse goes on reading; a body ends some time.
FairSpec == Spec /\ WF_vars(RecvReqInput \/ ReadText)

-----------------------------------------------------------------------------
\* Every call of parse returns: after a syntax error too, in the middle of any
\* number of open containers.
Finishes == []<>(pc = "done")
=============================================================================
