----------------------------- MODULE PingService -----------------------------
(***************************************************************************)
(* What xping promises the clients of /net/ping, with no word of threads,  *)
(* queues or packets: each request is answered at most once; a request     *)
(* with a fault is answered with that fault; any other is answered when    *)
(* every server it names has a verdict, with the servers found alive; no   *)
(* verdict is ever revised; and a good request is turned away as busy only *)
(* while at least Capacity others are open.                                *)
(***************************************************************************)
EXTENDS Task

CONSTANTS Capacity, Sizes, BadCodes

VARIABLE request  \* the life of each request

New == [phase |-> "new"]
Opened(n, code, verdict) ==
  [phase |-> "open", size |-> n, fault |-> code, verdict |-> verdict]
Closed(answer) == [phase |-> "closed", answer |-> answer]

Undecided == [i \in Idx |-> "waiting"]

Init == request = [r \in Req |-> New]

Submit(r) ==
  /\ request[r].phase = "new"
  /\ \/ \E n \in Sizes : request' = [request EXCEPT ![r] = Opened(n, 0, Undecided)]
     \/ \E code \in BadCodes :
          request' = [request EXCEPT ![r] = Opened(0, code, Undecided)]

Healthy(r) == request[r].phase = "open" /\ request[r].fault = 0

Decide(r, i, v) ==
  /\ Healthy(r)
  /\ i < request[r].size
  /\ request[r].verdict[i] = "waiting"
  /\ request' = [request EXCEPT ![r].verdict[i] = v]

TurnAway(r) ==
  /\ Healthy(r)
  /\ request[r].verdict = Undecided
  /\ Cardinality({q \in Req \ {r} : Healthy(q)}) >= Capacity
  /\ request' = [request EXCEPT ![r].fault = BusyCode]

Report(r) ==
  LET alive == {i \in 0..(request[r].size - 1) : request[r].verdict[i] = "alive"}
  IN [http |-> 200, error |-> 0, total |-> request[r].size, alive |-> alive]

Fault(code) ==
  [http  |-> IF code < 1000 THEN code ELSE 200,
   error |-> IF code < 1000 THEN 0 ELSE code,
   total |-> 0, alive |-> {}]

Answer(r) ==
  /\ request[r].phase = "open"
  /\ \/ /\ Healthy(r)
        /\ \A i \in 0..(request[r].size - 1) : request[r].verdict[i] # "waiting"
        /\ request' = [request EXCEPT ![r] = Closed(Report(r))]
     \/ /\ ~Healthy(r)
        /\ request' = [request EXCEPT ![r] = Closed(Fault(request[r].fault))]

Next ==
  \E r \in Req :
    \/ Submit(r)
    \/ \E i \in Idx, v \in {"alive", "lost"} : Decide(r, i, v)
    \/ TurnAway(r)
    \/ Answer(r)

Spec == Init /\ [][Next]_request
=============================================================================
