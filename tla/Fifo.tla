-------------------------------- MODULE Fifo --------------------------------
(***************************************************************************)
(* What ConcurrentDequeue promises the threads that share one: pushHead    *)
(* and popTail take effect at one instant between their call and their     *)
(* return, and popTail returns what has been in the queue for longest, or  *)
(* reports that it was empty at that instant.  Either may return at once,  *)
(* having done nothing, when the lock is refused.                          *)
(***************************************************************************)
EXTENDS Sequences

CONSTANTS Thread, Data

VARIABLES
  queue,  \* the data in the queue, oldest first
  call    \* what each thread is doing

Outside     == [state |-> "outside"]
Pushing(d)  == [state |-> "pushing", data |-> d]
Pushed      == [state |-> "pushed"]
Popping     == [state |-> "popping"]
Popped(d)   == [state |-> "popped", data |-> d]
FoundEmpty  == [state |-> "empty"]

Init ==
  /\ queue = <<>>
  /\ call = [t \in Thread |-> Outside]

Call(t) ==
  /\ call[t] = Outside
  /\ call' \in {[call EXCEPT ![t] = c] : c \in {Popping} \cup {Pushing(d) : d \in Data}}
  /\ UNCHANGED queue

Push(t) ==
  /\ call[t].state = "pushing"
  /\ queue' = Append(queue, call[t].data)
  /\ call' = [call EXCEPT ![t] = Pushed]

Pop(t) ==
  /\ call[t] = Popping
  /\ queue # <<>>
  /\ queue' = Tail(queue)
  /\ call' = [call EXCEPT ![t] = Popped(Head(queue))]

PopEmpty(t) ==
  /\ call[t] = Popping
  /\ queue = <<>>
  /\ call' = [call EXCEPT ![t] = FoundEmpty]
  /\ UNCHANGED queue

Refuse(t) ==
  /\ call[t].state \in {"pushing", "popping"}
  /\ call' = [call EXCEPT ![t] = Outside]
  /\ UNCHANGED queue

Return(t) ==
  /\ call[t].state \in {"pushed", "popped", "empty"}
  /\ call' = [call EXCEPT ![t] = Outside]
  /\ UNCHANGED queue

Next ==
  \E t \in Thread :
    Call(t) \/ Push(t) \/ Pop(t) \/ PopEmpty(t) \/ Refuse(t) \/ Return(t)

Spec == Init /\ [][Next]_<<queue, call>>
=============================================================================
