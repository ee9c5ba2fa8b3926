------------------------------- MODULE Shared -------------------------------
(***************************************************************************)
(* What the HTTP thread and the task worker thread share: the heap of Task *)
(* objects, which they pass to each other by address, and two queues of    *)
(* addresses, each with the pipe whose bytes wake up its reader.           *)
(*                                                                         *)
(* A task's address is the only name the code has for it, so an address    *)
(* is what the queues and the maps of both threads hold.  delete leaves    *)
(* the bytes of the object where they are: task[a] keeps the last contents *)
(* of the memory at a, and live is the set of addresses new has returned   *)
(* and delete has not taken back.                                          *)
(***************************************************************************)
EXTENDS Task, Sequences

CONSTANTS
  Addr,     \* the addresses new Task can return
  NoTask,   \* not an address
  PipeCap   \* how many bytes a pipe holds before write(2) blocks

ASSUME SharedAssumption ==
  /\ NoTask \notin Addr
  /\ IsFiniteSet(Addr)
  /\ PipeCap \in Nat \ {0}

VARIABLES
  task,           \* memory: [Addr -> TaskRecord]
  live,           \* the allocated addresses
  taskQueue,      \* TaskWorker::taskQueue, oldest first
  taskPipe,       \* bytes in the worker's pipe
  responseQueue,  \* HttpServer::responseQueue, oldest first
  respPipe        \* bytes in the HTTP server's pipe

heapVars  == <<task, live>>
todoVars  == <<taskQueue, taskPipe>>
replyVars == <<responseQueue, respPipe>>

SharedTypeOK ==
  /\ task \in [Addr -> TaskRecord]
  /\ live \subseteq Addr
  /\ taskQueue \in Seq(Addr)
  /\ taskPipe \in 0..PipeCap
  /\ responseQueue \in Seq(Addr)
  /\ respPipe \in 0..PipeCap

SharedInit ==
  /\ task = [a \in Addr |-> NewTask(0, 0, NoReq)]
  /\ live = {}
  /\ taskQueue = <<>>
  /\ taskPipe = 0
  /\ responseQueue = <<>>
  /\ respPipe = 0

\* The members of a queue.
Members(q) == {q[k] : k \in 1..Len(q)}
=============================================================================
