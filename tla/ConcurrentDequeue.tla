-------------------------- MODULE ConcurrentDequeue --------------------------
(***************************************************************************)
(* common::ConcurrentDequeue (CommonList.h), the queue between the threads *)
(* of xping: a doubly linked list between two sentinel nodes, under a spin *)
(* lock.  One action per step another thread could see: taking and giving  *)
(* back the lock, and each write to a link.  pushHead allocates its node   *)
(* before the lock; popTail reads its node and deletes it after the lock.  *)
(*                                                                         *)
(* The operations here are the two that xping uses.                        *)
(***************************************************************************)
EXTENDS Naturals, Sequences, FiniteSets

CONSTANTS
  Thread,    \* the threads that use the queue
  Data,      \* T
  Node,      \* the addresses new DequeueNode can return
  HeadNode, TailNode,  \* the sentinels
  Null,      \* not an address: NULL, or a field no one has written
  Free       \* no thread

ASSUME DequeueAssumption ==
  /\ HeadNode \notin Node /\ TailNode \notin Node /\ HeadNode # TailNode
  /\ Null \notin Node \cup {HeadNode, TailNode} \cup Data
  /\ Free \notin Thread

Ptr == Node \cup {HeadNode, TailNode}

VARIABLES
  nxt, prv, data,  \* the fields of the nodes
  alloc,           \* the allocated nodes, without the sentinels
  spinlock,        \* the thread that holds it
  pc,              \* where each thread is
  node,            \* each thread's local variable node
  ret,             \* what popTail has put in its reference argument
  order            \* history: the nodes in the list, oldest first

links == <<nxt, prv>>
local == <<pc, node, ret>>
vars  == <<nxt, prv, data, alloc, spinlock, pc, node, ret, order>>

\* Named for the next step: "toX" is before X.
PushSteps == {"toLink", "toPublish", "toNextPrev", "toPrev", "toPushUnlock"}
PopSteps  == {"toTest", "toTailPrev", "toUnlink", "toPopUnlock", "toEmptyUnlock"}
Critical  == PushSteps \cup PopSteps
PC == {"out", "toPushLock", "toPopLock", "toRead", "toDelete"} \cup Critical

TypeOK ==
  /\ nxt \in [Ptr -> Ptr \cup {Null}]
  /\ prv \in [Ptr -> Ptr \cup {Null}]
  /\ data \in [Ptr -> Data \cup {Null}]
  /\ alloc \subseteq Node
  /\ spinlock \in Thread \cup {Free}
  /\ pc \in [Thread -> PC]
  /\ node \in [Thread -> Node \cup {Null}]
  /\ ret \in [Thread -> Data \cup {Null}]
  /\ order \in Seq(Node)

Init ==
  /\ nxt = [p \in Ptr |-> IF p = HeadNode THEN TailNode ELSE Null]
  /\ prv = [p \in Ptr |-> IF p = TailNode THEN HeadNode ELSE Null]
  /\ data = [p \in Ptr |-> Null]
  /\ alloc = {}
  /\ spinlock = Free
  /\ pc = [t \in Thread |-> "out"]
  /\ node = [t \in Thread |-> Null]
  /\ ret = [t \in Thread |-> Null]
  /\ order = <<>>

Step(t, from, to) ==
  /\ pc[t] = from
  /\ pc' = [pc EXCEPT ![t] = to]

\* Mutant: the lock is taken whoever holds it.
LockAnyway(t) == spinlock' = t

Lock(t) ==
  /\ spinlock = Free
  /\ spinlock' = t

\* delete node.  The next owner of the memory may have written anything.
Delete(t) ==
  /\ alloc' = alloc \ {node[t]}
  /\ nxt' = [nxt EXCEPT ![node[t]] = Null]
  /\ prv' = [prv EXCEPT ![node[t]] = Null]
  /\ data' = [data EXCEPT ![node[t]] = Null]
  /\ node' = [node EXCEPT ![t] = Null]

-----------------------------------------------------------------------------
\* pushHead: new DequeueNode and its data.
PushCall(t) ==
  /\ Step(t, "out", "toPushLock")
  /\ \E n \in Node \ alloc, d \in Data :
       /\ alloc' = alloc \cup {n}
       /\ data' = [data EXCEPT ![n] = d]
       /\ node' = [node EXCEPT ![t] = n]
  /\ UNCHANGED <<links, spinlock, ret, order>>

PushLock(t) ==
  /\ Step(t, "toPushLock", "toLink")
  /\ Lock(t)
  /\ UNCHANGED <<links, data, alloc, node, ret, order>>

\* pthread_spin_lock reports an error, for whatever reason: the push is off.
PushFails(t) ==
  /\ Step(t, "toPushLock", "out")
  /\ Delete(t)
  /\ UNCHANGED <<spinlock, ret, order>>

\* node->next = head->next
PushLink(t) ==
  /\ Step(t, "toLink", "toPublish")
  /\ nxt' = [nxt EXCEPT ![node[t]] = nxt[HeadNode]]
  /\ UNCHANGED <<prv, data, alloc, spinlock, node, ret, order>>

\* head->next = node
PushPublish(t) ==
  /\ Step(t, "toPublish", "toNextPrev")
  /\ nxt' = [nxt EXCEPT ![HeadNode] = node[t]]
  /\ order' = Append(order, node[t])
  /\ UNCHANGED <<prv, data, alloc, spinlock, node, ret>>

\* node->next->prev = node.  Mutant: head, as for an empty list, is meant.
NextPrevOfHead(t) ==
  /\ Step(t, "toNextPrev", "toPrev")
  /\ prv' = [prv EXCEPT ![nxt[HeadNode]] = node[t]]
  /\ UNCHANGED <<nxt, data, alloc, spinlock, node, ret, order>>

PushNextPrev(t) ==
  /\ Step(t, "toNextPrev", "toPrev")
  /\ prv' = [prv EXCEPT ![nxt[node[t]]] = node[t]]
  /\ UNCHANGED <<nxt, data, alloc, spinlock, node, ret, order>>

\* node->prev = head
PushPrev(t) ==
  /\ Step(t, "toPrev", "toPushUnlock")
  /\ prv' = [prv EXCEPT ![node[t]] = HeadNode]
  /\ UNCHANGED <<nxt, data, alloc, spinlock, node, ret, order>>

PushUnlock(t) ==
  /\ Step(t, "toPushUnlock", "out")
  /\ spinlock' = Free
  /\ node' = [node EXCEPT ![t] = Null]
  /\ UNCHANGED <<links, data, alloc, ret, order>>

-----------------------------------------------------------------------------
PopCall(t) ==
  /\ Step(t, "out", "toPopLock")
  /\ ret' = [ret EXCEPT ![t] = Null]
  /\ UNCHANGED <<links, data, alloc, spinlock, node, order>>

PopLock(t) ==
  /\ Step(t, "toPopLock", "toTest")
  /\ Lock(t)
  /\ UNCHANGED <<links, data, alloc, node, ret, order>>

\* The same of a pop, which returns false as if the queue were empty.
PopFails(t) ==
  /\ Step(t, "toPopLock", "out")
  /\ UNCHANGED <<links, data, alloc, spinlock, node, ret, order>>

\* tail->prev == head, or node = tail->prev
PopTest(t) ==
  /\ IF prv[TailNode] = HeadNode
     THEN /\ Step(t, "toTest", "toEmptyUnlock")
          /\ UNCHANGED node
     ELSE /\ Step(t, "toTest", "toTailPrev")
          /\ node' = [node EXCEPT ![t] = prv[TailNode]]
  /\ UNCHANGED <<links, data, alloc, spinlock, ret, order>>

\* tail->prev = node->prev
PopTailPrev(t) ==
  /\ Step(t, "toTailPrev", "toUnlink")
  /\ prv' = [prv EXCEPT ![TailNode] = prv[node[t]]]
  /\ UNCHANGED <<nxt, data, alloc, spinlock, node, ret, order>>

\* tail->prev->next = tail
PopUnlink(t) ==
  /\ Step(t, "toUnlink", "toPopUnlock")
  /\ nxt' = [nxt EXCEPT ![prv[TailNode]] = TailNode]
  /\ order' = Tail(order)
  /\ UNCHANGED <<prv, data, alloc, spinlock, node, ret>>

PopUnlock(t) ==
  /\ \/ Step(t, "toPopUnlock", "toRead")
     \/ Step(t, "toEmptyUnlock", "out")
  /\ spinlock' = Free
  /\ UNCHANGED <<links, data, alloc, node, ret, order>>

\* ret = node->data
PopRead(t) ==
  /\ Step(t, "toRead", "toDelete")
  /\ ret' = [ret EXCEPT ![t] = data[node[t]]]
  /\ UNCHANGED <<links, data, alloc, spinlock, node, order>>

\* Mutant: the node is not deleted, as in tryPopTail.
PopKeep(t) ==
  /\ Step(t, "toDelete", "out")
  /\ node' = [node EXCEPT ![t] = Null]
  /\ UNCHANGED <<links, data, alloc, spinlock, ret, order>>

PopDelete(t) ==
  /\ Step(t, "toDelete", "out")
  /\ Delete(t)
  /\ UNCHANGED <<spinlock, ret, order>>

PushHead(t) ==
  \/ PushCall(t) \/ PushLock(t) \/ PushFails(t) \/ PushLink(t)
  \/ PushPublish(t) \/ PushNextPrev(t) \/ PushPrev(t) \/ PushUnlock(t)

PopTail(t) ==
  \/ PopCall(t) \/ PopLock(t) \/ PopFails(t) \/ PopTest(t) \/ PopTailPrev(t)
  \/ PopUnlink(t) \/ PopUnlock(t) \/ PopRead(t) \/ PopDelete(t)

Next == \E t \in Thread : PushHead(t) \/ PopTail(t)

Spec == Init /\ [][Next]_vars

-----------------------------------------------------------------------------
\* The list of the nodes of q, from the tail sentinel (0) to the head sentinel.
Nth(q, k) == IF k = 0 THEN TailNode
             ELSE IF k \in 1..Len(q) THEN q[k] ELSE HeadNode

At(k) == Nth(order, k)

\* Following next from head leads through the queue, newest to oldest, to
\* tail, at every moment: also in the middle of a push or a pop.
NextLinks == \A k \in 0..Len(order) : nxt[At(k + 1)] = At(k)

\* The prev link that leads away from At(k) is still to be written.
Unwritten(k) ==
  \E t \in Thread :
    \/ pc[t] = "toNextPrev" /\ k = Len(order) - 1
    \/ pc[t] \in {"toNextPrev", "toPrev"} /\ k = Len(order)
    \/ pc[t] = "toUnlink" /\ k = 0

\* Following prev from tail leads back the same way, but for the links that a
\* push or a pop under way has still to write.
PrevLinks == \A k \in 0..Len(order) : Unwritten(k) \/ prv[At(k)] = At(k + 1)

\* The threads that hold a node: one that is not yet in the list, or one that
\* is out of it and not yet deleted.
Holds(t) == pc[t] \in {"toPushLock", "toLink", "toPublish", "toPopUnlock",
                       "toRead", "toDelete"}

\* Every allocated node is in the list, once, or held by one thread: no node
\* is lost, read after its deletion or deleted twice.
NodesOwned ==
  /\ \A j, k \in 1..Len(order) : order[j] = order[k] => j = k
  /\ \A k \in 1..Len(order) : order[k] \in alloc
  /\ \A t \in Thread : Holds(t) =>
       /\ node[t] \in alloc
       /\ \A k \in 1..Len(order) : order[k] # node[t]
       /\ \A u \in Thread \ {t} : Holds(u) => node[u] # node[t]
  /\ \A n \in alloc : \/ \E k \in 1..Len(order) : order[k] = n
                      \/ \E t \in Thread : Holds(t) /\ node[t] = n

\* At most one thread is between the lock and the unlock of either operation,
\* and it is the one that holds the lock.
Exclusive == \A t \in Thread : pc[t] \in Critical => spinlock = t

\* What the thread in the critical section knows of its node.
Progress ==
  \A t \in Thread :
    /\ pc[t] = "toPublish" => nxt[node[t]] = nxt[HeadNode]
    /\ pc[t] \in {"toNextPrev", "toPrev", "toPushUnlock"} =>
         order # <<>> /\ node[t] = order[Len(order)]
    /\ pc[t] \in {"toTailPrev", "toUnlink"} =>
         order # <<>> /\ node[t] = order[1]
    /\ pc[t] = "toUnlink" => prv[TailNode] = At(2)
    /\ pc[t] = "toEmptyUnlock" => order = <<>>

\* The inductive invariant.
IndInv ==
  /\ TypeOK /\ Exclusive /\ NextLinks /\ PrevLinks /\ NodesOwned /\ Progress

-----------------------------------------------------------------------------
(***************************************************************************)
(* ConcurrentDequeue implements Fifo.  A push takes effect when head->next *)
(* is written, a pop when the node before tail is unlinked.                *)
(***************************************************************************)
CallOf(t) ==
  CASE pc[t] = "out" -> [state |-> "outside"]
    [] pc[t] \in {"toPushLock", "toLink", "toPublish"} ->
         [state |-> "pushing", data |-> data[node[t]]]
    [] pc[t] \in {"toNextPrev", "toPrev", "toPushUnlock"} -> [state |-> "pushed"]
    [] pc[t] \in {"toPopLock", "toTest", "toTailPrev", "toUnlink"} ->
         [state |-> "popping"]
    [] pc[t] \in {"toPopUnlock", "toRead"} ->
         [state |-> "popped", data |-> data[node[t]]]
    [] pc[t] = "toDelete" -> [state |-> "popped", data |-> ret[t]]
    [] pc[t] = "toEmptyUnlock" -> [state |-> "empty"]

Queue == INSTANCE Fifo WITH
  queue <- [k \in 1..Len(order) |-> data[order[k]]],
  call  <- [t \in Thread |-> CallOf(t)]

\* The queue of every pair of threads behaves as a first-in first-out queue.
ImplementsFifo == Queue!Spec
=============================================================================
