----------------------- MODULE ConcurrentDequeueProofs -----------------------
(***************************************************************************)
(* The theorems of ConcurrentDequeue, for any number of threads, addresses *)
(* and values: IndInv is inductive, with one lemma per step of pushHead    *)
(* and popTail, and the list implements Fifo.                              *)
(***************************************************************************)
EXTENDS ConcurrentDequeue, TLAPS

\* Appending a node puts it between the last one and the head sentinel.
LEMMA NthAppend ==
  ASSUME NEW q \in Seq(Node), NEW n \in Node
  PROVE  /\ Append(q, n) \in Seq(Node) /\ Len(Append(q, n)) = Len(q) + 1
         /\ \A k \in 0..Len(q) : Nth(Append(q, n), k) = Nth(q, k)
         /\ Nth(Append(q, n), Len(q) + 1) = n
         /\ Nth(Append(q, n), Len(q) + 2) = HeadNode
  BY DEF Nth

\* Taking the oldest node off moves every other one place down.
LEMMA NthTail ==
  ASSUME NEW q \in Seq(Node), q # <<>>
  PROVE  /\ Tail(q) \in Seq(Node) /\ Len(Tail(q)) = Len(q) - 1 /\ Len(q) >= 1
         /\ Nth(Tail(q), 0) = TailNode
         /\ \A k \in 1..Len(q) : Nth(Tail(q), k) = Nth(q, k + 1)
  BY DEF Nth

\* Nth lists the nodes between the two sentinels.
LEMMA NthType ==
  ASSUME NEW q \in Seq(Node)
  PROVE  /\ Len(q) \in Nat
         /\ \A k \in Nat : Nth(q, k) \in Ptr
         /\ \A k \in 1..Len(q) : Nth(q, k) = q[k] /\ q[k] \in Node
         /\ Nth(q, 0) = TailNode
         /\ Nth(q, Len(q) + 1) = HeadNode
  BY DEF Nth, Ptr

\* A queue that holds each node once leads through each address once.
LEMMA NthDistinct ==
  ASSUME NEW q \in Seq(Node),
         \A j, k \in 1..Len(q) : q[j] = q[k] => j = k
  PROVE  \A j, k \in 0..(Len(q) + 1) : Nth(q, j) = Nth(q, k) => j = k
  <1> SUFFICES ASSUME NEW j \in 0..(Len(q) + 1), NEW k \in 0..(Len(q) + 1),
                      Nth(q, j) = Nth(q, k)
               PROVE  j = k
    OBVIOUS
  <1>1. Nth(q, 0) = TailNode /\ Nth(q, Len(q) + 1) = HeadNode
        /\ \A i \in 1..Len(q) : Nth(q, i) = q[i] /\ q[i] \in Node
    BY NthType
  <1> QED BY <1>1, DequeueAssumption

\* Whoever is in the critical section is there alone.
LEMMA OneCritical ==
  ASSUME Exclusive, NEW t \in Thread, pc[t] \in Critical
  PROVE  \A u \in Thread : pc[u] \in Critical => u = t
  BY DEF Exclusive

\* A node that has just been allocated is in no one else's hands.
LEMMA PushCallStep ==
  ASSUME IndInv, NEW t \in Thread, PushCall(t)
  PROVE  IndInv'
  <1> USE DEF IndInv, Step, PC, PushSteps, PopSteps, Critical, links, Ptr, PushCall
  <1>1. TypeOK'
    BY SMTT(20) DEF TypeOK
  <1>2. Exclusive'
    BY SMTT(20) DEF TypeOK, Exclusive
  <1>3. NextLinks'
    BY DEF NextLinks, At
  <1>4. PrevLinks'
    BY DEF TypeOK, PrevLinks, Unwritten, At
  <1>5. NodesOwned'
    BY DEF TypeOK, NodesOwned, Holds
  <1>6. Progress'
    BY DEF TypeOK, Progress, At
  <1> QED BY <1>1, <1>2, <1>3, <1>4, <1>5, <1>6

\* The lock is free only while no one is in the critical section.
LEMMA PushLockStep ==
  ASSUME IndInv, NEW t \in Thread, PushLock(t)
  PROVE  IndInv'
  <1> USE DequeueAssumption DEF IndInv, Step, PC, PushSteps, Critical, links,
          PushLock, Lock
  <1>1. TypeOK'
    BY SMTT(20) DEF TypeOK
  <1>2. Exclusive'
    BY SMTT(20) DEF TypeOK, Exclusive
  <1>3. NextLinks'
    BY DEF NextLinks, At
  <1>4. PrevLinks'
    BY DEF TypeOK, PrevLinks, Unwritten, At
  <1>5. NodesOwned'
    BY DEF TypeOK, NodesOwned, Holds
  <1>6. Progress'
    BY DEF TypeOK, Progress, At
  <1> QED BY <1>1, <1>2, <1>3, <1>4, <1>5, <1>6

\* The first write of a push changes a node that is not in the list.
LEMMA PushLinkStep ==
  ASSUME IndInv, NEW t \in Thread, PushLink(t)
  PROVE  IndInv'
  <1> USE DequeueAssumption DEF IndInv, Step, PC, PushSteps, Critical, Ptr,
          PushLink
  <1>1. TypeOK'
    <2>1. nxt' \in [Ptr -> Ptr \cup {Null}]
      BY DEF TypeOK
    <2> QED BY <2>1 DEF TypeOK
  <1>2. Exclusive'
    BY SMTT(20) DEF TypeOK, Exclusive
  <1>3. NextLinks'
    <2>1. \A k \in 1..(Len(order) + 1) : At(k) # node[t]
      BY NthType DEF TypeOK, NodesOwned, Holds, At, Nth
    <2>2. \A k \in 0..Len(order) : At(k + 1) \in Ptr
      BY NthType DEF TypeOK, At
    <2> QED BY <2>1, <2>2, NthType DEF TypeOK, NextLinks, At
  <1>4. PrevLinks'
    BY DEF TypeOK, PrevLinks, Unwritten, At
  <1>5. NodesOwned'
    BY DEF TypeOK, NodesOwned, Holds
  <1>6. Progress'
    BY SMTT(20) DEF TypeOK, Progress, At, Exclusive, NodesOwned, Holds
  <1> QED BY <1>1, <1>2, <1>3, <1>4, <1>5, <1>6

\* Writing head->next makes the node the newest of the list: its next link is
\* there already, the prev links to it and from it are still to be written.
LEMMA PushPublishStep ==
  ASSUME IndInv, NEW t \in Thread, PushPublish(t)
  PROVE  IndInv'
  <1> USE DequeueAssumption DEF IndInv, Step, PC, PushSteps, PopSteps,
          Critical, Ptr, PushPublish
  <1> DEFINE n == node[t]  L == Len(order)
  <1>0. /\ n \in Node /\ L \in Nat /\ L' = L + 1
        /\ \A k \in 0..L : Nth(order', k) = At(k) /\ At(k) \in Ptr
        /\ Nth(order', L + 1) = n /\ Nth(order', L + 2) = HeadNode
        /\ At(L + 1) = HeadNode
        /\ \A k \in 1..L : At(k) = order[k] /\ order[k] \in Node
    <2>1. n \in Node /\ order \in Seq(Node) /\ order' = Append(order, n)
      BY DEF TypeOK, NodesOwned, Holds
    <2>2. /\ L' = L + 1
          /\ \A k \in 0..L : Nth(order', k) = Nth(order, k)
          /\ Nth(order', L + 1) = n /\ Nth(order', L + 2) = HeadNode
      BY <2>1, NthAppend
    <2>3. /\ L \in Nat /\ Nth(order, L + 1) = HeadNode
          /\ \A k \in Nat : Nth(order, k) \in Ptr
          /\ \A k \in 1..L : Nth(order, k) = order[k] /\ order[k] \in Node
      BY <2>1, NthType
    <2> QED BY <2>1, <2>2, <2>3 DEF At
  <1>1. TypeOK'
    <2>1. nxt' \in [Ptr -> Ptr \cup {Null}]
      BY DEF TypeOK
    <2>2. order' \in Seq(Node)
      BY NthAppend DEF TypeOK, NodesOwned, Holds
    <2> QED BY <2>1, <2>2 DEF TypeOK
  <1>2. Exclusive'
    BY SMTT(20) DEF TypeOK, Exclusive
  <1>3. NextLinks'
    <2> SUFFICES ASSUME NEW k \in 0..(L + 1) PROVE nxt'[Nth(order', k + 1)] = Nth(order', k)
      BY <1>0 DEF NextLinks, At
    <2>1. CASE k < L
      <3>1. Nth(order', k + 1) = At(k + 1) /\ At(k + 1) \in Node /\ Nth(order', k) = At(k)
        BY <1>0, <2>1
      <3>2. nxt[At(k + 1)] = At(k)
        BY <1>0, <2>1 DEF NextLinks
      <3> QED BY <3>1, <3>2 DEF TypeOK
    <2>2. CASE k = L
      <3>1. nxt[n] = At(L)
        <4>1. nxt[n] = nxt[HeadNode]
          BY DEF Progress
        <4>2. nxt[At(L + 1)] = At(L)
          BY <1>0 DEF NextLinks
        <4> QED BY <1>0, <4>1, <4>2
      <3>2. nxt'[n] = nxt[n]
        BY <1>0 DEF TypeOK
      <3> QED BY <1>0, <2>2, <3>1, <3>2
    <2>3. CASE k = L + 1
      <3>1. nxt'[HeadNode] = n
        BY DEF TypeOK
      <3>2. k + 1 = L + 2
        BY <1>0, <2>3
      <3> QED BY <1>0, <2>3, <3>1, <3>2
    <2> QED BY <1>0, <2>1, <2>2, <2>3
  <1>4. PrevLinks'
    <2> SUFFICES ASSUME NEW k \in 0..(L + 1)
                 PROVE Unwritten(k)' \/ prv'[Nth(order', k)] = Nth(order', k + 1)
      BY <1>0 DEF PrevLinks, At
    <2>1. CASE k >= L
      BY <1>0, <2>1 DEF Unwritten, TypeOK
    <2>2. CASE k < L
      <3>1. ~Unwritten(k)
        BY OneCritical DEF Unwritten
      <3> QED BY <1>0, <2>2, <3>1 DEF PrevLinks
    <2> QED BY <1>0, <2>1, <2>2
  <1>5. NodesOwned'
    <2>1. \A k \in 1..L : order'[k] = order[k]
      BY DEF TypeOK
    <2>2. order'[L + 1] = n
      BY DEF TypeOK
    <2>3. 1..L' = (1..L) \cup {L + 1}
      BY <1>0
    <2>4. \A u \in Thread : Holds(u)' => Holds(u) /\ u # t
      BY DEF Holds, TypeOK
    <2>5. \A u \in Thread \ {t} : Holds(u) => Holds(u)'
      BY DEF Holds, TypeOK
    <2>6. Holds(t)
      BY DEF Holds
    <2> HIDE DEF n, L
    <2>7. \A j, k \in 1..L' : order'[j] = order'[k] => j = k
      BY <1>0, <2>1, <2>2, <2>3, <2>6 DEF NodesOwned, n, L
    <2>8. \A k \in 1..L' : order'[k] \in alloc'
      BY <1>0, <2>1, <2>2, <2>3, <2>6 DEF NodesOwned, n, L
    <2>9. \A u \in Thread : Holds(u)' =>
            /\ node'[u] \in alloc'
            /\ \A k \in 1..L' : order'[k] # node'[u]
            /\ \A v \in Thread \ {u} : Holds(v)' => node'[v] # node'[u]
      BY <1>0, <2>1, <2>2, <2>3, <2>4, <2>6 DEF NodesOwned, n, L
    <2>10. \A m \in alloc' : \/ \E k \in 1..L' : order'[k] = m
                             \/ \E u \in Thread : Holds(u)' /\ node'[u] = m
      <3> SUFFICES ASSUME NEW m \in alloc, ~\E k \in 1..L' : order'[k] = m
                   PROVE \E u \in Thread : Holds(u)' /\ node'[u] = m
        OBVIOUS
      <3>1. m # n
        BY <2>2, <2>3
      <3>2. ~\E k \in 1..L : order[k] = m
        BY <2>1, <2>3
      <3>3. PICK u \in Thread : Holds(u) /\ node[u] = m
        BY <3>2 DEF NodesOwned, L
      <3> QED BY <2>5, <3>1, <3>3 DEF n
    <2> QED BY <2>7, <2>8, <2>9, <2>10 DEF NodesOwned, L
  <1>6. Progress'
    BY DEF TypeOK, Progress, At, Exclusive
  <1> QED BY <1>1, <1>2, <1>3, <1>4, <1>5, <1>6

\* node->next is the node that was the newest, or tail.
LEMMA PushNextPrevStep ==
  ASSUME IndInv, NEW t \in Thread, PushNextPrev(t)
  PROVE  IndInv'
  <1> USE DEF IndInv, Step, PC, PushSteps, PopSteps, Critical, Ptr, PushNextPrev
  <1>1. TypeOK'
    <2>1. prv' \in [Ptr -> Ptr \cup {Null}]
      BY DEF TypeOK
    <2> QED BY <2>1 DEF TypeOK
  <1>2. Exclusive'
    BY SMTT(20) DEF TypeOK, Exclusive
  <1>3. NextLinks'
    BY DEF NextLinks, At
  <1>4. PrevLinks'
    <2> DEFINE L == Len(order)
    <2>1. /\ L \in Nat /\ L >= 1 /\ node[t] = At(L)
          /\ \A k \in 0..(L + 1) : At(k) \in Ptr
      BY NthType DEF TypeOK, Progress, At
    <2>2. nxt[node[t]] = At(L - 1)
      BY <2>1 DEF NextLinks
    <2> SUFFICES ASSUME NEW k \in 0..L
                 PROVE Unwritten(k)' \/ prv'[At(k)] = At(k + 1)
      BY DEF PrevLinks, At
    <2>3. CASE k = L
      BY <2>3 DEF Unwritten, TypeOK
    <2>4. CASE k = L - 1
      BY <2>1, <2>2, <2>4 DEF TypeOK
    <2>5. CASE k < L - 1
      <3>1. At(k) # At(L - 1)
        <4>1. \A i, j \in 0..(L + 1) : At(i) = At(j) => i = j
          BY NthDistinct DEF TypeOK, NodesOwned, At
        <4> QED BY <2>1, <2>5, <4>1
      <3>2. ~Unwritten(k)
        BY <2>5, OneCritical DEF Unwritten
      <3> QED BY <2>1, <2>2, <3>1, <3>2 DEF PrevLinks, TypeOK
    <2> QED BY <2>1, <2>3, <2>4, <2>5
  <1>5. NodesOwned'
    BY DEF TypeOK, NodesOwned, Holds
  <1>6. Progress'
    BY DEF TypeOK, Progress, At, Exclusive
  <1> QED BY <1>1, <1>2, <1>3, <1>4, <1>5, <1>6

\* The last write of a push completes the prev links.
LEMMA PushPrevStep ==
  ASSUME IndInv, NEW t \in Thread, PushPrev(t)
  PROVE  IndInv'
  <1> USE DEF IndInv, Step, PC, PushSteps, PopSteps, Critical, Ptr, PushPrev
  <1>1. TypeOK'
    <2>1. prv' \in [Ptr -> Ptr \cup {Null}]
      BY DEF TypeOK
    <2> QED BY <2>1 DEF TypeOK
  <1>2. Exclusive'
    BY SMTT(20) DEF TypeOK, Exclusive
  <1>3. NextLinks'
    BY DEF NextLinks, At
  <1>4. PrevLinks'
    <2> DEFINE L == Len(order)
    <2>1. /\ L \in Nat /\ L >= 1 /\ node[t] = At(L) /\ At(L + 1) = HeadNode
          /\ \A k \in 0..(L + 1) : At(k) \in Ptr
      BY NthType DEF TypeOK, Progress, At
    <2> SUFFICES ASSUME NEW k \in 0..L
                 PROVE prv'[At(k)] = At(k + 1)
      BY DEF PrevLinks, At
    <2>2. CASE k = L
      BY <2>1, <2>2 DEF TypeOK
    <2>3. CASE k < L
      <3>1. At(k) # At(L)
        <4>1. \A i, j \in 0..(L + 1) : At(i) = At(j) => i = j
          BY NthDistinct DEF TypeOK, NodesOwned, At
        <4> QED BY <2>1, <2>3, <4>1
      <3>2. ~Unwritten(k)
        BY <2>3, OneCritical DEF Unwritten
      <3> QED BY <2>1, <3>1, <3>2 DEF PrevLinks, TypeOK
    <2> QED BY <2>1, <2>2, <2>3
  <1>5. NodesOwned'
    BY DEF TypeOK, NodesOwned, Holds
  <1>6. Progress'
    BY DEF TypeOK, Progress, At, Exclusive
  <1> QED BY <1>1, <1>2, <1>3, <1>4, <1>5, <1>6

\* A push gives back the lock with all links written.
LEMMA PushUnlockStep ==
  ASSUME IndInv, NEW t \in Thread, PushUnlock(t)
  PROVE  IndInv'
  <1> USE DEF IndInv, Step, PC, PushSteps, PopSteps, Critical, links, PushUnlock
  <1>1. TypeOK'
    BY SMTT(20) DEF TypeOK
  <1>2. Exclusive'
    BY SMTT(20) DEF TypeOK, Exclusive
  <1>3. NextLinks'
    BY DEF NextLinks, At
  <1>4. PrevLinks'
    BY DEF TypeOK, PrevLinks, Unwritten, At
  <1>5. NodesOwned'
    BY DEF TypeOK, NodesOwned, Holds
  <1>6. Progress'
    BY DEF TypeOK, Progress, At
  <1> QED BY <1>1, <1>2, <1>3, <1>4, <1>5, <1>6

\* Calling popTail touches no node.
LEMMA PopCallStep ==
  ASSUME IndInv, NEW t \in Thread, PopCall(t)
  PROVE  IndInv'
  <1> USE DEF IndInv, Step, PC, PushSteps, PopSteps, Critical, links, PopCall
  <1>1. TypeOK'
    BY SMTT(20) DEF TypeOK
  <1>2. Exclusive'
    BY SMTT(20) DEF TypeOK, Exclusive
  <1>3. NextLinks'
    BY DEF NextLinks, At
  <1>4. PrevLinks'
    BY DEF TypeOK, PrevLinks, Unwritten, At
  <1>5. NodesOwned'
    BY SMTT(20) DEF TypeOK, NodesOwned, Holds
  <1>6. Progress'
    BY DEF TypeOK, Progress, At
  <1> QED BY <1>1, <1>2, <1>3, <1>4, <1>5, <1>6

\* As for a push, the lock is free only while no one is in the critical section.
LEMMA PopLockStep ==
  ASSUME IndInv, NEW t \in Thread, PopLock(t)
  PROVE  IndInv'
  <1> USE DequeueAssumption DEF IndInv, Step, PC, PushSteps, PopSteps,
          Critical, links, PopLock, Lock
  <1>1. TypeOK'
    BY SMTT(20) DEF TypeOK
  <1>2. Exclusive'
    BY SMTT(20) DEF TypeOK, Exclusive
  <1>3. NextLinks'
    BY DEF NextLinks, At
  <1>4. PrevLinks'
    BY DEF TypeOK, PrevLinks, Unwritten, At
  <1>5. NodesOwned'
    BY DEF TypeOK, NodesOwned, Holds
  <1>6. Progress'
    BY DEF TypeOK, Progress, At
  <1> QED BY <1>1, <1>2, <1>3, <1>4, <1>5, <1>6

\* tail->prev is head exactly when the list is empty, and its oldest node if not.
LEMMA PopTestStep ==
  ASSUME IndInv, NEW t \in Thread, PopTest(t)
  PROVE  IndInv'
  <1> USE DequeueAssumption DEF IndInv, Step, PC, PushSteps, PopSteps,
          Critical, links, PopTest
  <1>0. IF prv[TailNode] = HeadNode
        THEN order = <<>>
        ELSE order # <<>> /\ prv[TailNode] = order[1] /\ order[1] \in Node
    <2>1. ~Unwritten(0)
      BY OneCritical DEF Unwritten
    <2>2. prv[TailNode] = At(1) /\ Len(order) \in Nat
      BY <2>1, NthType DEF PrevLinks, At, TypeOK
    <2>3. CASE order = <<>>
      BY <2>2, <2>3 DEF At, Nth
    <2>4. CASE order # <<>>
      BY <2>2, <2>4 DEF At, Nth, TypeOK
    <2> QED BY <2>3, <2>4
  <1>1. TypeOK'
    BY <1>0 DEF TypeOK
  <1>2. Exclusive'
    BY SMTT(20) DEF TypeOK, Exclusive
  <1>3. NextLinks'
    BY DEF NextLinks, At
  <1>4. PrevLinks'
    BY DEF TypeOK, PrevLinks, Unwritten, At
  <1>5. NodesOwned'
    BY DEF TypeOK, NodesOwned, Holds
  <1>6. Progress'
    BY <1>0, OneCritical DEF TypeOK, Progress, At
  <1> QED BY <1>1, <1>2, <1>3, <1>4, <1>5, <1>6

\* tail->prev now skips the oldest node, which the next links still reach.
LEMMA PopTailPrevStep ==
  ASSUME IndInv, NEW t \in Thread, PopTailPrev(t)
  PROVE  IndInv'
  <1> USE DequeueAssumption DEF IndInv, Step, PC, PushSteps, PopSteps,
          Critical, Ptr, PopTailPrev
  <1> DEFINE L == Len(order)
  <1>0. /\ L \in Nat /\ L >= 1 /\ node[t] = At(1) /\ prv[node[t]] = At(2)
        /\ \A k \in 0..(L + 1) : At(k) \in Ptr
        /\ At(0) = TailNode
    <2>1. /\ L \in Nat /\ L >= 1 /\ node[t] = At(1) /\ At(0) = TailNode
          /\ \A k \in 0..(L + 1) : At(k) \in Ptr
      BY NthType DEF TypeOK, Progress, At
    <2>2. ~Unwritten(1)
      BY OneCritical DEF Unwritten
    <2> QED BY <2>1, <2>2 DEF PrevLinks
  <1>1. TypeOK'
    <2>1. prv' \in [Ptr -> Ptr \cup {Null}]
      BY <1>0 DEF TypeOK
    <2> QED BY <2>1 DEF TypeOK
  <1>2. Exclusive'
    BY SMTT(20) DEF TypeOK, Exclusive
  <1>3. NextLinks'
    BY DEF NextLinks, At
  <1>4. PrevLinks'
    <2> SUFFICES ASSUME NEW k \in 0..L
                 PROVE Unwritten(k)' \/ prv'[At(k)] = At(k + 1)
      BY DEF PrevLinks, At
    <2>1. CASE k = 0
      BY <2>1 DEF Unwritten, TypeOK
    <2>2. CASE k # 0
      <3>1. At(k) # TailNode
        BY <1>0, <2>2, NthDistinct DEF TypeOK, NodesOwned, At
      <3>2. ~Unwritten(k)
        BY <2>2, OneCritical DEF Unwritten
      <3> QED BY <1>0, <3>1, <3>2 DEF PrevLinks, TypeOK
    <2> QED BY <2>1, <2>2
  <1>5. NodesOwned'
    BY SMTT(20) DEF TypeOK, NodesOwned, Holds
  <1>6. Progress'
    <2>1. prv'[TailNode] = At(2)'
      BY <1>0 DEF TypeOK, At
    <2> QED BY <2>1, OneCritical DEF TypeOK, Progress, At
  <1> QED BY <1>1, <1>2, <1>3, <1>4, <1>5, <1>6

\* The oldest node has left the list and is the popping thread's.
LEMMA PopUnlinkStep ==
  ASSUME IndInv, NEW t \in Thread, PopUnlink(t)
  PROVE  IndInv'
  <1> USE DequeueAssumption DEF IndInv, Step, PC, PushSteps, PopSteps,
          Critical, Ptr, PopUnlink
  <1> DEFINE n == node[t]  L == Len(order)
  <1>0. /\ L \in Nat /\ L >= 1 /\ L' = L - 1
        /\ n = order[1] /\ n \in Node
        /\ prv[TailNode] = At(2)
        /\ At(0)' = TailNode /\ \A k \in 1..L : At(k)' = At(k + 1)
        /\ \A k \in 0..(L + 1) : At(k) \in Ptr
    BY NthTail, NthType DEF TypeOK, Progress, At
  <1>1. TypeOK'
    <2>1. nxt' \in [Ptr -> Ptr \cup {Null}]
      BY DEF TypeOK
    <2>2. order' \in Seq(Node)
      BY NthTail DEF TypeOK, Progress
    <2> QED BY <2>1, <2>2 DEF TypeOK
  <1>2. Exclusive'
    BY SMTT(20) DEF TypeOK, Exclusive
  <1>3. NextLinks'
    <2> SUFFICES ASSUME NEW k \in 0..(L - 1) PROVE nxt'[At(k + 1)'] = At(k)'
      BY <1>0 DEF NextLinks, At
    <2>1. CASE k = 0
      BY <1>0, <2>1 DEF TypeOK
    <2>2. CASE k # 0
      <3>1. At(k + 1)' = At(k + 2) /\ At(k)' = At(k + 1)
        <4>1. k \in 1..L /\ k + 1 \in 1..L /\ (k + 1) + 1 = k + 2
          BY <1>0, <2>2
        <4> QED BY <1>0, <4>1
      <3>2. At(k + 2) # At(2)
        BY <1>0, <2>2, NthDistinct DEF TypeOK, NodesOwned, At
      <3>3. nxt[At(k + 2)] = At(k + 1)
        BY <1>0, <2>2 DEF NextLinks
      <3> QED BY <1>0, <3>1, <3>2, <3>3 DEF TypeOK
    <2> QED BY <2>1, <2>2
  <1>4. PrevLinks'
    <2> SUFFICES ASSUME NEW k \in 0..(L - 1) PROVE prv'[At(k)'] = At(k + 1)'
      BY <1>0 DEF PrevLinks, At
    <2>1. CASE k = 0
      BY <1>0, <2>1
    <2>2. CASE k # 0
      <3>1. At(k)' = At(k + 1) /\ At(k + 1)' = At(k + 2)
        <4>1. k \in 1..L /\ k + 1 \in 1..L /\ (k + 1) + 1 = k + 2
          BY <1>0, <2>2
        <4> QED BY <1>0, <4>1
      <3>2. ~Unwritten(k + 1)
        BY <2>2, OneCritical DEF Unwritten
      <3> QED BY <1>0, <3>1, <3>2 DEF PrevLinks
    <2> QED BY <2>1, <2>2
  <1>5. NodesOwned'
    <2>1. \A k \in 1..(L - 1) : order'[k] = order[k + 1]
      BY <1>0 DEF TypeOK
    <2>2. \A k \in 2..L : order'[k - 1] = order[k] /\ k - 1 \in 1..(L - 1)
      BY <1>0, <2>1
    <2>3. \A u \in Thread : Holds(u)' <=> Holds(u) \/ u = t
      BY DEF Holds, TypeOK
    <2>4. ~Holds(t)
      BY DEF Holds
    <2> HIDE DEF n, L
    <2>5. \A j, k \in 1..L' : order'[j] = order'[k] => j = k
      <3>1. \A j, k \in 1..L : order[j] = order[k] => j = k
        BY DEF NodesOwned, L
      <3>2. \A i \in 1..L' : i \in Nat /\ i \in 1..(L - 1) /\ i + 1 \in 1..L
        BY <1>0
      <3>3. ASSUME NEW j \in 1..L', NEW k \in 1..L', order'[j] = order'[k]
            PROVE  j = k
        <4>1. order[j + 1] = order[k + 1]
          BY <2>1, <3>2, <3>3
        <4>2. j + 1 = k + 1
          BY <3>1, <3>2, <4>1
        <4> QED BY <3>2, <4>2
      <3> QED BY <3>3
    <2>6. \A k \in 1..L' : order'[k] \in alloc' /\ order'[k] # n
      BY <1>0, <2>1 DEF NodesOwned, L
    <2>7. \A u \in Thread \ {t} : Holds(u) =>
            /\ node[u] \in alloc /\ node[u] # n
            /\ \A k \in 1..L' : order'[k] # node[u]
      BY <1>0, <2>1 DEF NodesOwned, L
    <2>8. n \in alloc
      BY <1>0 DEF NodesOwned, L
    <2>9. \A u \in Thread : Holds(u)' =>
            /\ node'[u] \in alloc'
            /\ \A k \in 1..L' : order'[k] # node'[u]
            /\ \A v \in Thread \ {u} : Holds(v)' => node'[v] # node'[u]
      BY <2>3, <2>4, <2>6, <2>7, <2>8 DEF NodesOwned, n
    <2>10. \A m \in alloc' : \/ \E k \in 1..L' : order'[k] = m
                             \/ \E u \in Thread : Holds(u)' /\ node'[u] = m
      <3> SUFFICES ASSUME NEW m \in alloc, m # n,
                          ~\E u \in Thread : Holds(u) /\ node[u] = m
                   PROVE \E k \in 1..L' : order'[k] = m
        BY <2>3, <2>4 DEF n
      <3>1. PICK k \in 1..L : order[k] = m
        BY DEF NodesOwned, L
      <3>2. k \in 2..L
        BY <1>0, <3>1
      <3> QED BY <1>0, <2>2, <3>1, <3>2
    <2> QED BY <2>5, <2>6, <2>9, <2>10 DEF NodesOwned, L
  <1>6. Progress'
    BY DEF TypeOK, Progress, At, Exclusive
  <1> QED BY <1>1, <1>2, <1>3, <1>4, <1>5, <1>6

\* A pop gives back the lock with all links written.
LEMMA PopUnlockStep ==
  ASSUME IndInv, NEW t \in Thread, PopUnlock(t)
  PROVE  IndInv'
  <1> USE DEF IndInv, Step, PC, PushSteps, PopSteps, Critical, links, PopUnlock
  <1>1. TypeOK'
    BY SMTT(20) DEF TypeOK
  <1>2. Exclusive'
    BY SMTT(20) DEF TypeOK, Exclusive
  <1>3. NextLinks'
    BY DEF NextLinks, At
  <1>4. PrevLinks'
    BY DEF TypeOK, PrevLinks, Unwritten, At
  <1>5. NodesOwned'
    BY DEF TypeOK, NodesOwned, Holds
  <1>6. Progress'
    BY DEF TypeOK, Progress, At
  <1> QED BY <1>1, <1>2, <1>3, <1>4, <1>5, <1>6

\* The node a thread reads after the unlock is still allocated.
LEMMA PopReadStep ==
  ASSUME IndInv, NEW t \in Thread, PopRead(t)
  PROVE  IndInv'
  <1> USE DEF IndInv, Step, PC, PushSteps, PopSteps, Critical, links, Ptr, PopRead
  <1>1. TypeOK'
    <2>1. data[node[t]] \in Data \cup {Null}
      BY DEF TypeOK, NodesOwned, Holds
    <2> QED BY <2>1 DEF TypeOK
  <1>2. Exclusive'
    BY SMTT(20) DEF TypeOK, Exclusive
  <1>3. NextLinks'
    BY DEF NextLinks, At
  <1>4. PrevLinks'
    BY DEF TypeOK, PrevLinks, Unwritten, At
  <1>5. NodesOwned'
    BY DEF TypeOK, NodesOwned, Holds
  <1>6. Progress'
    BY DEF TypeOK, Progress, At
  <1> QED BY <1>1, <1>2, <1>3, <1>4, <1>5, <1>6

\* The node a thread deletes is its own: no link leads to it.
LEMMA DeleteStep ==
  ASSUME IndInv, NEW t \in Thread,
         Step(t, "toDelete", "out") \/ Step(t, "toPushLock", "out"),
         Delete(t), UNCHANGED <<spinlock, ret, order>>
  PROVE  IndInv'
  <1> USE DequeueAssumption DEF IndInv, Step, PC, PushSteps, PopSteps,
          Critical, Delete
  <1>0. \A k \in 0..(Len(order) + 1) : At(k) # node[t] /\ At(k) \in Ptr
    BY NthType DEF TypeOK, NodesOwned, Holds, At, Nth
  <1>1. TypeOK'
    <2>1. /\ nxt' \in [Ptr -> Ptr \cup {Null}]
          /\ prv' \in [Ptr -> Ptr \cup {Null}]
      BY DEF TypeOK
    <2>2. data' \in [Ptr -> Data \cup {Null}]
      BY DEF TypeOK
    <2> QED BY <2>1, <2>2 DEF TypeOK
  <1>2. Exclusive'
    BY SMTT(20) DEF TypeOK, Exclusive
  <1>3. NextLinks'
    BY <1>0, NthType DEF TypeOK, NextLinks, At
  <1>4. PrevLinks'
    <2>1. \A k \in 0..Len(order) : Unwritten(k)' <=> Unwritten(k)
      BY DEF Unwritten, TypeOK
    <2> QED BY <1>0, <2>1, NthType DEF TypeOK, PrevLinks, At
  <1>5. NodesOwned'
    BY DEF TypeOK, NodesOwned, Holds
  <1>6. Progress'
    BY SMTT(20) DEF TypeOK, Progress, At, Exclusive, NodesOwned, Holds
  <1> QED BY <1>1, <1>2, <1>3, <1>4, <1>5, <1>6

\* Both deletions are of that kind.
LEMMA PopDeleteStep ==
  ASSUME IndInv, NEW t \in Thread, PopDelete(t)
  PROVE  IndInv'
  BY DeleteStep DEF PopDelete

LEMMA PushFailsStep ==
  ASSUME IndInv, NEW t \in Thread, PushFails(t)
  PROVE  IndInv'
  BY DeleteStep DEF PushFails

\* A refused pop has touched nothing.
LEMMA PopFailsStep ==
  ASSUME IndInv, NEW t \in Thread, PopFails(t)
  PROVE  IndInv'
  <1> USE DEF IndInv, Step, PC, PushSteps, PopSteps, Critical, links, PopFails
  <1>1. TypeOK'
    BY SMTT(20) DEF TypeOK
  <1>2. Exclusive'
    BY SMTT(20) DEF TypeOK, Exclusive
  <1>3. NextLinks'
    BY DEF NextLinks, At
  <1>4. PrevLinks'
    BY DEF TypeOK, PrevLinks, Unwritten, At
  <1>5. NodesOwned'
    BY DEF TypeOK, NodesOwned, Holds
  <1>6. Progress'
    BY DEF TypeOK, Progress, At
  <1> QED BY <1>1, <1>2, <1>3, <1>4, <1>5, <1>6

\* The empty list satisfies the invariant.
LEMMA InitIndInv == Init => IndInv
  <1> SUFFICES ASSUME Init PROVE IndInv
    OBVIOUS
  <1> USE DequeueAssumption DEF Init, Ptr
  <1>1. TypeOK
    BY DEF TypeOK, PC
  <1>2. Exclusive /\ Progress
    BY DEF Exclusive, Progress, Critical, PushSteps, PopSteps
  <1>3. NextLinks /\ PrevLinks
    BY DEF NextLinks, PrevLinks, Unwritten, At, Nth
  <1>4. NodesOwned
    BY DEF NodesOwned, Holds
  <1> QED BY <1>1, <1>2, <1>3, <1>4 DEF IndInv

\* Every step preserves it.
LEMMA StepIndInv == IndInv /\ [Next]_vars => IndInv'
  <1> SUFFICES ASSUME IndInv, [Next]_vars PROVE IndInv'
    OBVIOUS
  <1>1. CASE UNCHANGED vars
    BY <1>1 DEF vars, IndInv, TypeOK, Exclusive, NextLinks, PrevLinks, Unwritten,
                At, NodesOwned, Holds, Progress
  <1>2. ASSUME NEW t \in Thread, PushHead(t) PROVE IndInv'
    BY <1>2, PushCallStep, PushLockStep, PushLinkStep, PushPublishStep,
       PushFailsStep, PushNextPrevStep, PushPrevStep, PushUnlockStep
    DEF PushHead
  <1>3. ASSUME NEW t \in Thread, PopTail(t) PROVE IndInv'
    BY <1>3, PopCallStep, PopLockStep, PopTestStep, PopTailPrevStep,
       PopFailsStep, PopUnlinkStep, PopUnlockStep, PopReadStep, PopDeleteStep
    DEF PopTail
  <1> QED BY <1>1, <1>2, <1>3 DEF Next

\* The inductive invariant, from which the properties of the list follow.
THEOREM Inductive == Spec => []IndInv
  BY InitIndInv, StepIndInv, PTL DEF Spec

\* The spin lock keeps all but one thread out of the list.
THEOREM MutualExclusion == Spec => []Exclusive
  <1>1. IndInv => Exclusive
    BY DEF IndInv
  <1> QED BY <1>1, Inductive, PTL

\* Types, which the other parts of the invariant rest on.
THEOREM TypeCorrect == Spec => []TypeOK
  <1>1. IndInv => TypeOK
    BY DEF IndInv
  <1> QED BY <1>1, Inductive, PTL

\* Following next from head leads through the queue to tail after every single
\* write of pushHead and popTail.
THEOREM ListIntact == Spec => []NextLinks
  <1>1. IndInv => NextLinks
    BY DEF IndInv
  <1> QED BY <1>1, Inductive, PTL

\* The same of the chain of prev links, which popTail follows.
THEOREM BackIntact == Spec => []PrevLinks
  <1>1. IndInv => PrevLinks
    BY DEF IndInv
  <1> QED BY <1>1, Inductive, PTL

\* Every node that has been allocated is in the list or in one thread's hands.
THEOREM MemorySafe == Spec => []NodesOwned
  <1>1. IndInv => NodesOwned
    BY DEF IndInv
  <1> QED BY <1>1, Inductive, PTL

-----------------------------------------------------------------------------
\* The refinement mapping of module ConcurrentDequeue.
Contents == [k \in 1..Len(order) |-> data[order[k]]]
Calls    == [t \in Thread |-> CallOf(t)]

\* A step of one thread leaves the abstract calls of the others alone.
LEMMA CallsChange ==
  ASSUME NEW t \in Thread, IndInv,
         \A u \in Thread \ {t} :
           /\ pc'[u] = pc[u] /\ node'[u] = node[u] /\ ret'[u] = ret[u]
           /\ Holds(u) => data'[node[u]] = data[node[u]]
  PROVE  Calls' = [Calls EXCEPT ![t] = CallOf(t)']
  <1>1. \A u \in Thread \ {t} : CallOf(u)' = CallOf(u)
    <2> SUFFICES ASSUME NEW u \in Thread \ {t} PROVE CallOf(u)' = CallOf(u)
      OBVIOUS
    <2>1. pc'[u] = pc[u] /\ ret'[u] = ret[u]
      OBVIOUS
    <2>2. Holds(u) => data'[node'[u]] = data[node[u]]
      OBVIOUS
    <2> QED BY <2>1, <2>2 DEF CallOf, Holds
  <1> QED BY <1>1 DEF Calls

\* The abstract queue depends on the nodes in the list and their data only.
LEMMA ContentsSame ==
  ASSUME order' = order, \A k \in 1..Len(order) : data'[order[k]] = data[order[k]]
  PROVE  Contents' = Contents
  BY DEF Contents

\* Each write is a step of Fifo or leaves its variables unchanged.
LEMMA StepImplements ==
  IndInv /\ [Next]_vars => [Queue!Next]_<<Contents, Calls>>
  <1> SUFFICES ASSUME IndInv, [Next]_vars
               PROVE  Queue!Next \/ UNCHANGED <<Contents, Calls>>
    OBVIOUS
  <1> USE DEF IndInv, Step
  <1>0. CASE UNCHANGED vars
    BY <1>0 DEF vars, Contents, Calls, CallOf
  <1>1. ASSUME NEW t \in Thread, PushCall(t) PROVE Queue!Call(t)
    <2> USE <1>1 DEF PushCall
    <2>1. PICK n \in Node \ alloc, d \in Data :
            /\ data' = [data EXCEPT ![n] = d]
            /\ node' = [node EXCEPT ![t] = n]
      OBVIOUS
    <2>2. CallOf(t) = Queue!Outside
      BY DEF CallOf, Queue!Outside
    <2>3. CallOf(t)' = Queue!Pushing(d)
      BY <2>1 DEF CallOf, Queue!Pushing, TypeOK, Ptr
    <2>4. Contents' = Contents
      BY <2>1, ContentsSame DEF NodesOwned, TypeOK
    <2>5. Calls' = [Calls EXCEPT ![t] = Queue!Pushing(d)]
      BY <2>1, <2>3, CallsChange DEF NodesOwned, TypeOK
    <2> DEFINE C == {Queue!Popping} \cup {Queue!Pushing(e) : e \in Data}
    <2>6. Queue!Pushing(d) \in C
      OBVIOUS
    <2>7. Calls' \in {[Calls EXCEPT ![t] = c] : c \in C}
      BY <2>5, <2>6
    <2>8. Calls[t] = Queue!Outside
      BY <2>2 DEF Calls
    <2> QED BY <2>4, <2>7, <2>8 DEF Queue!Call, Contents, Calls
  <1>2. ASSUME NEW t \in Thread,
               PushLock(t) \/ PushLink(t) \/ PushNextPrev(t) \/ PushPrev(t)
               \/ PopLock(t) \/ PopTailPrev(t)
        PROVE  UNCHANGED <<Contents, Calls>>
    <2> USE <1>2 DEF PushLock, PushLink, PushNextPrev, PushPrev, PopLock,
                     PopTailPrev, links
    <2>1. CallOf(t)' = CallOf(t)
      BY DEF CallOf, TypeOK
    <2>2. Calls' = [Calls EXCEPT ![t] = CallOf(t)]
      BY <2>1, CallsChange DEF TypeOK
    <2>3. Contents' = Contents
      BY ContentsSame
    <2> QED BY <2>2, <2>3 DEF Calls
  <1>3. ASSUME NEW t \in Thread, PushPublish(t) PROVE Queue!Push(t)
    <2> USE <1>3 DEF PushPublish
    <2> DEFINE d == data[node[t]]
    <2>1. CallOf(t) = Queue!Pushing(d) /\ CallOf(t)' = Queue!Pushed
      BY DEF CallOf, Queue!Pushing, Queue!Pushed, TypeOK
    <2>2. Calls' = [Calls EXCEPT ![t] = Queue!Pushed]
      BY <2>1, CallsChange DEF TypeOK
    <2>3. Contents' = Append(Contents, d)
      <3>1. /\ order \in Seq(Node) /\ node[t] \in Node /\ data \in [Ptr -> Data \cup {Null}]
            /\ order' = Append(order, node[t]) /\ data' = data
        BY DEF TypeOK, NodesOwned, Holds
      <3> QED BY <3>1 DEF Contents, Ptr
    <2> QED BY <2>1, <2>2, <2>3 DEF Queue!Push, Queue!Pushing, Contents, Calls
  <1>4. ASSUME NEW t \in Thread, PushUnlock(t) PROVE Queue!Return(t)
    <2> USE <1>4 DEF PushUnlock, links
    <2>1. CallOf(t) = Queue!Pushed /\ CallOf(t)' = Queue!Outside
      BY DEF CallOf, Queue!Pushed, Queue!Outside, TypeOK
    <2>2. Calls' = [Calls EXCEPT ![t] = Queue!Outside]
      BY <2>1, CallsChange DEF TypeOK
    <2>3. Contents' = Contents
      BY ContentsSame
    <2> QED BY <2>1, <2>2, <2>3 DEF Queue!Return, Queue!Pushed, Contents, Calls
  <1>5. ASSUME NEW t \in Thread, PopCall(t) PROVE Queue!Call(t)
    <2> USE <1>5 DEF PopCall, links
    <2>1. CallOf(t) = Queue!Outside /\ CallOf(t)' = Queue!Popping
      BY DEF CallOf, Queue!Popping, Queue!Outside, TypeOK
    <2>2. Calls' = [Calls EXCEPT ![t] = Queue!Popping]
      BY <2>1, CallsChange DEF TypeOK
    <2>3. Contents' = Contents
      BY ContentsSame
    <2> QED BY <2>1, <2>2, <2>3 DEF Queue!Call, Contents, Calls
  <1>6. ASSUME NEW t \in Thread, PopTest(t)
        PROVE  Queue!PopEmpty(t) \/ UNCHANGED <<Contents, Calls>>
    <2> USE <1>6 DEF PopTest, links
    <2>1. Contents' = Contents
      BY ContentsSame
    <2>2. CASE prv[TailNode] = HeadNode
      <3>1. CallOf(t) = Queue!Popping /\ CallOf(t)' = Queue!FoundEmpty
        BY <2>2 DEF CallOf, Queue!Popping, Queue!FoundEmpty, TypeOK
      <3>2. Calls' = [Calls EXCEPT ![t] = Queue!FoundEmpty]
        BY <2>2, <3>1, CallsChange DEF TypeOK
      <3>3. Contents = <<>>
        <4>1. IndInv'
          BY PopTestStep
        <4>2. order' = <<>>
          BY <2>2, <4>1 DEF Progress, TypeOK
        <4> QED BY <4>2 DEF Contents
      <3> QED BY <2>1, <3>1, <3>2, <3>3 DEF Queue!PopEmpty, Contents, Calls
    <2>3. CASE prv[TailNode] # HeadNode
      <3>1. CallOf(t)' = CallOf(t)
        BY <2>3 DEF CallOf, TypeOK
      <3>2. Calls' = [Calls EXCEPT ![t] = CallOf(t)]
        BY <2>3, <3>1, CallsChange DEF TypeOK
      <3> QED BY <2>1, <3>2 DEF Calls
    <2> QED BY <2>2, <2>3
  <1>7. ASSUME NEW t \in Thread, PopUnlink(t) PROVE Queue!Pop(t)
    <2> USE <1>7 DEF PopUnlink
    <2> DEFINE d == data[node[t]]
    <2>1. CallOf(t) = Queue!Popping /\ CallOf(t)' = Queue!Popped(d)
      BY DEF CallOf, Queue!Popping, Queue!Popped, TypeOK
    <2>2. Calls' = [Calls EXCEPT ![t] = Queue!Popped(d)]
      BY <2>1, CallsChange DEF TypeOK
    <2>3. /\ order \in Seq(Node) /\ order # <<>> /\ node[t] = order[1]
          /\ order' = Tail(order) /\ data' = data
      BY DEF TypeOK, Progress
    <2>4. Contents # <<>> /\ Contents' = Tail(Contents) /\ Head(Contents) = d
      <3>1. Len(order) \in Nat /\ Len(order) >= 1
        BY <2>3
      <3>2. Len(Contents) = Len(order) /\ Head(Contents) = d /\ Contents # <<>>
        BY <2>3, <3>1 DEF Contents
      <3>3. Contents' = Tail(Contents)
        BY <2>3, <3>1, <3>2 DEF Contents
      <3> QED BY <3>2, <3>3
    <2> QED BY <2>1, <2>2, <2>4 DEF Queue!Pop, Contents, Calls
  <1>8. ASSUME NEW t \in Thread, PopUnlock(t)
        PROVE  Queue!Return(t) \/ UNCHANGED <<Contents, Calls>>
    <2> USE <1>8 DEF PopUnlock, links
    <2>1. Contents' = Contents
      BY ContentsSame
    <2>2. CASE pc[t] = "toPopUnlock"
      <3>1. CallOf(t)' = CallOf(t)
        BY <2>2 DEF CallOf, TypeOK
      <3>2. Calls' = [Calls EXCEPT ![t] = CallOf(t)]
        BY <3>1, CallsChange DEF TypeOK
      <3> QED BY <2>1, <3>2 DEF Calls
    <2>3. CASE pc[t] = "toEmptyUnlock"
      <3>1. CallOf(t) = Queue!FoundEmpty /\ CallOf(t)' = Queue!Outside
        BY <2>3 DEF CallOf, Queue!FoundEmpty, Queue!Outside, TypeOK
      <3>2. Calls' = [Calls EXCEPT ![t] = Queue!Outside]
        BY <3>1, CallsChange DEF TypeOK
      <3> QED BY <2>1, <3>1, <3>2 DEF Queue!Return, Queue!FoundEmpty, Contents, Calls
    <2> QED BY <2>2, <2>3
  <1>9. ASSUME NEW t \in Thread, PopRead(t) PROVE UNCHANGED <<Contents, Calls>>
    <2> USE <1>9 DEF PopRead, links
    <2>1. CallOf(t)' = CallOf(t)
      BY DEF CallOf, TypeOK
    <2>2. Calls' = [Calls EXCEPT ![t] = CallOf(t)]
      BY <2>1, CallsChange DEF TypeOK
    <2>3. Contents' = Contents
      BY ContentsSame
    <2> QED BY <2>2, <2>3 DEF Calls
  <1>10. ASSUME NEW t \in Thread, PopDelete(t) PROVE Queue!Return(t)
    <2> USE <1>10 DEF PopDelete, Delete
    <2>1. CallOf(t) = Queue!Popped(ret[t]) /\ CallOf(t)' = Queue!Outside
      BY DEF CallOf, Queue!Popped, Queue!Outside, TypeOK
    <2>2. \A u \in Thread \ {t} : Holds(u) => data'[node[u]] = data[node[u]]
      BY DEF NodesOwned, Holds, TypeOK, Ptr
    <2>3. Calls' = [Calls EXCEPT ![t] = Queue!Outside]
      BY <2>1, <2>2, CallsChange DEF TypeOK
    <2>4. Contents' = Contents
      BY ContentsSame DEF NodesOwned, Holds, TypeOK, Ptr
    <2> QED BY <2>1, <2>3, <2>4 DEF Queue!Return, Queue!Popped, Contents, Calls
  <1>11. ASSUME NEW t \in Thread, PushFails(t) PROVE Queue!Refuse(t)
    <2> USE <1>11 DEF PushFails, Delete
    <2>1. CallOf(t).state = "pushing" /\ CallOf(t)' = Queue!Outside
      BY DEF CallOf, Queue!Outside, TypeOK
    <2>2. \A u \in Thread \ {t} : Holds(u) => data'[node[u]] = data[node[u]]
      BY DEF NodesOwned, Holds, TypeOK, Ptr
    <2>3. Calls' = [Calls EXCEPT ![t] = Queue!Outside]
      BY <2>1, <2>2, CallsChange DEF TypeOK
    <2>4. Contents' = Contents
      BY ContentsSame DEF NodesOwned, Holds, TypeOK, Ptr
    <2> QED BY <2>1, <2>3, <2>4 DEF Queue!Refuse, Contents, Calls
  <1>12. ASSUME NEW t \in Thread, PopFails(t) PROVE Queue!Refuse(t)
    <2> USE <1>12 DEF PopFails, links
    <2>1. CallOf(t).state = "popping" /\ CallOf(t)' = Queue!Outside
      BY DEF CallOf, Queue!Outside, TypeOK
    <2>2. Calls' = [Calls EXCEPT ![t] = Queue!Outside]
      BY <2>1, CallsChange DEF TypeOK
    <2>3. Contents' = Contents
      BY ContentsSame
    <2> QED BY <2>1, <2>2, <2>3 DEF Queue!Refuse, Contents, Calls
  <1>13. ASSUME NEW t \in Thread, PushHead(t)
         PROVE  Queue!Next \/ UNCHANGED <<Contents, Calls>>
    BY <1>1, <1>2, <1>3, <1>4, <1>11, <1>13 DEF PushHead, Queue!Next
  <1>14. ASSUME NEW t \in Thread, PopTail(t)
         PROVE  Queue!Next \/ UNCHANGED <<Contents, Calls>>
    BY <1>2, <1>5, <1>6, <1>7, <1>8, <1>9, <1>10, <1>12, <1>14
    DEF PopTail, Queue!Next
  <1> QED BY <1>0, <1>13, <1>14 DEF Next

\* The list under the spin lock is an atomic first-in first-out queue to the
\* threads that use it.
THEOREM Refines == Spec => ImplementsFifo
  <1>1. Init => Queue!Init
    BY DEF Init, Queue!Init, Queue!Outside, CallOf
  <1>2. IndInv /\ [Next]_vars => [Queue!Next]_<<Contents, Calls>>
    BY StepImplements
  <1> QED BY <1>1, <1>2, Inductive, PTL
          DEF Spec, ImplementsFifo, Queue!Spec, Contents, Calls
=============================================================================
