----------------------------- MODULE LoggerProofs -----------------------------
(***************************************************************************)
(* The safety theorems of Logger, for any number of threads, lines and     *)
(* bytes that the pipe holds.                                              *)
(***************************************************************************)
EXTENDS Logger, SequenceTheorems, FiniteSetTheorems, TLAPS

\* The order of the pushes, of which the file holds a prefix.
Numbered ==
  /\ \A k \in 1..Len(pushed) : pushed[k].n <= lines[pushed[k].by]
  /\ \A j, k \in 1..Len(pushed) :
       j < k /\ pushed[j].by = pushed[k].by => pushed[j].n < pushed[k].n

Inv == TypeOK /\ Accounted /\ WakeUps /\ Numbered

\* Taking the first element from the right of a concatenation to its left.
LEMMA MoveHead ==
  ASSUME NEW S, NEW f \in Seq(S), NEW q \in Seq(S), q # <<>>
  PROVE  /\ Append(f, Head(q)) \in Seq(S) /\ Tail(q) \in Seq(S)
         /\ Len(Tail(q)) = Len(q) - 1
         /\ Append(f, Head(q)) \o Tail(q) = f \o q
  <1>1. /\ Append(f, Head(q)) \in Seq(S) /\ Tail(q) \in Seq(S)
        /\ Len(Tail(q)) = Len(q) - 1
    BY HeadTailProperties
  <1>2. Append(f, Head(q)) = f \o <<Head(q)>> /\ <<Head(q)>> \o Tail(q) = q
        /\ <<Head(q)>> \in Seq(S)
    BY <1>1
  <1>3. (f \o <<Head(q)>>) \o Tail(q) = f \o (<<Head(q)>> \o Tail(q))
    BY <1>1, <1>2, ConcatAssociative
  <1> QED BY <1>1, <1>2, <1>3

\* A thread's turn to write its byte comes and goes.
LEMMA NotifyingCount ==
  ASSUME TypeOK, NEW t \in Thread
  PROVE  /\ Cardinality(Notifying) \in Nat
         /\ pc[t] = "outside" /\ pc' = [pc EXCEPT ![t] = "notify"]
              => Cardinality(Notifying') = Cardinality(Notifying) + 1
         /\ pc[t] = "notify" /\ pc' = [pc EXCEPT ![t] = "outside"]
              => Cardinality(Notifying') = Cardinality(Notifying) - 1
  <1>1. IsFiniteSet(Notifying)
    BY LoggerAssumption, FS_Subset DEF Notifying
  <1>2. pc[t] = "outside" /\ pc' = [pc EXCEPT ![t] = "notify"]
          => t \notin Notifying /\ Notifying' = Notifying \cup {t}
    BY DEF Notifying, TypeOK
  <1>3. pc[t] = "notify" /\ pc' = [pc EXCEPT ![t] = "outside"]
          => t \in Notifying /\ Notifying' = Notifying \ {t}
    BY DEF Notifying, TypeOK
  <1> QED BY <1>1, <1>2, <1>3, FS_CardinalityType, FS_AddElement, FS_RemoveElement

\* Before the first line nothing is queued, announced or written.
LEMMA InitInv == Init => Inv
  <1> SUFFICES ASSUME Init PROVE Inv
    OBVIOUS
  <1> USE LoggerAssumption DEF Init
  <1>1. TypeOK /\ Accounted /\ Numbered
    BY DEF TypeOK, Accounted, Numbered
  <1>2. WakeUps
    <2>1. Notifying = {}
      BY DEF Notifying
    <2> QED BY <2>1, FS_EmptySet DEF WakeUps
  <1> QED BY <1>1, <1>2 DEF Inv

\* A thread that logs pushes its next line, or drops it.
LEMMA LogStep ==
  ASSUME Inv, NEW t \in Thread, NEW level \in Level, Log(t, level)
  PROVE  Inv'
  <1> USE LoggerAssumption DEF Inv
  <1>1. CASE level > LogLevel
    <2>1. lines' = [lines EXCEPT ![t] = @ + 1]
          /\ UNCHANGED <<logQueue, pc, pushed, logPipe, lpc, file>>
      BY <1>1 DEF Log
    <2>2. lines[t] < MaxLines
      BY DEF Log
    <2>3. TypeOK' /\ Accounted'
      BY <2>1, <2>2 DEF TypeOK, Accounted
    <2>4. Numbered'
      <3>1. \A u \in Thread : lines[u] \in Nat /\ lines'[u] \in Nat /\ lines[u] <= lines'[u]
        BY <2>1 DEF TypeOK
      <3>2. \A k \in 1..Len(pushed) : pushed[k].by \in Thread /\ pushed[k].n \in Nat
        <4>1. \A k \in 1..Len(pushed) : pushed[k] \in Line
          BY DEF TypeOK
        <4> QED BY <4>1 DEF Line
      <3> QED BY <2>1, <3>1, <3>2 DEF Numbered
    <2>5. WakeUps'
      BY <2>1 DEF WakeUps, Notifying
    <2> QED BY <2>3, <2>4, <2>5
  <1>2. CASE ~(level > LogLevel)
    <2> DEFINE line == [by |-> t, n |-> lines[t] + 1, level |-> level]
    <2>1. /\ pc[t] = "outside" /\ pc' = [pc EXCEPT ![t] = "notify"]
          /\ lines' = [lines EXCEPT ![t] = @ + 1] /\ lines[t] < MaxLines
          /\ logQueue' = Append(logQueue, line) /\ pushed' = Append(pushed, line)
          /\ UNCHANGED <<logPipe, lpc, file>>
      BY <1>2 DEF Log, TypeOK
    <2>2. line \in Line
      BY <2>1 DEF Line, TypeOK
    <2>3. TypeOK'
      BY <2>1, <2>2 DEF TypeOK
    <2>4. Accounted'
      <3> HIDE DEF line
      <3>1. file \in Seq(Line) /\ logQueue \in Seq(Line) /\ <<line>> \in Seq(Line)
        BY <2>2 DEF TypeOK
      <3>2. \A q \in Seq(Line) : Append(q, line) = q \o <<line>>
        BY <2>2
      <3>3. (file \o logQueue) \o <<line>> = file \o (logQueue \o <<line>>)
        BY <3>1, ConcatAssociative
      <3> QED BY <2>1, <3>2, <3>3 DEF Accounted, TypeOK
    <2>5. WakeUps'
      <3>1. Len(logQueue') = Len(logQueue) + 1 /\ Len(logQueue) \in Nat
        BY <2>1, <2>2 DEF TypeOK
      <3>2. Cardinality(Notifying') = Cardinality(Notifying) + 1
            /\ Cardinality(Notifying) \in Nat
        BY <2>1, NotifyingCount
      <3> QED BY <2>1, <3>1, <3>2 DEF WakeUps, TypeOK
    <2>6. Numbered'
      <3>1. /\ Len(pushed') = Len(pushed) + 1 /\ Len(pushed) \in Nat
            /\ \A k \in 1..Len(pushed) : pushed'[k] = pushed[k] /\ pushed[k] \in Line
            /\ pushed'[Len(pushed) + 1] = line
        BY <2>1, <2>2 DEF TypeOK
      <3>2. /\ line.by = t /\ line.n = lines[t] + 1
            /\ \A u \in Thread : lines[u] \in Nat /\ lines'[u] \in Nat /\ lines[u] <= lines'[u]
            /\ lines'[t] = lines[t] + 1
        BY <2>1 DEF TypeOK
      <3>3. \A k \in 1..Len(pushed) : pushed[k].by \in Thread /\ pushed[k].n \in Nat
        BY <3>1 DEF Line
      <3> HIDE DEF line
      <3>4. ASSUME NEW k \in 1..Len(pushed')
            PROVE  pushed'[k].n <= lines'[pushed'[k].by]
        <4>1. CASE k \in 1..Len(pushed)
          <5>1. pushed[k].n <= lines[pushed[k].by]
            BY <4>1 DEF Numbered
          <5> QED BY <3>1, <3>2, <3>3, <4>1, <5>1
        <4>2. CASE k = Len(pushed) + 1
          BY <3>1, <3>2, <4>2
        <4> QED BY <3>1, <4>1, <4>2
      <3>5. ASSUME NEW j \in 1..Len(pushed'), NEW k \in 1..Len(pushed'),
                   j < k, pushed'[j].by = pushed'[k].by
            PROVE  pushed'[j].n < pushed'[k].n
        <4>1. j \in 1..Len(pushed)
          BY <3>1, <3>5
        <4>2. CASE k \in 1..Len(pushed)
          BY <3>1, <3>5, <4>1, <4>2 DEF Numbered
        <4>3. CASE k = Len(pushed) + 1
          <5>1. pushed[j].by = t /\ pushed[j].n <= lines[pushed[j].by]
            BY <3>1, <3>2, <3>5, <4>1, <4>3 DEF Numbered
          <5> QED BY <3>1, <3>2, <3>3, <4>1, <4>3, <5>1
        <4> QED BY <3>1, <4>2, <4>3
      <3> QED BY <3>4, <3>5 DEF Numbered
    <2> QED BY <2>3, <2>4, <2>5, <2>6
  <1> QED BY <1>1, <1>2

\* The byte of a line goes into the pipe.
LEMMA NotifyStep ==
  ASSUME Inv, NEW t \in Thread, Notify(t)
  PROVE  Inv'
  <1> USE LoggerAssumption DEF Inv, Notify
  <1>1. TypeOK'
    BY DEF TypeOK
  <1>2. Accounted' /\ Numbered'
    BY DEF Accounted, Numbered
  <1>3. WakeUps'
    <2>1. Cardinality(Notifying') = Cardinality(Notifying) - 1
          /\ Cardinality(Notifying) \in Nat
      BY NotifyingCount
    <2> QED BY <2>1 DEF WakeUps, TypeOK
  <1> QED BY <1>1, <1>2, <1>3

\* The logger thread has read a byte.
LEMMA LogEventStep ==
  ASSUME Inv, LogEvent
  PROVE  Inv'
  <1> USE LoggerAssumption DEF Inv, LogEvent
  <1>1. TypeOK'
    BY DEF TypeOK
  <1>2. Accounted' /\ Numbered'
    BY DEF Accounted, Numbered
  <1>3. WakeUps'
    <2>1. Notifying' = Notifying /\ Cardinality(Notifying) \in Nat
      BY LoggerAssumption, FS_Subset, FS_CardinalityType DEF Notifying
    <2> QED BY <2>1 DEF WakeUps, TypeOK
  <1> QED BY <1>1, <1>2, <1>3

\* The logger thread finds a line, since it has read its byte, and writes it.
LEMMA DumpStep ==
  ASSUME Inv, Dump
  PROVE  Inv'
  <1> USE LoggerAssumption DEF Inv
  <1>1. Notifying' = Notifying /\ Cardinality(Notifying) \in Nat
    BY LoggerAssumption, FS_Subset, FS_CardinalityType DEF Notifying, Dump
  <1>2. logQueue # <<>>
    BY <1>1 DEF Dump, WakeUps, TypeOK
  <1>3. /\ logQueue' = Tail(logQueue) /\ file' = Append(file, Head(logQueue))
        /\ lpc = "take" /\ lpc' = "loop" /\ UNCHANGED <<logPipe, pc, lines, pushed>>
    BY <1>2 DEF Dump
  <1>4. /\ file' \in Seq(Line) /\ logQueue' \in Seq(Line)
        /\ Len(logQueue') = Len(logQueue) - 1 /\ file' \o logQueue' = file \o logQueue
    BY <1>2, <1>3, MoveHead DEF TypeOK
  <1>5. TypeOK' /\ Accounted' /\ Numbered'
    BY <1>3, <1>4 DEF TypeOK, Accounted, Numbered
  <1>6. WakeUps'
    BY <1>1, <1>3, <1>4 DEF WakeUps, TypeOK
  <1> QED BY <1>5, <1>6

\* Every step preserves the invariant.
LEMMA StepInv == Inv /\ [Next]_vars => Inv'
  <1> SUFFICES ASSUME Inv, [Next]_vars PROVE Inv'
    OBVIOUS
  <1>1. CASE UNCHANGED vars
    BY <1>1 DEF vars, Inv, TypeOK, Accounted, WakeUps, Notifying, Numbered
  <1> QED BY <1>1, LogStep, NotifyStep, LogEventStep, DumpStep DEF Next, Quiescent

\* Types, which the other parts of the invariant rest on.
THEOREM TypeCorrect == Spec => []TypeOK
  <1>1. Inv => TypeOK
    BY DEF Inv
  <1> QED BY <1>1, InitInv, StepInv, PTL DEF Spec

\* No line that passes the filter is lost, repeated or reordered on its way to
\* the file, whatever the threads that log and the logger thread do.
THEOREM NoLineLost == Spec => []Accounted
  <1>1. Inv => Accounted
    BY DEF Inv
  <1> QED BY <1>1, InitInv, StepInv, PTL DEF Spec

\* Each queued line has its byte on the way to the logger thread, which so finds
\* a line for each byte.
THEOREM EachLineAnnounced == Spec => []WakeUps
  <1>1. Inv => WakeUps
    BY DEF Inv
  <1> QED BY <1>1, InitInv, StepInv, PTL DEF Spec

\* The file keeps the order in which each thread logged.
THEOREM KeepsOrder == Spec => []ProgramOrder
  <1>1. Inv => ProgramOrder
    <2> SUFFICES ASSUME Inv PROVE ProgramOrder
      OBVIOUS
    <2>1. /\ Len(file) \in Nat /\ Len(pushed) \in Nat /\ Len(file) <= Len(pushed)
          /\ \A k \in 1..Len(file) : pushed[k] = file[k]
      BY ConcatProperties DEF Inv, TypeOK, Accounted
    <2> QED BY <2>1 DEF Inv, Numbered, ProgramOrder
  <1> QED BY <1>1, InitInv, StepInv, PTL DEF Spec
=============================================================================
