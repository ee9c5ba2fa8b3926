------------------------------- MODULE Logger -------------------------------
(***************************************************************************)
(* The asynchronous logger (Log.cpp).  Any thread logs: a line that passes *)
(* the level filter is pushed to logQueue and a byte is written to the     *)
(* logger's pipe.  The logger thread reads a byte, takes a line and writes *)
(* it to the file.  Nothing bounds the queue but the pipe: when it is full *)
(* the threads that log wait for the logger thread.                        *)
(***************************************************************************)
EXTENDS Naturals, Sequences, FiniteSets

CONSTANTS
  Thread,    \* the threads that log
  Level,     \* the levels, a larger number is a less important line
  LogLevel,  \* Logger::logLevel
  PipeCap,   \* how many bytes the pipe holds before write(2) blocks
  MaxLines   \* bound: how often each thread logs

ASSUME LoggerAssumption ==
  /\ IsFiniteSet(Thread)
  /\ Level \subseteq Nat
  /\ LogLevel \in Nat
  /\ PipeCap \in Nat \ {0}
  /\ MaxLines \in Nat

\* The n-th line that a thread logs.
Line == [by : Thread, n : 1..MaxLines, level : Level]

VARIABLES
  logQueue,  \* Logger::logQueue, oldest first
  logPipe,   \* bytes in the pipe
  pc,        \* each thread: "outside" log(), or about to "notify"
  lines,     \* how many lines each thread has asked to log
  lpc,       \* the logger thread: in its "loop", or about to "take" a line
  file,      \* xping.log
  pushed     \* history: the lines in the order of their pushes

vars == <<logQueue, logPipe, pc, lines, lpc, file, pushed>>

TypeOK ==
  /\ logQueue \in Seq(Line) /\ file \in Seq(Line) /\ pushed \in Seq(Line)
  /\ logPipe \in 0..PipeCap
  /\ pc \in [Thread -> {"outside", "notify"}]
  /\ lines \in [Thread -> 0..MaxLines]
  /\ lpc \in {"loop", "take"}

Init ==
  /\ logQueue = <<>>
  /\ logPipe = 0
  /\ pc = [t \in Thread |-> "outside"]
  /\ lines = [t \in Thread |-> 0]
  /\ lpc = "loop"
  /\ file = <<>>
  /\ pushed = <<>>

\* log(), up to the push: a line above the level is dropped.
Log(t, level) ==
  /\ pc[t] = "outside"
  /\ lines[t] < MaxLines
  /\ lines' = [lines EXCEPT ![t] = @ + 1]
  /\ IF level > LogLevel
     THEN UNCHANGED <<logQueue, pc, pushed>>
     ELSE LET line == [by |-> t, n |-> lines'[t], level |-> level]
          IN /\ logQueue' = Append(logQueue, line)
             /\ pushed' = Append(pushed, line)
             /\ pc' = [pc EXCEPT ![t] = "notify"]
  /\ UNCHANGED <<logPipe, lpc, file>>

\* Mutant: the byte is lost instead of waiting for room.
NotifyOrDrop(t) ==
  /\ pc[t] = "notify"
  /\ logPipe' = IF logPipe < PipeCap THEN logPipe + 1 ELSE logPipe
  /\ pc' = [pc EXCEPT ![t] = "outside"]
  /\ UNCHANGED <<logQueue, lines, lpc, file, pushed>>

\* log(), its last step: notify().  A full pipe blocks.
Notify(t) ==
  /\ pc[t] = "notify"
  /\ logPipe < PipeCap
  /\ logPipe' = logPipe + 1
  /\ pc' = [pc EXCEPT ![t] = "outside"]
  /\ UNCHANGED <<logQueue, lines, lpc, file, pushed>>

\* logEventHandler, up to its read of one byte.
LogEvent ==
  /\ lpc = "loop"
  /\ logPipe > 0
  /\ logPipe' = logPipe - 1
  /\ lpc' = "take"
  /\ UNCHANGED <<logQueue, pc, lines, file, pushed>>

\* Mutant: the queue is emptied for one byte, and only its head is written.
DumpHead ==
  /\ lpc = "take"
  /\ lpc' = "loop"
  /\ IF logQueue = <<>>
     THEN UNCHANGED <<logQueue, file>>
     ELSE /\ logQueue' = <<>>
          /\ file' = Append(file, Head(logQueue))
  /\ UNCHANGED <<logPipe, pc, lines, pushed>>

\* Mutant: the newest line is taken.
DumpNewest ==
  /\ lpc = "take"
  /\ lpc' = "loop"
  /\ IF logQueue = <<>>
     THEN UNCHANGED <<logQueue, file>>
     ELSE /\ logQueue' = SubSeq(logQueue, 1, Len(logQueue) - 1)
          /\ file' = Append(file, logQueue[Len(logQueue)])
  /\ UNCHANGED <<logPipe, pc, lines, pushed>>

\* logEventHandler, the rest: popTail, dumpToFile, delete.
Dump ==
  /\ lpc = "take"
  /\ lpc' = "loop"
  /\ IF logQueue = <<>>
     THEN UNCHANGED <<logQueue, file>>
     ELSE /\ logQueue' = Tail(logQueue)
          /\ file' = Append(file, Head(logQueue))
  /\ UNCHANGED <<logPipe, pc, lines, pushed>>

\* Every thread has logged all its lines and the logger thread waits.
Quiescent ==
  /\ \A t \in Thread : pc[t] = "outside" /\ lines[t] = MaxLines
  /\ lpc = "loop" /\ logPipe = 0
  /\ UNCHANGED vars

Next ==
  \/ \E t \in Thread : Notify(t) \/ \E level \in Level : Log(t, level)
  \/ LogEvent
  \/ Dump
  \/ Quiescent

\* The logger thread runs, and a write to a pipe with room returns.
Fairness ==
  /\ WF_vars(LogEvent \/ Dump)
  /\ \A t \in Thread : WF_vars(Notify(t))

Spec == Init /\ [][Next]_vars

FairSpec == Spec /\ Fairness

-----------------------------------------------------------------------------
\* Every line that passes the filter is in the file or in the queue, once, and
\* the file is in the order of the pushes: the threads that log and the logger
\* thread together neither lose, repeat nor reorder a line.
Accounted == pushed = file \o logQueue

\* The threads between a push and the byte that announces it.
Notifying == {t \in Thread : pc[t] = "notify"}

\* A queued line has its byte in the pipe, or its thread is about to write it,
\* or the logger thread has just read it.
WakeUps ==
  Len(logQueue) = logPipe + Cardinality(Notifying)
                    + (IF lpc = "take" THEN 1 ELSE 0)

\* The lines of one thread are in the file in the order it logged them.
ProgramOrder ==
  \A j, k \in 1..Len(file) :
    j < k /\ file[j].by = file[k].by => file[j].n < file[k].n

\* A thread that waits for room in the pipe gets on, and its line gets written.
EveryLineWritten ==
  \A t \in Thread, n \in 1..MaxLines :
    (pc[t] = "notify" /\ lines[t] = n)
      ~> (pc[t] = "outside" /\ \E k \in 1..Len(file) : file[k].by = t /\ file[k].n = n)
=============================================================================
