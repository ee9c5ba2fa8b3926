------------------------ MODULE MCConcurrentDequeue ------------------------
(***************************************************************************)
(* Model values for the runs of ConcurrentDequeue.                         *)
(***************************************************************************)
EXTENDS ConcurrentDequeue, TLC

\* Threads, addresses and data are interchangeable.
Symmetry == Permutations(Thread) \cup Permutations(Node) \cup Permutations(Data)
=============================================================================
