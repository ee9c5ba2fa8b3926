------------------------------ MODULE MCLogger ------------------------------
(***************************************************************************)
(* The runs of Logger: a pipe of one byte, so that threads wait for room.  *)
(***************************************************************************)
EXTENDS Logger, TLC

Symmetry == Permutations(Thread)
=============================================================================
