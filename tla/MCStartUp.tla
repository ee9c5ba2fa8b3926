----------------------------- MODULE MCStartUp -----------------------------
(***************************************************************************)
(* Bounds for the run of StartUp.                                          *)
(***************************************************************************)
EXTENDS StartUp
=============================================================================
