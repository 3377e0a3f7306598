-------------------------- MODULE MC_AccountLoops --------------------------
(* AccountLoops instances for TLC. *)
EXTENDS AccountLoops
=============================================================================
