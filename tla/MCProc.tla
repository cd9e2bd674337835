------------------------------- MODULE MCProc -------------------------------
(* Instances of Proc for TLC. *)
EXTENDS Proc

CONSTANTS c1, c2
=============================================================================
