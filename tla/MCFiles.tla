------------------------------ MODULE MCFiles -------------------------------
(* Instances of Files for TLC. *)
EXTENDS Files
=============================================================================
