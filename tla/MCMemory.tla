------------------------------ MODULE MCMemory ------------------------------
(* An instance of Memory for TLC. *)
EXTENDS Memory

Seg(end, fault) == [end |-> end, fault |-> fault]
MCPrograms == {<<Seg(9, "none")>>, <<Seg(2, "none")>>, <<Seg(1, "none"), Seg(4, "none")>>, <<Seg(2, "load")>>, <<Seg(2, "header")>>}
MCGrow == {3, -1, -2, -100}
=============================================================================
