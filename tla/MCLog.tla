------------------------------- MODULE MCLog --------------------------------
(* Instances of Log for TLC. *)
EXTENDS Log
CONSTANTS p1, p2, p3

Load(callers, used, written) == [callers |-> callers, used |-> used, written |-> written]

\* What is called: a torn transaction takes two blocks with contents, an
\* overrun of the log a third block, a queue for the log a third caller.
Loads == {Load({p1, p2}, {1, 2}, {1, 2}), Load({p1, p2}, Blocks, {1}), Load(Proc, {1, 2}, {})}

\* Only the callers call, only the blocks used are logged, and the contents of
\* the others than those written are still Zero.
Carries(load) ==
    /\ \A p \in Proc \ load.callers : pc[p] = "idle"
    /\ Busy \cup Entries(lh) \subseteq load.used
    /\ \A b \in Blocks \ load.written : cache[b] = Zero /\ disk[b] = Zero

UnderLoad == \E load \in Loads : Carries(load)
=============================================================================
