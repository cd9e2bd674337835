----------------------------- MODULE AtomicDisk -----------------------------
(***************************************************************************)
(* What the file system is promised by the logging layer: a disk on which  *)
(* a group of concurrent file-system calls takes effect all at once or,    *)
(* after a crash, not at all.  "mem" is what a running call reads through  *)
(* the buffer cache, "stable" is what the next boot will find, and         *)
(* "active" holds the processes between begin_op() and end_op().  The      *)
(* point of the specification is Commit: the stable contents only ever     *)
(* become a memory image taken when no call was in progress (log.c:10-14). *)
(*                                                                         *)
(* "damaged" says when the promise ends: calls in progress may write past  *)
(* the log area, and from then on nothing is promised.  An implementation  *)
(* that never does so has it FALSE.                                        *)
(***************************************************************************)
CONSTANTS Proc, Blocks, Val, Zero

VARIABLES mem, stable, active, damaged

vars == <<mem, stable, active, damaged>>

Init == /\ mem = [b \in Blocks |-> Zero]
        /\ stable = mem
        /\ active = {}
        /\ damaged = FALSE

Begin(p) == /\ p \notin active
            /\ active' = active \cup {p}
            /\ UNCHANGED <<mem, stable>>

Write(p, b, v) == /\ p \in active
                  /\ mem' = [mem EXCEPT ![b] = v]
                  /\ UNCHANGED <<stable, active>>

End(p) == /\ p \in active
          /\ active' = active \ {p}
          /\ UNCHANGED <<mem, stable>>

Commit == /\ active = {}
          /\ stable' = mem
          /\ UNCHANGED <<mem, active>>

Crash == /\ mem' = stable
         /\ active' = {}
         /\ UNCHANGED stable

\* Some call in progress writes past the log area.
Damage == /\ active # {}
          /\ damaged' = TRUE
          /\ UNCHANGED <<mem, stable, active>>

Intact == \/ \E p \in Proc : \/ Begin(p)
                             \/ End(p)
                             \/ \E b \in Blocks, v \in Val : Write(p, b, v)
          \/ Commit
          \/ Crash

Next == \/ ~damaged /\ Intact /\ UNCHANGED damaged
        \/ ~damaged /\ Damage
        \/ damaged

Spec == Init /\ [][Next]_vars
=============================================================================
