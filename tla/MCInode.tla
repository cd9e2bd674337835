------------------------------ MODULE MCInode -------------------------------
(* Instances of Inode for TLC. *)
EXTENDS Inode, TLC

CONSTANTS p1, p2

Procs == {p1, p2}
Symmetry == Permutations(Procs)

Abs(s) == [abs |-> TRUE, names |-> s]
Rel(s) == [abs |-> FALSE, names |-> s]
X == Abs(<<"x">>)
XY == Abs(<<"x", "y">>)
Y == Rel(<<"y">>)

\* Files and directories at one name, and the way back up from a directory.
SomeCalls == {[op |-> o, path |-> X] : o \in {"create", "mkdir", "unlink", "chdir"}}
             \cup {[op |-> o, path |-> XY] : o \in {"mkdir", "unlink", "chdir"}}
             \cup {[op |-> "open", path |-> Y],
                   [op |-> "chdir", path |-> Rel(<<"..">>)],
                   [op |-> "unlink", path |-> Rel(<<"..">>)],
                   [op |-> "link_old", path |-> X, new |-> Y]}
=============================================================================
