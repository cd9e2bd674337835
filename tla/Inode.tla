------------------------------- MODULE Inode --------------------------------
(***************************************************************************)
(* Inodes, directories and the system calls on names: the inode cache and  *)
(* namex() of fs.c, and open, close, mkdir, link, unlink and chdir of      *)
(* sysfile.c, run by several processes at once.                            *)
(*                                                                         *)
(* I_BUSY is a lock that is held across sleeps.  A section from ilock() to *)
(* iunlock() of one inode in which no other inode is locked is one action; *)
(* where a second lock is taken under the first, the steps are separate.   *)
(* iput() is separate from its caller, and the freeing of an inode has     *)
(* three steps.  The log makes a call's writes atomic (module Log), so     *)
(* there are no crashes here.                                              *)
(***************************************************************************)
EXTENDS Integers, Sequences, FiniteSets, FiniteSetsExt

CONSTANTS Proc,
          NINODES,   \* inodes 1..NINODES are on the disk; 1 is the root
          Names,     \* file names, ".." not among them
          Calls      \* the calls made: [op, path], and link()'s [op, path, new]

\* A path, taken apart by skipelem(), is absolute or not and has some names.
IsPath(w) == /\ w.abs \in BOOLEAN
             /\ w.names \in Seq(Names \cup {".."}) /\ w.names # <<>>

ASSUME InodeAssumption ==
    /\ IsFiniteSet(Proc) /\ IsFiniteSet(Names) /\ ".." \notin Names
    /\ NINODES \in Nat \ {0}
    /\ \A c \in Calls : /\ c.op \in {"open", "create", "mkdir", "unlink", "chdir",
                                      "link_old"}
                        /\ IsPath(c.path)
                        /\ c.op = "link_old" => IsPath(c.new)

VARIABLES type,      \* dip->type; "free" is 0
          nlink,     \* dip->nlink
          entry,     \* entries of a directory, 0 for none
          dotdot,    \* its entry ".."
          ref, busy, valid,  \* ip->ref, I_BUSY, I_VALID of a cached inode
          pc, op,    \* where a process is in which system call
          rest,      \* path elements namex() has not looked up yet
          cur, tgt,  \* the inodes a call has got so far, 0 for none
          put,       \* inodes it has still to iput() before it goes on
          free,      \* progress of an iput() that frees the inode
          cwd, fd,   \* current directory, one open file (0 for none)
          panic,     \* message of a kernel panic
          lost,      \* history: names of each inode that went with their directory
          strayed    \* history: a lookup has gone up from a removed directory

diskVars == <<type, nlink, entry, dotdot>>
cacheVars == <<ref, busy, valid>>
callVars == <<pc, op, rest, cur, tgt, put, free>>
history == <<lost, strayed>>
vars == <<diskVars, cacheVars, callVars, cwd, fd, panic, history>>

Inum == 1..NINODES
Root == 1
NoEntries == [n \in Names |-> 0]

Init == /\ type = [i \in Inum |-> IF i = Root THEN "dir" ELSE "free"]
        /\ nlink = [i \in Inum |-> IF i = Root THEN 1 ELSE 0]
        /\ entry = [i \in Inum |-> NoEntries]
        /\ dotdot = [i \in Inum |-> IF i = Root THEN Root ELSE 0]
        /\ ref = [i \in Inum |-> IF i = Root THEN Cardinality(Proc) ELSE 0]
        /\ busy = [i \in Inum |-> FALSE]
        /\ valid = [i \in Inum |-> FALSE]
        /\ pc = [p \in Proc |-> "user"]
        /\ op = [p \in Proc |-> "none"]
        /\ rest = [p \in Proc |-> <<>>]
        /\ cur = [p \in Proc |-> 0]
        /\ tgt = [p \in Proc |-> 0]
        /\ put = [p \in Proc |-> <<>>]
        /\ free = [p \in Proc |-> "no"]
        /\ cwd = [p \in Proc |-> Root]
        /\ fd = [p \in Proc |-> 0]
        /\ panic = "no"
        /\ lost = [i \in Inum |-> 0]
        /\ strayed = FALSE

-----------------------------------------------------------------------------
(* The inode cache *)

At(p, phase) == panic = "no" /\ put[p] = <<>> /\ pc[p] = phase

\* iget() or idup().  An entry without references counts as not valid: iget()
\* clears its flags before anybody sees them.
Get(i) == ref' = [ref EXCEPT ![i] = @ + 1]

\* ilock(i) would sleep, or find that the inode is free on the disk.
NoType(i) == ~valid[i] /\ type[i] = "free"
Lock(i) == ~busy[i] /\ ~NoType(i)

\* The inode that the next step of p locks.
Wanted(p) == IF pc[p] \in {"walk", "parent"} THEN cur[p]
             ELSE IF pc[p] \in {"exists", "fill", "remove", "undo"} THEN tgt[p]
             ELSE 0

\* The call goes on at phase once the inodes of s are put.
Then(p, phase, s) == /\ pc' = [pc EXCEPT ![p] = phase]
                     /\ put' = [put EXCEPT ![p] = s]

\* Mutant of Freeing: other references are not looked at.
FreeingEarly(i) == valid[i] /\ nlink[i] = 0

\* iput(): the last reference to an inode without links frees it.
Freeing(i) == ref[i] = 1 /\ valid[i] /\ nlink[i] = 0

Iput(p) ==
    /\ panic = "no" /\ put[p] # <<>> /\ free[p] = "no"
    /\ LET i == Head(put[p])
       IN  IF ~Freeing(i)
           THEN /\ ref' = [ref EXCEPT ![i] = @ - 1]
                /\ valid' = [valid EXCEPT ![i] = @ /\ ref[i] > 1]
                /\ put' = [put EXCEPT ![p] = Tail(@)]
                /\ UNCHANGED <<diskVars, busy, pc, op, rest, cur, tgt,
                               free, cwd, fd, panic, history>>
           ELSE /\ ~busy[i]
                /\ busy' = [busy EXCEPT ![i] = TRUE]
                /\ free' = [free EXCEPT ![p] = "disk"]
                /\ UNCHANGED <<diskVars, ref, valid, pc, op, rest, cur, tgt, put,
                               cwd, fd, panic, history>>

\* itrunc(), type = 0 and iupdate(): ialloc() can find the inode from now on.
IputDisk(p) ==
    /\ panic = "no" /\ free[p] = "disk"
    /\ LET i == Head(put[p])
       IN  /\ type' = [type EXCEPT ![i] = "free"]
           /\ entry' = [entry EXCEPT ![i] = NoEntries]
           /\ dotdot' = [dotdot EXCEPT ![i] = 0]
           /\ lost' = [k \in Inum |-> lost[k]
                                     + Cardinality({n \in Names : entry[i][n] = k})]
    /\ free' = [free EXCEPT ![p] = "done"]
    /\ UNCHANGED <<nlink, cacheVars, pc, op, rest, cur, tgt, put, cwd, fd, panic, strayed>>

\* The inode is unlocked and no longer valid, and the reference goes.
IputDone(p) ==
    /\ panic = "no" /\ free[p] = "done"
    /\ LET i == Head(put[p])
       IN  /\ busy' = [busy EXCEPT ![i] = FALSE]
           /\ valid' = [valid EXCEPT ![i] = FALSE]
           /\ ref' = [ref EXCEPT ![i] = @ - 1]
    /\ put' = [put EXCEPT ![p] = Tail(@)]
    /\ free' = [free EXCEPT ![p] = "no"]
    /\ UNCHANGED <<diskVars, pc, op, rest, cur, tgt, cwd, fd, panic, history>>

-----------------------------------------------------------------------------
(* namex() *)

\* Calls that look up the parent directory of their path.
Parent == {"create", "mkdir", "unlink", "link"}

\* namex() starts at the root or at the current directory.
Start(p, what, path) ==
    LET i == IF path.abs THEN Root ELSE cwd[p]
    IN  /\ Get(i)
        /\ op' = [op EXCEPT ![p] = what]
        /\ rest' = [rest EXCEPT ![p] = path.names]
        /\ cur' = [cur EXCEPT ![p] = i]
        /\ pc' = [pc EXCEPT ![p] = "walk"]

Call(p, c) ==
    /\ At(p, "user")
    /\ c.op \in {"open", "create"} => fd[p] = 0
    /\ Start(p, c.op, c.path)
    /\ UNCHANGED <<diskVars, busy, valid, tgt, put, free, cwd, fd, panic, history>>

\* The end of a call; s is what is left to put.
Return(p, s) == /\ Then(p, "user", s)
                /\ op' = [op EXCEPT ![p] = "none"]
                /\ rest' = [rest EXCEPT ![p] = <<>>]
                /\ cur' = [cur EXCEPT ![p] = 0]
                /\ tgt' = [tgt EXCEPT ![p] = 0]

\* The name cannot be looked up: link() has its target to undo first.
Fail(p) == IF op[p] = "link"
           THEN /\ Then(p, "undo", <<cur[p]>>)
                /\ cur' = [cur EXCEPT ![p] = 0]
                /\ UNCHANGED <<op, rest, tgt>>
           ELSE Return(p, <<cur[p]>>)

Lookup(i, n) == IF n = ".." THEN dotdot[i] ELSE entry[i][n]

\* The names of i in the directories, ".." apart.
Links(i) == {e \in Inum \X Names : type[e[1]] = "dir" /\ entry[e[1]][e[2]] = i}

\* The inode of a directory without a name is still there while it is used.
Removed(i) == i # Root /\ Links(i) = {}

\* dirlookup() gets the inode.  The ".." of a removed directory may lead to an
\* inode that is free, or is another one by now.
Follow(i, n) == /\ Get(Lookup(i, n))
                /\ strayed' = (strayed \/ (n = ".." /\ Removed(i)))

\* One path element: ilock(), look it up, iunlockput().
Walk(p) ==
    LET i == cur[p]
        last == op[p] \in Parent /\ Len(rest[p]) = 1
        next == Lookup(i, Head(rest[p]))
    IN  /\ At(p, "walk") /\ rest[p] # <<>>
        /\ Lock(i)
        /\ IF type[i] = "dir" /\ last
           THEN /\ Then(p, "parent", <<>>)
                /\ UNCHANGED <<ref, op, rest, cur, tgt, strayed>>
           ELSE IF type[i] # "dir" \/ next = 0
           THEN Fail(p) /\ UNCHANGED <<ref, strayed>>
           ELSE /\ Follow(i, Head(rest[p]))
                /\ Then(p, "walk", <<i>>)
                /\ rest' = [rest EXCEPT ![p] = Tail(@)]
                /\ cur' = [cur EXCEPT ![p] = next]
                /\ UNCHANGED <<op, tgt>>
        /\ valid' = [valid EXCEPT ![i] = TRUE]
        /\ UNCHANGED <<diskVars, busy, free, cwd, fd, panic, lost>>

\* namei() is done.
Found(p, what) == At(p, "walk") /\ rest[p] = <<>> /\ op[p] = what /\ Lock(cur[p])

-----------------------------------------------------------------------------
(* open(), close() and chdir() *)

\* A directory opened for writing, or no file structure or descriptor left,
\* makes open() fail.
Open(p) == /\ Found(p, "open")
           /\ \/ Return(p, <<cur[p]>>) /\ UNCHANGED fd
              \/ Return(p, <<>>) /\ fd' = [fd EXCEPT ![p] = cur[p]]
           /\ valid' = [valid EXCEPT ![cur[p]] = TRUE]
           /\ UNCHANGED <<diskVars, ref, busy, free, cwd, panic, history>>

\* Mutant of Close: proc->ofile[fd] is not cleared.
CloseKeepsFd(p) == /\ At(p, "user") /\ fd[p] # 0
                   /\ put' = [put EXCEPT ![p] = <<fd[p]>>]
                   /\ UNCHANGED <<diskVars, cacheVars, pc, op, rest, cur, tgt, free,
                                  cwd, fd, panic, history>>

\* The file structure is this process's own: the last close puts the inode.
Close(p) == /\ At(p, "user") /\ fd[p] # 0
            /\ put' = [put EXCEPT ![p] = <<fd[p]>>]
            /\ fd' = [fd EXCEPT ![p] = 0]
            /\ UNCHANGED <<diskVars, cacheVars, pc, op, rest, cur, tgt, free, cwd,
                           panic, history>>

\* Mutant of Chdir: the new directory is put, not the old one.
ChdirPutsNew(p) ==
    /\ Found(p, "chdir")
    /\ Return(p, <<cur[p]>>)
    /\ cwd' = [cwd EXCEPT ![p] = IF type[cur[p]] = "dir" THEN cur[p] ELSE @]
    /\ valid' = [valid EXCEPT ![cur[p]] = TRUE]
    /\ UNCHANGED <<diskVars, ref, busy, free, fd, panic, history>>

\* Mutant of Chdir: the old directory is not put.
ChdirKeepsOld(p) ==
    /\ Found(p, "chdir")
    /\ IF type[cur[p]] = "dir"
       THEN Return(p, <<>>) /\ cwd' = [cwd EXCEPT ![p] = cur[p]]
       ELSE Return(p, <<cur[p]>>) /\ UNCHANGED cwd
    /\ valid' = [valid EXCEPT ![cur[p]] = TRUE]
    /\ UNCHANGED <<diskVars, ref, busy, free, fd, panic, history>>

Chdir(p) == /\ Found(p, "chdir")
            /\ IF type[cur[p]] = "dir"
               THEN Return(p, <<cwd[p]>>) /\ cwd' = [cwd EXCEPT ![p] = cur[p]]
               ELSE Return(p, <<cur[p]>>) /\ UNCHANGED cwd
            /\ valid' = [valid EXCEPT ![cur[p]] = TRUE]
            /\ UNCHANGED <<diskVars, ref, busy, free, fd, panic, history>>

-----------------------------------------------------------------------------
(* create(): open(O_CREATE) and mkdir() *)

AtParent(p, what) == At(p, "parent") /\ op[p] \in what /\ Lock(cur[p])

\* The name exists: unlock and put the directory, then lock the inode.
CreateExists(p) ==
    LET i == Lookup(cur[p], Head(rest[p]))
    IN  /\ AtParent(p, {"create", "mkdir"}) /\ i # 0
        /\ Follow(cur[p], Head(rest[p]))
        /\ Then(p, "exists", <<cur[p]>>)
        /\ cur' = [cur EXCEPT ![p] = 0]
        /\ tgt' = [tgt EXCEPT ![p] = i]
        /\ valid' = [valid EXCEPT ![cur[p]] = TRUE]
        /\ UNCHANGED <<diskVars, busy, op, rest, free, cwd, fd, panic, lost>>

\* mkdir() of a name that exists fails, and so does open() of a directory.
OpenExisting(p) ==
    LET i == tgt[p]
    IN  /\ At(p, "exists") /\ Lock(i)
        /\ \/ Return(p, <<i>>) /\ UNCHANGED fd
           \/ /\ op[p] = "create" /\ type[i] = "file"
              /\ Return(p, <<>>) /\ fd' = [fd EXCEPT ![p] = i]
        /\ valid' = [valid EXCEPT ![i] = TRUE]
        /\ UNCHANGED <<diskVars, ref, busy, free, cwd, panic, history>>

FreeInodes == {i \in Inum : type[i] = "free"}

\* ialloc() under the directory's lock, which is kept.
CreateAlloc(p) ==
    /\ AtParent(p, {"create", "mkdir"}) /\ Lookup(cur[p], Head(rest[p])) = 0
    /\ FreeInodes # {}
    /\ LET i == Min(FreeInodes)
       IN  /\ type' = [type EXCEPT ![i] = IF op[p] = "mkdir" THEN "dir" ELSE "file"]
           /\ nlink' = [nlink EXCEPT ![i] = 0]
           /\ Get(i)
           /\ tgt' = [tgt EXCEPT ![p] = i]
    /\ busy' = [busy EXCEPT ![cur[p]] = TRUE]
    /\ valid' = [valid EXCEPT ![cur[p]] = TRUE]
    /\ pc' = [pc EXCEPT ![p] = "fill"]
    /\ UNCHANGED <<entry, dotdot, op, rest, cur, put, free, cwd, fd, panic, history>>

\* The new inode is locked and linked, the directory unlocked and put.
CreateLink(p) ==
    LET i == tgt[p]
        d == cur[p]
    IN  /\ At(p, "fill") /\ Lock(i)
        /\ nlink' = [nlink EXCEPT ![i] = 1,
                                  ![d] = IF op[p] = "mkdir" THEN @ + 1 ELSE @]
        /\ dotdot' = [dotdot EXCEPT ![i] = IF op[p] = "mkdir" THEN d ELSE 0]
        /\ entry' = [entry EXCEPT ![d][Head(rest[p])] = i]
        /\ busy' = [busy EXCEPT ![i] = TRUE, ![d] = FALSE]
        /\ valid' = [valid EXCEPT ![i] = TRUE]
        /\ Then(p, "made", <<d>>)
        /\ cur' = [cur EXCEPT ![p] = 0]
        /\ UNCHANGED <<type, ref, op, rest, tgt, free, cwd, fd, panic, history>>

\* mkdir() puts the new inode, open() keeps it (or fails for want of a file).
CreateDone(p) ==
    LET i == tgt[p]
    IN  /\ At(p, "made")
        /\ busy' = [busy EXCEPT ![i] = FALSE]
        /\ \/ Return(p, <<i>>) /\ UNCHANGED fd
           \/ /\ op[p] = "create"
              /\ Return(p, <<>>) /\ fd' = [fd EXCEPT ![p] = i]
        /\ UNCHANGED <<diskVars, ref, valid, free, cwd, panic, history>>

-----------------------------------------------------------------------------
(* unlink() *)

\* Mutant of Refused: ".." can be unlinked.
RefusedNoDots(p) == Lookup(cur[p], Head(rest[p])) = 0

\* The directory is locked; "." and ".." are refused.
Refused(p) == Head(rest[p]) = ".." \/ Lookup(cur[p], Head(rest[p])) = 0

UnlinkLookup(p) ==
    LET d == cur[p]
        n == Head(rest[p])
    IN  /\ AtParent(p, {"unlink"})
        /\ valid' = [valid EXCEPT ![d] = TRUE]
        /\ IF Refused(p)
           THEN Return(p, <<d>>) /\ UNCHANGED <<ref, busy>>
           ELSE /\ Get(Lookup(d, n))
                /\ busy' = [busy EXCEPT ![d] = TRUE]
                /\ tgt' = [tgt EXCEPT ![p] = Lookup(d, n)]
                /\ pc' = [pc EXCEPT ![p] = "remove"]
                /\ UNCHANGED <<op, rest, cur, put>>
        /\ UNCHANGED <<diskVars, free, cwd, fd, panic, history>>

isdirempty(i) == entry[i] = NoEntries

\* Both are locked.  A directory that is not empty stays: iput() of it does not
\* sleep, so the parent is unlocked at once.  Otherwise the entry goes; the
\* parent is unlocked and put while the inode stays locked.
UnlinkRemove(p) ==
    LET i == tgt[p]
        d == cur[p]
    IN  /\ At(p, "remove") /\ Lock(i) /\ nlink[i] >= 1
        /\ valid' = [valid EXCEPT ![i] = TRUE]
        /\ IF type[i] = "dir" /\ ~isdirempty(i)
           THEN /\ busy' = [busy EXCEPT ![d] = FALSE]
                /\ Return(p, <<i, d>>)
                /\ UNCHANGED <<nlink, entry>>
           ELSE /\ entry' = [entry EXCEPT ![d][Head(rest[p])] = 0]
                /\ nlink' = [nlink EXCEPT ![d] = IF type[i] = "dir" THEN @ - 1 ELSE @]
                /\ busy' = [busy EXCEPT ![d] = FALSE, ![i] = TRUE]
                /\ Then(p, "drop", <<d>>)
                /\ cur' = [cur EXCEPT ![p] = 0]
                /\ UNCHANGED <<op, rest, tgt>>
        /\ UNCHANGED <<type, dotdot, ref, free, cwd, fd, panic, history>>

UnlinkDrop(p) ==
    LET i == tgt[p]
    IN  /\ At(p, "drop")
        /\ nlink' = [nlink EXCEPT ![i] = @ - 1]
        /\ busy' = [busy EXCEPT ![i] = FALSE]
        /\ Return(p, <<i>>)
        /\ UNCHANGED <<type, entry, dotdot, ref, valid, free, cwd, fd, panic, history>>

-----------------------------------------------------------------------------
(* link() *)

\* Mutant of Counted: the link is not counted.
CountedNot(n) == n

\* link(): ip->nlink++
Counted(n) == n + 1

\* The link is counted before the new name is looked up.
LinkCount(p, new) ==
    LET i == cur[p]
    IN  /\ Found(p, "link_old")
        /\ valid' = [valid EXCEPT ![i] = TRUE]
        /\ IF type[i] = "dir"
           THEN Return(p, <<i>>) /\ UNCHANGED <<nlink, ref>>
           ELSE /\ nlink' = [nlink EXCEPT ![i] = Counted(@)]
                /\ tgt' = [tgt EXCEPT ![p] = i]
                /\ Start(p, "link", new)
                /\ UNCHANGED put
        /\ UNCHANGED <<type, entry, dotdot, busy, free, cwd, fd, panic, history>>

\* dirlink() under the directory's lock.
LinkEnter(p) ==
    LET d == cur[p]
        n == Head(rest[p])
    IN  /\ AtParent(p, {"link"})
        /\ valid' = [valid EXCEPT ![d] = TRUE]
        /\ IF Lookup(d, n) # 0
           THEN Fail(p) /\ UNCHANGED entry
           ELSE /\ entry' = [entry EXCEPT ![d][n] = tgt[p]]
                /\ Return(p, <<d, tgt[p]>>)
        /\ UNCHANGED <<type, nlink, dotdot, ref, busy, free, cwd, fd, panic, history>>

\* Mutant of LinkUndo: the count stays.
LinkUndoNot(p) ==
    /\ At(p, "undo") /\ Lock(tgt[p])
    /\ valid' = [valid EXCEPT ![tgt[p]] = TRUE]
    /\ Return(p, <<tgt[p]>>)
    /\ UNCHANGED <<diskVars, ref, busy, free, cwd, fd, panic, history>>

\* The label bad: the count is taken back.
LinkUndo(p) ==
    LET i == tgt[p]
    IN  /\ At(p, "undo") /\ Lock(i)
        /\ nlink' = [nlink EXCEPT ![i] = @ - 1]
        /\ valid' = [valid EXCEPT ![i] = TRUE]
        /\ Return(p, <<i>>)
        /\ UNCHANGED <<type, entry, dotdot, ref, busy, free, cwd, fd, panic, history>>

-----------------------------------------------------------------------------
(* panic() *)

\* The checks that the next step of p does not pass.
Panics(p) ==
    LET i == IF put[p] = <<>> THEN Wanted(p) ELSE 0
    IN  {m \in {"ilock: no type", "unlink: nlink < 1", "ialloc: no inodes", "iput busy"} :
            \/ /\ i # 0 /\ ~busy[i]
               /\ \/ m = "ilock: no type" /\ NoType(i)
                  \/ m = "unlink: nlink < 1" /\ pc[p] = "remove" /\ nlink[i] < 1
                  \/ /\ m = "ialloc: no inodes" /\ FreeInodes = {}
                     /\ pc[p] = "parent" /\ op[p] \in {"create", "mkdir"}
                     /\ ~NoType(i) /\ Lookup(i, Head(rest[p])) = 0
            \/ /\ m = "iput busy" /\ put[p] # <<>> /\ free[p] = "no"
               /\ Freeing(Head(put[p])) /\ busy[Head(put[p])]}

Panic(p) == /\ panic = "no"
            /\ \E m \in Panics(p) : panic' = m
            /\ UNCHANGED <<diskVars, cacheVars, callVars, cwd, fd, history>>

\* The kernel loops for ever.
Halted == panic # "no" /\ UNCHANGED vars

Next == \/ \E p \in Proc :
              \/ Panic(p) \/ Iput(p) \/ IputDisk(p) \/ IputDone(p)
              \/ \E c \in Calls : Call(p, c)
              \/ \E c \in {k \in Calls : k.op = "link_old"} : LinkCount(p, c.new)
              \/ Walk(p) \/ Open(p) \/ Close(p) \/ Chdir(p)
              \/ CreateExists(p) \/ OpenExisting(p) \/ CreateAlloc(p)
              \/ CreateLink(p) \/ CreateDone(p)
              \/ UnlinkLookup(p) \/ UnlinkRemove(p) \/ UnlinkDrop(p)
              \/ LinkEnter(p) \/ LinkUndo(p)
        \/ Halted

Spec == Init /\ [][Next]_vars

-----------------------------------------------------------------------------
(* Properties *)

\* All variables have their types; ref never goes below zero.
TypeOK == /\ type \in [Inum -> {"free", "file", "dir"}]
          /\ nlink \in [Inum -> Int]
          /\ entry \in [Inum -> [Names -> 0..NINODES]]
          /\ dotdot \in [Inum -> 0..NINODES]
          /\ ref \in [Inum -> Nat]
          /\ {busy, valid} \subseteq [Inum -> BOOLEAN]
          /\ {cur, tgt, cwd, fd} \subseteq [Proc -> 0..NINODES]
          /\ put \in [Proc -> Seq(Inum)]
          /\ free \in [Proc -> {"no", "disk", "done"}]
          /\ lost \in [Inum -> Nat]

\* ip->ref counts the pointers to the inode: current directories, open
\* files, and those that calls in progress hold (fs.c:121-126).
RefsExact == \A i \in Inum :
    ref[i] = Cardinality({p \in Proc : cwd[p] = i})
             + Cardinality({p \in Proc : fd[p] = i})
             + Cardinality({p \in Proc : cur[p] = i})
             + Cardinality({p \in Proc : tgt[p] = i})
             + Cardinality({p \in Proc : put[p] # <<>> /\ put[p][1] = i})
             + Cardinality({p \in Proc : Len(put[p]) = 2 /\ put[p][2] = i})

\* The file system does not panic but for want of inodes: whatever the order of
\* calls, an inode that somebody got from a name is allocated when it is locked,
\* and is neither locked when it is freed nor unlinked more often than linked.
\* The exception is a lookup that followed the ".." of a removed directory.
NoPanic == strayed \/ panic \in {"no", "ialloc: no inodes"}

\* Names are good: a name in a directory leads to an allocated inode, and a link
\* count covers all of the names, so that removing one name never frees an
\* inode that has another.
NamesGood == \A i \in Inum : /\ Links(i) # {} => type[i] # "free"
                             /\ nlink[i] >= Cardinality(Links(i))

\* Directories in i, which count for i by their "..".
Subdirs(i) == {d \in Inum \ {Root} : type[d] = "dir" /\ dotdot[d] = i /\ Links(d) # {}}

\* Between calls the link counts are exact: every link() that failed was undone,
\* and every unlink() took back what create() and mkdir() had counted.  Only a
\* name made in a directory that was already removed stays counted when that
\* directory is freed (create() does not look at dp->nlink), and its inode is
\* never freed.
CountsExact == (panic = "no" /\ \A p \in Proc : pc[p] = "user" /\ put[p] = <<>>) =>
                  \A i \in Inum : type[i] # "free" =>
                     nlink[i] = Cardinality(Links(i)) + Cardinality(Subdirs(i)) + lost[i]
                                + (IF i = Root THEN 1 ELSE 0)

\* The inodes p has locked: what Wanted() sleeps on while another has it.
Locked(p) == {i \in Inum : \/ pc[p] \in {"fill", "remove"} /\ i = cur[p]
                           \/ pc[p] \in {"made", "drop"} /\ i = tgt[p]
                           \/ free[p] # "no" /\ i = Head(put[p])}

\* Nobody waits in ilock() for an inode of its own, and no two processes wait
\* for each other: locks are taken from a directory to what is in it.
NoLockCycle == \A p, q \in Proc :
    ~ /\ put[p] = <<>> /\ Wanted(p) \in Locked(q)
      /\ put[q] = <<>> /\ Wanted(q) \in Locked(p)

\* An open file and a current directory keep their inode, also when its last
\* name is gone.
OpenStays == \A p \in Proc : /\ type[cwd[p]] = "dir"
                             /\ fd[p] # 0 => type[fd[p]] # "free"

\* The tree of names stays whole while several processes change it, as long as
\* nobody goes up from a removed directory: names lead to allocated inodes, link
\* counts cover and between calls equal the names, what is open is not freed,
\* and the locks that guard this form no cycle.
TreeInv == /\ TypeOK
           /\ strayed \/ (NamesGood /\ CountsExact /\ OpenStays /\ NoLockCycle)
=============================================================================
