-------------------------------- MODULE User --------------------------------
(***************************************************************************)
(* The system as its programs see it: files, directories, descriptors,     *)
(* pipes, processes and memory, each system call one step (sysfile.c,      *)
(* sysproc.c and what they call), a pipe transfer one step for each byte.  *)
(* Programs are sequences of calls that say which results they go on with; *)
(* Usertests and Shell hold the ones of the repository.  The scheduler     *)
(* picks any process for every step.                                       *)
(***************************************************************************)
EXTENDS Usertests, Shell

CONSTANTS NPROC, NOFILE, NFILE, NINODES,
          PIPESIZE, PHYSTOP,   \* bytes of a pipe; pages of user memory
          Sessions,            \* sequences of command lines typed at the shell
          Image(_)             \* names of the files mkfs put on the disk for a session

ASSUME UserAssumption == NPROC \in Nat /\ NOFILE \in Nat /\ PIPESIZE \in Nat \ {0} /\ PHYSTOP \in Nat

VARIABLES inode,    \* [type, nlink, data]; the data of a directory are its entries
          file,     \* [ref, type, ip, off, readable, writable]; of a pipe, ip is its number
          pipe,     \* bytes in each pipe
          proc,     \* [state, code, reg, cwd, ofile, parent, killed, mem, held]
          input,    \* lines the shell has not read
          screen,   \* what was written to the console
          oops,     \* history: calls that returned what their program complains about
          session   \* history: the lines typed

vars == <<inode, file, pipe, proc, input, screen, oops, session>>

README == <<"r", "e", "a">>
Pid == 1..NPROC
Ino == 1..NINODES
File == 1..NFILE
Fd == 0..(NOFILE - 1)
ROOTINO == 1
INIT == 1

NoFile == [ref |-> 0, type |-> "none", ip |-> 0, off |-> 0, readable |-> FALSE, writable |-> FALSE]
NoInode == [type |-> "free", nlink |-> 0, data |-> <<>>]
Registers == {"0", "1", "2", "fd", "fd1", "p0", "p1", "pid", "pid1", "pid2"}
NoReg == [r \in Registers |-> CASE r = "0" -> 0 [] r = "1" -> 1 [] r = "2" -> 2 [] OTHER -> -1]
NoProc == [state |-> "unused", code |-> <<>>, reg |-> NoReg, cwd |-> ROOTINO, ofile |-> [d \in Fd |-> 0],
           parent |-> 0, killed |-> FALSE, mem |-> <<>>, held |-> <<>>]

-----------------------------------------------------------------------------
(* Running a program *)

Good(want, r) == CASE want = "any" -> TRUE [] want = "ok" -> r >= 0 [] want = "fail" -> r < 0 [] want = "pid" -> FALSE

Running(p) == proc[p].state = "run" /\ proc[p].code # <<>> /\ ~proc[p].killed
Ins(p) == Head(proc[p].code)

\* Process p, changed to q by its call, goes on after it or elsewhere.
NextCode(p, good) == CASE good -> Tail(proc[p].code)
                       [] ~good /\ Ins(p).fail = "jump" -> Ins(p).alt
                       [] ~good /\ Ins(p).fail = "again" -> proc[p].code
                       [] OTHER -> <<>>
GoOn(p, q, good) ==
    /\ proc' = [proc EXCEPT ![p] = [q EXCEPT !.code = NextCode(p, good)]]
    /\ oops' = IF good \/ Ins(p).fail # "oops" THEN oops ELSE oops \cup {Ins(p)}
Return(p, q, r) == GoOn(p, IF Ins(p).into = "" THEN q ELSE [q EXCEPT !.reg[Ins(p).into] = r], Good(Ins(p).want, r))
Result(p, r) == Return(p, proc[p], r)

Least(S) == CHOOSE x \in S : \A y \in S : x <= y

\* Memory is given out by the page.
Fits(n) == FoldLeft(LAMBDA sum, q : sum + Len(proc[q].mem), n, [q \in Pid |-> q]) <= PHYSTOP
Zeros(n) == [k \in 1..n |-> 0]

-----------------------------------------------------------------------------
(* Descriptors and pipes *)

\* argfd(): the open file behind a descriptor, 0 for none.
argfd(p, d) == IF d \in Fd THEN proc[p].ofile[d] ELSE 0
Arg(p) == argfd(p, proc[p].reg[Ins(p).fd])

IsPipe(f) == file[f].type = "pipe"
Ends(pp, mode) == {f \in File : file[f].type = "pipe" /\ file[f].ip = pp /\ (IF mode = "r" THEN file[f].readable ELSE file[f].writable)}

\* piperead() returns 0 once no descriptor can write any more.
AtEnd(pp) == pipe[pp] = <<>> /\ Ends(pp, "w") = {}

MayRead(f) == f # 0 /\ file[f].readable
Ready(f) == IF IsPipe(f) THEN pipe[file[f].ip] # <<>> \/ AtEnd(file[f].ip) ELSE inode[file[f].ip].type # "dev"
MayWrite(f) == f # 0 /\ file[f].writable
\* Mutant of Room: a full pipe is written on.
RoomAlways(f) == TRUE
Room(f) == IsPipe(f) => Len(pipe[file[f].ip]) < PIPESIZE

\* pipewrite() looks for a reader only when the pipe is full.
Broken(f) == IsPipe(f) /\ ~Room(f) /\ Ends(file[f].ip, "r") = {}

Children(p) == {q \in Pid : proc[q].state # "unused" /\ proc[q].parent = p}
Zombies(p) == {q \in Children(p) : proc[q].state = "zombie"}

\* What makes a call sleep: an empty or a full pipe, children that run on, no
\* line typed.  A loop without a call never gets to a next one.
WaitsToRead(f) == MayRead(f) /\ ~Ready(f)
WaitsToWrite(f) == MayWrite(f) /\ ~Broken(f) /\ ~Room(f)
Waits(p) == LET ins == Ins(p)
            IN  \/ ins.op \in {"read", "readloop"} /\ WaitsToRead(Arg(p))
                \/ ins.op = "copy" /\ proc[p].held = <<>> /\ WaitsToRead(Arg(p))
                \/ ins.op = "copy" /\ proc[p].held # <<>> /\ WaitsToWrite(argfd(p, proc[p].reg[ins.to]))
                \/ ins.op = "write" /\ WaitsToWrite(Arg(p))
                \/ ins.op = "wait" /\ Zombies(p) = {} /\ Children(p) # {}
                \/ ins.op = "getcmd" /\ input = <<>>
                \/ ins.op = "spin"
Calls(p, op) == Running(p) /\ Ins(p).op = op /\ ~Waits(p)

-----------------------------------------------------------------------------
(* Path names *)

\* skipelem() keeps DIRSIZ bytes of a name; one name of the programs is longer.
skipelem(name) == IF name = "123456789012345" THEN "12345678901234" ELSE name

Entry(i, name) == {n \in DOMAIN inode[i].data : inode[i].data[n] = <<name, inode[i].data[n][2]>> /\ inode[i].data[n][2] # 0}
dirlookup(i, name) == IF inode[i].type # "dir" \/ Entry(i, name) = {} THEN 0
                      ELSE inode[i].data[CHOOSE n \in Entry(i, name) : TRUE][2]
Lookup(i, name) == IF i = 0 THEN 0 ELSE dirlookup(i, skipelem(name))

\* A path that starts with "/" is looked up from the root.
namei(p, path) == IF path # <<>> /\ path[1] = "/" THEN FoldLeft(Lookup, ROOTINO, Tail(path))
                                                  ELSE FoldLeft(Lookup, proc[p].cwd, path)
\* The directory a path ends in; 0 where the path has no last name.
nameiparent(p, path) == LET i == IF path = <<>> THEN 0 ELSE namei(p, Front(path))
                        IN  IF i = 0 \/ inode[i].type # "dir" THEN 0 ELSE i
Name(path) == skipelem(Last(path))

\* dirlink() takes the first empty entry.
dirlink(data, name, i) == LET free == {n \in DOMAIN data : data[n][2] = 0}
                          IN  IF free = {} THEN Append(data, <<name, i>>)
                              ELSE [data EXCEPT ![CHOOSE n \in free : \A m \in free : n <= m] = <<name, i>>]

\* iput() frees the inodes that nothing names and nothing uses any more.
Used(i, files, procs) == \/ \E f \in File : files[f].ref > 0 /\ files[f].type = "inode" /\ files[f].ip = i
                         \/ \E p \in Pid : procs[p].state = "run" /\ procs[p].cwd = i
iput(inodes) == [i \in Ino |-> IF inodes[i].nlink = 0 /\ ~Used(i, file', proc') THEN NoInode ELSE inodes[i]]

-----------------------------------------------------------------------------
(* Calls on descriptors *)

FreeFds(p) == {d \in Fd : proc[p].ofile[d] = 0}
FreeFiles == {f \in File : file[f].ref = 0}

\* Mutant of fileclose: the references of the file are not counted down.
filecloseKept(files, f) == files
\* The file table after the last or another descriptor of f is closed.
fileclose(files, f) == [files EXCEPT ![f] = IF @.ref = 1 THEN NoFile ELSE [@ EXCEPT !.ref = @ - 1]]
filedup(files, f) == [files EXCEPT ![f].ref = @ + 1]

sys_dup(p) == LET f == Arg(p)
                  done == f # 0 /\ FreeFds(p) # {}
              IN  /\ Calls(p, "dup")
                  /\ file' = IF done THEN filedup(file, f) ELSE file
                  /\ IF done THEN Return(p, [proc[p] EXCEPT !.ofile[Least(FreeFds(p))] = f], Least(FreeFds(p)))
                             ELSE Result(p, -1)
                  /\ UNCHANGED <<inode, pipe, input, screen, session>>

sys_close(p) == LET f == Arg(p)
                IN  /\ Calls(p, "close")
                    /\ file' = IF f = 0 THEN file ELSE fileclose(file, f)
                    /\ IF f = 0 THEN Result(p, -1)
                       ELSE GoOn(p, [proc[p] EXCEPT !.ofile[proc[p].reg[Ins(p).fd]] = 0], TRUE)
                    /\ inode' = iput(inode)
                    /\ UNCHANGED <<pipe, input, screen, session>>

\* A pipe is free when no open file leads to it.
FreePipes == {pp \in DOMAIN pipe : Ends(pp, "r") \cup Ends(pp, "w") = {}}
sys_pipe(p) ==
    LET fds == FreeFds(p)
        d0 == Least(fds)
        d1 == Least(fds \ {d0})
        f0 == Least(FreeFiles)
        f1 == Least(FreeFiles \ {f0})
        pp == Least(FreePipes)
        end == [NoFile EXCEPT !.ref = 1, !.type = "pipe", !.ip = pp]
    IN  /\ Calls(p, "pipe")
        /\ IF \E x, y \in fds : x # y /\ \E f, g \in FreeFiles : f # g
           THEN /\ file' = [file EXCEPT ![f0] = [end EXCEPT !.readable = TRUE], ![f1] = [end EXCEPT !.writable = TRUE]]
                /\ pipe' = [pipe EXCEPT ![pp] = <<>>]
                /\ GoOn(p, [proc[p] EXCEPT !.ofile[d0] = f0, !.ofile[d1] = f1, !.reg["p0"] = d0, !.reg["p1"] = d1],
                        Ins(p).want # "fail")
           ELSE Result(p, -1) /\ UNCHANGED <<file, pipe>>
        /\ UNCHANGED <<inode, input, screen, session>>

-----------------------------------------------------------------------------
(* Names *)

FreeInodes == {i \in Ino : inode[i].type = "free"}

\* create(): the inodes afterwards, and the one that has the name (0: none).
\* A file that exists is taken, whatever else exists is not.
create(p, path, type) ==
    LET dp == nameiparent(p, path)
        old == IF dp = 0 THEN 0 ELSE dirlookup(dp, Name(path))
        new == Least(FreeInodes)
        dots == IF type = "dir" THEN <<<<".", new>>, <<"..", dp>>>> ELSE <<>>
    IN  IF dp = 0 THEN [inodes |-> inode, ip |-> 0]
        ELSE IF old # 0 THEN [inodes |-> inode, ip |-> IF type = "file" /\ inode[old].type = "file" THEN old ELSE 0]
        ELSE [inodes |-> [inode EXCEPT ![new] = [type |-> type, nlink |-> 1, data |-> dots],
                                       ![dp].nlink = IF type = "dir" THEN @ + 1 ELSE @,
                                       ![dp].data = dirlink(@, Name(path), new)],
              ip |-> new]

sys_open(p) ==
    LET ins == Ins(p)
        c == IF ins.create THEN create(p, ins.path, "file") ELSE [inodes |-> inode, ip |-> namei(p, ins.path)]
        refused == \/ c.ip = 0
                   \/ ~ins.create /\ inode[c.ip].type = "dir" /\ ins.mode # "r"
                   \/ FreeFiles = {} \/ FreeFds(p) = {}
        f == Least(FreeFiles)
        d == Least(FreeFds(p))
    IN  /\ Calls(p, "open")
        /\ IF refused THEN Result(p, -1) /\ UNCHANGED file
           ELSE /\ file' = [file EXCEPT ![f] = [ref |-> 1, type |-> "inode", ip |-> c.ip, off |-> 0,
                                                readable |-> ins.mode # "w", writable |-> ins.mode # "r"]]
                /\ Return(p, [proc[p] EXCEPT !.ofile[d] = f], d)
        /\ inode' = c.inodes
        /\ UNCHANGED <<pipe, input, screen, session>>

\* sys_mkdir() and sys_mknod().
Make(p, op, type) == LET c == create(p, Ins(p).path, type)
                     IN  /\ Calls(p, op)
                         /\ Result(p, IF c.ip = 0 THEN -1 ELSE 0)
                         /\ inode' = c.inodes
                         /\ UNCHANGED <<file, pipe, input, screen, session>>
sys_mkdir(p) == Make(p, "mkdir", "dir")
sys_mknod(p) == Make(p, "mknod", "dev")

\* Mutant of Linkable: a directory may get a second name.
LinkableAny(p, ins) == namei(p, ins.old) # 0
\* Only a file or a device gets another name.
Linkable(p, ins) == namei(p, ins.old) # 0 /\ inode[namei(p, ins.old)].type # "dir"
sys_link(p) ==
    LET ins == Ins(p)
        ip == namei(p, ins.old)
        dp == nameiparent(p, ins.path)
    IN  /\ Calls(p, "link")
        /\ IF Linkable(p, ins) /\ dp # 0 /\ dirlookup(dp, Name(ins.path)) = 0
           THEN /\ inode' = [inode EXCEPT ![ip].nlink = @ + 1, ![dp].data = dirlink(@, Name(ins.path), ip)]
                /\ Result(p, 0)
           ELSE Result(p, -1) /\ UNCHANGED inode
        /\ UNCHANGED <<file, pipe, input, screen, session>>

\* Mutant of isdirempty: any directory will do.
isdiremptyNever(i) == TRUE
isdirempty(i) == \A n \in 3..Len(inode[i].data) : inode[i].data[n][2] = 0
sys_unlink(p) ==
    LET path == Ins(p).path
        dp == nameiparent(p, path)
        ip == IF dp = 0 \/ Name(path) \in {".", ".."} THEN 0 ELSE dirlookup(dp, Name(path))
        isdir == ip # 0 /\ inode[ip].type = "dir"
        at == CHOOSE n \in Entry(dp, Name(path)) : TRUE
    IN  /\ Calls(p, "unlink")
        /\ IF ip = 0 \/ (isdir /\ ~isdirempty(ip)) THEN Result(p, -1) /\ UNCHANGED <<inode, file>>
           ELSE /\ Result(p, 0) /\ UNCHANGED file
                /\ inode' = iput([inode EXCEPT ![dp].data[at] = <<"", 0>>, ![dp].nlink = IF isdir THEN @ - 1 ELSE @,
                                               ![ip].nlink = @ - 1])
        /\ UNCHANGED <<pipe, input, screen, session>>

sys_chdir(p) == LET ip == namei(p, Ins(p).path)
                IN  /\ Calls(p, "chdir") /\ UNCHANGED file
                    /\ IF ip = 0 \/ inode[ip].type # "dir" THEN Result(p, -1) /\ UNCHANGED inode
                       ELSE /\ Return(p, [proc[p] EXCEPT !.cwd = ip], 0)
                            /\ inode' = iput(inode)
                    /\ UNCHANGED <<pipe, input, screen, session>>

\* fstat(): a program asks for the type.
sys_fstat(p) == LET f == Arg(p)
                    i == file[f].ip
                IN  /\ Calls(p, "fstat") /\ Result(p, IF f # 0 /\ file[f].type = "inode" /\ inode[i].type = "dir" THEN 0 ELSE -1)
                    /\ UNCHANGED <<inode, file, pipe, input, screen, session>>

-----------------------------------------------------------------------------
(* Reading and writing *)

Bytes(f, n) == IF IsPipe(f) THEN SubSeq(pipe[file[f].ip], 1, IF n < Len(pipe[file[f].ip]) THEN n ELSE Len(pipe[file[f].ip]))
               ELSE LET data == inode[file[f].ip].data
                    IN  SubSeq(data, file[f].off + 1, IF file[f].off + n < Len(data) THEN file[f].off + n ELSE Len(data))
\* fileread() of the bytes b: the offset is moved, or the pipe shortened.
Taken(f, b) == IF IsPipe(f) THEN /\ pipe' = [pipe EXCEPT ![file[f].ip] = SubSeq(@, Len(b) + 1, Len(@))] /\ UNCHANGED file
                            ELSE /\ file' = [file EXCEPT ![f].off = @ + Len(b)] /\ UNCHANGED pipe

\* One read(); a program may name the results it accepts.
sys_read(p) ==
    LET f == Arg(p)
        b == Bytes(f, Ins(p).n)
    IN  /\ Calls(p, "read")
        /\ IF ~MayRead(f) THEN GoOn(p, proc[p], FALSE) /\ UNCHANGED <<file, pipe>>
           ELSE Taken(f, b) /\ GoOn(p, proc[p], Ins(p).accept = {} \/ b \in Ins(p).accept)
        /\ UNCHANGED <<inode, input, screen, session>>

\* while(read() > 0): what was read is kept and looked at in the end.
read_loop(p) ==
    LET f == Arg(p)
        b == Bytes(f, Ins(p).n)
        held == proc[p].held \o b
        fits == \/ Ins(p).accept = {} /\ Ins(p).names = {}
                \/ Ins(p).accept # {} /\ held \in Ins(p).accept
                \/ \A n \in Ins(p).names : Cardinality({k \in DOMAIN held : held[k] = <<n, held[k][2]>> /\ held[k][2] # 0}) = 1
    IN  /\ Calls(p, "readloop")
        /\ IF ~MayRead(f) THEN GoOn(p, proc[p], FALSE) /\ UNCHANGED <<file, pipe>>
           ELSE /\ Taken(f, b)
                /\ IF b = <<>> THEN GoOn(p, [proc[p] EXCEPT !.held = <<>>], fits)
                   ELSE proc' = [proc EXCEPT ![p].held = held] /\ UNCHANGED oops
        /\ UNCHANGED <<inode, input, screen, session>>

\* Mutant of Overwritten: the bytes go to the end of the file.
OverwrittenEnd(data, off, b) == data \o b
\* writei() at an offset.
Overwritten(data, off, b) == [k \in 1..(IF off + Len(b) > Len(data) THEN off + Len(b) ELSE Len(data)) |->
                                IF k > off /\ k <= off + Len(b) THEN b[k - off] ELSE data[k]]
\* filewrite() of the bytes b, of one byte to a pipe.
Given(f, b) ==
    LET i == file[f].ip
    IN  CASE IsPipe(f) -> pipe' = [pipe EXCEPT ![i] = Append(@, Head(b))] /\ UNCHANGED <<inode, file, screen>>
          [] ~IsPipe(f) /\ inode[i].type = "dev" -> screen' = screen \o b /\ UNCHANGED <<inode, file, pipe>>
          [] OTHER -> /\ inode' = [inode EXCEPT ![i].data = Overwritten(@, file[f].off, b)]
                      /\ file' = [file EXCEPT ![f].off = @ + Len(b)]
                      /\ UNCHANGED <<pipe, screen>>

\* One write(); held counts what a pipe has taken of it.
sys_write(p) ==
    LET f == Arg(p)
        rest == SubSeq(Ins(p).data, Len(proc[p].held) + 1, Len(Ins(p).data))
        last == ~IsPipe(f) \/ Len(rest) = 1
    IN  /\ Calls(p, "write")
        /\ IF ~MayWrite(f) \/ Broken(f)
           THEN GoOn(p, [proc[p] EXCEPT !.held = <<>>], Good(Ins(p).want, -1)) /\ UNCHANGED <<inode, file, pipe, screen>>
           ELSE /\ Given(f, rest)
                /\ IF last THEN GoOn(p, [proc[p] EXCEPT !.held = <<>>], Good(Ins(p).want, Len(Ins(p).data)))
                   ELSE proc' = [proc EXCEPT ![p].held = Append(@, Head(rest))] /\ UNCHANGED oops
        /\ UNCHANGED <<input, session>>

\* A program that reads and writes on in turn, as cat does; the result of the
\* write is not looked at, a failed read ends it.
copy_loop(p) ==
    LET f == Arg(p)
        to == argfd(p, proc[p].reg[Ins(p).to])
        b == Bytes(f, Ins(p).n)
        held == proc[p].held
    IN  /\ Calls(p, "copy")
        /\ IF held = <<>>
           THEN /\ IF ~MayRead(f) THEN GoOn(p, proc[p], FALSE) /\ UNCHANGED <<file, pipe>>
                   ELSE /\ Taken(f, b)
                        /\ IF b = <<>> THEN GoOn(p, proc[p], TRUE)
                           ELSE proc' = [proc EXCEPT ![p].held = b] /\ UNCHANGED oops
                /\ UNCHANGED <<inode, screen>>
           ELSE /\ IF ~MayWrite(to) \/ Broken(to)
                   THEN proc' = [proc EXCEPT ![p].held = <<>>] /\ UNCHANGED <<inode, file, pipe, screen>>
                   ELSE /\ Given(to, held)
                        /\ proc' = [proc EXCEPT ![p].held = IF IsPipe(to) THEN Tail(@) ELSE <<>>]
                /\ UNCHANGED oops
        /\ UNCHANGED <<input, session>>

-----------------------------------------------------------------------------
(* Processes *)

Unused == {q \in Pid : proc[q].state = "unused"}

sys_fork(p) ==
    LET q == Least(Unused)
        dups == [f \in File |-> [file[f] EXCEPT !.ref = @ + Cardinality({d \in Fd : proc[p].ofile[d] = f})]]
    IN  /\ Calls(p, "fork")
        /\ IF Unused = {} \/ ~Fits(Len(proc[p].mem)) THEN Result(p, -1) /\ UNCHANGED file
           ELSE /\ Good(Ins(p).want, q)
                /\ proc' = [proc EXCEPT ![p].code = Tail(@), ![p].reg[Ins(p).into] = q,
                                        ![q] = [proc[p] EXCEPT !.code = Ins(p).child, !.parent = p, !.reg[Ins(p).into] = 0]]
                /\ file' = dups /\ UNCHANGED oops
        /\ UNCHANGED <<inode, pipe, input, screen, session>>

\* exit() gives the children to init.
Orphaned(q, p) == IF q.parent = p THEN [q EXCEPT !.parent = INIT] ELSE q

\* exit(), called, or on the way back to a program that was killed: descriptors
\* and directory are let go.
Ending(p) == proc[p].state = "run" /\ (proc[p].code = <<>> \/ proc[p].killed)
sys_exit(p) ==
    /\ Ending(p) /\ p # INIT
    /\ file' = FoldLeft(LAMBDA fs, d : IF proc[p].ofile[d] = 0 THEN fs ELSE fileclose(fs, proc[p].ofile[d]),
                        file, [k \in 1..NOFILE |-> k - 1])
    /\ proc' = [q \in Pid |-> IF q = p THEN [NoProc EXCEPT !.state = "zombie", !.parent = proc[p].parent]
                              ELSE Orphaned(proc[q], p)]
    /\ inode' = iput(inode)
    /\ UNCHANGED <<pipe, input, screen, oops, session>>

\* wait(): the first zombie in the table is collected; a program may look at
\* whether it is the child it thinks of.
sys_wait(p) ==
    /\ Calls(p, "wait")
    /\ IF Zombies(p) = {} THEN GoOn(p, proc[p], Ins(p).fail = "again" \/ Good(Ins(p).want, -1))
       ELSE LET q == Least(Zombies(p))
                good == IF Ins(p).want = "pid" THEN q = proc[p].reg["pid"] ELSE Good(Ins(p).want, q)
            IN  /\ proc' = [proc EXCEPT ![q] = NoProc, ![p].code = NextCode(p, good)]
                /\ oops' = IF good \/ Ins(p).fail # "oops" THEN oops ELSE oops \cup {Ins(p)}
    /\ UNCHANGED <<inode, file, pipe, input, screen, session>>

\* kill() marks the process; it ends before its next step in user mode, and a
\* blocked call lets go of it.
sys_kill(p) == LET q == proc[p].reg[Ins(p).fd]
               IN  /\ Calls(p, "kill")
                   /\ IF q \in Pid /\ proc[q].state # "unused"
                      THEN /\ proc' = [proc EXCEPT ![q].killed = TRUE, ![p].code = Tail(@)] /\ UNCHANGED oops
                      ELSE Result(p, -1)
                   /\ UNCHANGED <<inode, file, pipe, input, screen, session>>

\* sleep() ends some time.
sys_sleep(p) == /\ Calls(p, "sleep") /\ Result(p, 0) /\ UNCHANGED <<inode, file, pipe, input, screen, session>>

\* An instruction user mode may not execute, or an address that is not mapped.
fault(p) == /\ Calls(p, "fault")
            /\ proc' = [proc EXCEPT ![p].killed = TRUE] /\ UNCHANGED <<inode, file, pipe, input, screen, oops, session>>

\* A call with an address outside the process returns -1.
badarg(p) == /\ Calls(p, "badarg") /\ Result(p, -1) /\ UNCHANGED <<inode, file, pipe, input, screen, session>>

Prog(argv) == LET name == Last(argv[1])
                  args == Tail(argv)
              IN  CASE name = "usertests" -> usertests(args[1][1])
                    [] name = "sh" -> sh
                    [] name = "cat" -> cat(args)
                    [] name = "echo" -> echo(args)
                    [] name = "rm" -> rm(args)
                    [] name = "mkdir" -> mkdir(args)
                    [] name = "ln" -> ln(args)
                    [] name = "touch" -> touch(args)
                    [] name = "cp" -> cp(args)
                    [] name = "zombie" -> zombie
                    [] name = "stressfs" -> stressfs
                    [] name = "forktest" -> forktest

\* exec() of a file that is there, unless the arguments do not fit on its stack.
sys_exec(p) == LET ins == Ins(p)
                   ip == namei(p, ins.path)
               IN  /\ Calls(p, "exec")
                   /\ IF ip = 0 \/ inode[ip].data # <<"elf">> \/ ins.big THEN Result(p, -1)
                      ELSE proc' = [proc EXCEPT ![p].code = Prog(ins.argv), ![p].reg = NoReg, ![p].mem = <<>>] /\ UNCHANGED oops
                   /\ UNCHANGED <<inode, file, pipe, input, screen, session>>

\* growproc(); the pages of all processes share the memory.
sys_sbrk(p) == LET n == Ins(p).n
                   mem == proc[p].mem
               IN  /\ Calls(p, "sbrk")
                   /\ IF n > 0 /\ ~Fits(n) THEN Result(p, -1)
                      ELSE GoOn(p, [proc[p] EXCEPT !.mem = IF n < 0 THEN SubSeq(mem, 1, Len(mem) + n) ELSE mem \o Zeros(n)],
                                Good(Ins(p).want, Len(mem)))
                   /\ UNCHANGED <<inode, file, pipe, input, screen, session>>

\* The program stores to, or loads from, its last page.
memory(p) == LET mem == proc[p].mem
             IN  /\ \/ /\ Calls(p, "store")
                       /\ GoOn(p, [proc[p] EXCEPT !.mem[Len(mem)] = Ins(p).v], TRUE)
                    \/ /\ Calls(p, "load")
                       /\ GoOn(p, proc[p], Last(mem) \in Ins(p).accept)
                 /\ UNCHANGED <<inode, file, pipe, input, screen, session>>

\* Control inside a program.
Inner(p) == /\ \/ Calls(p, "loop") /\ proc' = [proc EXCEPT ![p].code = Ins(p).body \o @] /\ UNCHANGED input
               \/ Calls(p, "either") /\ UNCHANGED input
                  /\ \E c \in Ins(p).codes : proc' = [proc EXCEPT ![p].code = c \o Tail(@)]
               \/ Calls(p, "getcmd") /\ input' = Tail(input)
                  /\ proc' = [proc EXCEPT ![p].code = Line(Head(input)) \o Tail(@)]
            /\ UNCHANGED <<inode, file, pipe, screen, oops, session>>

-----------------------------------------------------------------------------

\* The disk that mkfs made, and init about to run.
Init == \E s \in Sessions :
    LET names == Image(s)
        root == <<<<".", ROOTINO>>, <<"..", ROOTINO>>>> \o [k \in 1..Len(names) |-> <<names[k], k + 1>>]
    IN  /\ inode = [i \in Ino |-> IF i = ROOTINO THEN [type |-> "dir", nlink |-> 1, data |-> root]
                                  ELSE IF i - 1 \in DOMAIN names
                                       THEN [type |-> "file", nlink |-> 1, data |-> IF names[i - 1] = "README" THEN README ELSE <<"elf">>]
                                       ELSE NoInode]
        /\ file = [f \in File |-> NoFile] /\ pipe = [pp \in 1..(NFILE \div 2) |-> <<>>]
        /\ proc = [p \in Pid |-> IF p = INIT THEN [NoProc EXCEPT !.state = "run", !.code = init] ELSE NoProc]
        /\ input = s /\ session = s /\ screen = <<>> /\ oops = {}

Step(p) == \/ sys_dup(p) \/ sys_close(p) \/ sys_pipe(p) \/ sys_open(p) \/ sys_mkdir(p) \/ sys_mknod(p) \/ sys_link(p)
           \/ sys_unlink(p) \/ sys_chdir(p) \/ sys_fstat(p) \/ sys_read(p) \/ read_loop(p) \/ sys_write(p) \/ copy_loop(p)
           \/ sys_fork(p) \/ sys_exit(p) \/ sys_wait(p) \/ sys_kill(p) \/ sys_sleep(p) \/ fault(p) \/ badarg(p)
           \/ sys_exec(p) \/ sys_sbrk(p) \/ memory(p) \/ Inner(p)

Next == \E p \in Pid : Step(p)

\* A CPU is not idle while a process can run; nothing is asked of the choice.
\* This is WF_vars(Next), with the condition under which Next is enabled spelled out.
Runnable(p) == Ending(p) \/ (Running(p) /\ ~Waits(p))
Fairness == []<>(\A p \in Pid : ~Runnable(p)) \/ []<><<Next>>_vars
Spec == Init /\ [][Next]_vars /\ Fairness

-----------------------------------------------------------------------------
(* Properties *)

TypeOK == /\ \A f \in File : file[f].ref \in 0..(NPROC * NOFILE)
          /\ \A pp \in DOMAIN pipe : Len(pipe[pp]) \in 0..PIPESIZE
          /\ \A p \in Pid : proc[p].state \in {"unused", "run", "zombie"}

\* No check of a test, and of a program that checks what it does, ever fails,
\* whatever the order in which the processes run.
NeverComplains == oops = {}

\* Names that directories have for an inode, and directories that have it as their parent.
Names(i) == {x \in Ino \X (1..20) : /\ inode[x[1]].type = "dir" /\ x[2] \in 3..Len(inode[x[1]].data)
                                     /\ inode[x[1]].data[x[2]][2] = i}
Below(i) == {j \in Ino \ {ROOTINO} : inode[j].type = "dir" /\ inode[j].nlink > 0 /\ inode[j].data[2][2] = i}

\* Link counts are the names there are; a name leads to an inode that is not
\* free, a directory has one name only, and what has no name is in use.
TreeWhole == \A i \in Ino :
    /\ inode[i].type = "free" => Names(i) = {}
    /\ inode[i].type \in {"file", "dev"} => inode[i].nlink = Cardinality(Names(i))
    /\ inode[i].type = "dir" => inode[i].nlink = Cardinality(Below(i)) + (IF i = ROOTINO THEN 1 ELSE Cardinality(Names(i)))
                                /\ Cardinality(Names(i)) <= 1
    /\ inode[i].type # "free" => inode[i].nlink > 0 \/ Used(i, file, proc)

\* The lines are done and only init and the shell are left.
AtPrompt(p) == proc[p].state = "run" /\ proc[p].code # <<>> /\ Ins(p).op = "getcmd"
Idle == input = <<>> /\ \A p \in Pid : p = INIT \/ proc[p].state = "unused" \/ (proc[p].parent = INIT /\ AtPrompt(p))

\* Every program of a session ends, and all its processes, orphans included,
\* are collected: no one waits for ever for a pipe, a child or a parent.
AllEnd == <>[]Idle

\* When they are gone nothing of theirs is left: the only open file is the
\* console of init and the shell, and no inode is without a name.
NothingHeld == Idle => /\ \A f \in File : file[f].ref > 0 => inode[file[f].ip].type = "dev" /\ file[f].ref = 6
                       /\ \A i \in Ino : inode[i].type # "free" => inode[i].nlink > 0

\* The screen and the files are what m says.
Shows(m) == /\ screen = m.out
            /\ \A path \in DOMAIN m.fs : inode[namei(INIT, path)].data = m.fs[path]

\* What a session of plain commands prints and leaves in files is what its
\* commands mean one by one, whatever the order in which the processes of a
\* pipeline run and however often they wait for each other.
ShellMeans == Idle /\ Plain(session) => Shows(Meanings(session, <<"README">> :> README))

\* Programs see what the system calls promise: no test of usertests complains,
\* and a line of the shell means what its commands mean.
ResultsRight == NeverComplains /\ ShellMeans

\* The tree of files is whole at every moment, and nothing is left behind.
SystemWhole == TypeOK /\ TreeWhole /\ NothingHeld
=============================================================================
