------------------------------- MODULE Files --------------------------------
(***************************************************************************)
(* What is inside a file: the block bitmap, the direct and indirect block  *)
(* addresses of an inode and the bytes behind them (fs.c), reached through *)
(* the file table and the descriptors of processes (file.c, sysfile.c).    *)
(* A write goes in chunks, each a transaction under the lock of the inode; *)
(* the allocation, the zeroing and the filling of a block are steps of     *)
(* their own, because another process may work on another inode between    *)
(* them.  Names are left to Inode, the commit protocol to Log: here an     *)
(* inode is opened directly and a commit only empties the log.             *)
(***************************************************************************)
EXTENDS Integers, Sequences, FiniteSets, FiniteSetsExt, Functions

CONSTANTS Proc, First,       \* processes, and the one that runs at the start
          Ino,
          NBLOCK,            \* data blocks of the disk
          NDIRECT, BSIZE,    \* an indirect block holds BSIZE addresses
          NINDIRECT,
          NFILE, NOFILE,
          MAXOPBLOCKS, LOGSIZE, NLOG,
          Sizes,             \* lengths of writes
          MaxWrites, MaxOps  \* bounds on writes, and on other calls

\* filewrite() has nothing to do for 0 bytes, and its chunks are not empty.
ASSUME FilesAssumption == /\ IsFiniteSet(Proc) /\ First \in Proc
                          /\ NBLOCK \in Nat /\ NDIRECT \in Nat /\ BSIZE \in Nat \ {0}
                          /\ NINDIRECT \in 1..BSIZE
                          /\ NFILE \in Nat /\ NOFILE \in Nat /\ Sizes \subseteq Nat \ {0}
                          /\ MAXOPBLOCKS \in Nat /\ LOGSIZE \in Nat /\ LOGSIZE >= 6 /\ NLOG \in Nat

VARIABLES bitmap,    \* blocks marked in use
          data,      \* contents of the blocks: bytes, or addresses in an indirect one
          inode,     \* [used, nlink, size, addrs, busy] of each inode
          file,      \* ftable: [ref, ip, off]
          ofile,     \* descriptors of each process; 0 is none
          alive,
          job,       \* the call each process is in
          outstanding, logged,  \* log.outstanding, log.lh.block
          panicked,
          writes, ops,  \* history: calls so far
          mine,      \* history: blocks logged by each process in its transaction
          over,      \* history: some transaction since the last commit logged too many
          abs,       \* history: the bytes each file should have
          plain      \* history: bytes written to a file opened once, -1 for another

vars == <<bitmap, data, inode, file, ofile, alive, job, outstanding, logged, panicked,
          writes, ops, mine, over, abs, plain>>
fsVars == <<bitmap, data, inode>>
logVars == <<outstanding, logged, mine, over>>
tableVars == <<file, ofile, alive>>

Block == 1..NBLOCK
File == 1..NFILE
Fd == 0..(NOFILE - 1)
MAXFILE == NDIRECT + NINDIRECT
NoBytes == [k \in 0..(BSIZE - 1) |-> 0]
NoInode == [used |-> FALSE, nlink |-> 0, size |-> 0, addrs |-> [n \in 0..NDIRECT |-> 0], busy |-> FALSE]
NoJob == [pc |-> "user", f |-> 0, i |-> 0, left |-> 0, n1 |-> 0, tot |-> 0, b |-> 0, slot |-> "none"]

Init == /\ bitmap = {} /\ data = [b \in Block |-> NoBytes]
        /\ inode = [i \in Ino |-> NoInode]
        /\ file = [f \in File |-> [ref |-> 0, ip |-> 0, off |-> 0]]
        /\ ofile = [p \in Proc |-> [fd \in Fd |-> 0]]
        /\ alive \in {a \in SUBSET Proc : First \in a} /\ job = [p \in Proc |-> NoJob]
        /\ outstanding = 0 /\ logged = {} /\ panicked = "no"
        /\ writes = 0 /\ ops = 0 /\ mine = [p \in Proc |-> {}] /\ over = FALSE
        /\ abs = [i \in Ino |-> <<>>] /\ plain = [i \in Ino |-> 0]

CanCall(p) == p \in alive /\ job[p].pc = "user" /\ panicked = "no"
At(p, label) == job[p].pc = label /\ panicked = "no"
Go(p, label) == job' = [job EXCEPT ![p].pc = label]
Counted == ops < MaxOps /\ ops' = ops + 1

-----------------------------------------------------------------------------
(* The log, as far as the calls of this module see it *)

BITMAP == -1
INODES == -2
NAMES == -3

\* begin_op() lets a transaction in while its reservation fits.
MayBegin == Cardinality(logged) + (outstanding + 1) * MAXOPBLOCKS <= LOGSIZE
begin_op(p) == MayBegin /\ outstanding' = outstanding + 1 /\ mine' = [mine EXCEPT ![p] = {}] /\ UNCHANGED <<logged, over>>

\* Mutant of end_op: the transaction stays outstanding.
end_opStays(p) == UNCHANGED logVars

\* The last end_op() commits.
end_op(p) == /\ outstanding' = outstanding - 1
             /\ logged' = IF outstanding = 1 THEN {} ELSE logged
             /\ over' = (over /\ outstanding > 1) /\ mine' = [mine EXCEPT ![p] = {}]

\* log_write() of several blocks in a row; a full log panics, even for a block
\* that it holds already.
Full(bs) == \E k \in DOMAIN bs : Cardinality(logged \cup {bs[m] : m \in 1..(k - 1)}) >= Min({LOGSIZE, NLOG - 1})
log_write(p, bs) ==
    /\ logged' = logged \cup Range(bs) /\ mine' = [mine EXCEPT ![p] = @ \cup Range(bs)]
    /\ over' = (over \/ Cardinality(mine[p] \cup Range(bs)) > MAXOPBLOCKS)
    /\ panicked' = IF Full(bs) THEN "log" ELSE "no"
    /\ UNCHANGED outstanding

\* A whole transaction of these blocks: it commits unless others are outstanding.
Transaction(bs) ==
    /\ MayBegin
    /\ panicked' = IF Full(bs) THEN "log" ELSE "no"
    /\ IF outstanding = 0 /\ ~Full(bs) THEN logged' = {} /\ over' = FALSE
       ELSE logged' = logged \cup Range(bs) /\ over' = (over \/ Cardinality(Range(bs)) > MAXOPBLOCKS)
    /\ UNCHANGED <<outstanding, mine>>

-----------------------------------------------------------------------------
(* Descriptors *)

FreeFiles == {f \in File : file[f].ref = 0}
FreeFds(p) == {fd \in Fd : ofile[p][fd] = 0}
Using(i) == {f \in File : file[f].ref > 0 /\ file[f].ip = i}

\* fdalloc() of the first free descriptor.
fdalloc(p, f) == ofile' = [ofile EXCEPT ![p][Min(FreeFds(p))] = f]

\* sys_open() of an existing inode, or of one create() makes, which logs it and
\* its name; the open fails when the file table or the descriptors are used up.
Open(p, i, create) ==
    /\ CanCall(p) /\ Counted /\ MayBegin /\ ~inode[i].busy
    /\ IF create THEN ~inode[i].used ELSE inode[i].nlink > 0
    /\ inode' = IF create THEN [inode EXCEPT ![i] = [NoInode EXCEPT !.used = TRUE, !.nlink = 1]] ELSE inode
    /\ IF FreeFiles # {} /\ FreeFds(p) # {}
       THEN /\ fdalloc(p, Min(FreeFiles))
            /\ file' = [file EXCEPT ![Min(FreeFiles)] = [ref |-> 1, ip |-> i, off |-> 0]]
            /\ plain' = [plain EXCEPT ![i] = IF create THEN 0 ELSE -1]
       ELSE UNCHANGED <<ofile, file, plain>>
    /\ IF create THEN Transaction(<<INODES, NAMES>>) ELSE UNCHANGED <<logVars, panicked>>
    /\ UNCHANGED <<bitmap, data, alive, job, writes, abs>>

Dup(p, fd) == /\ CanCall(p) /\ Counted /\ ofile[p][fd] # 0 /\ FreeFds(p) # {}
              /\ fdalloc(p, ofile[p][fd])
              /\ file' = [file EXCEPT ![ofile[p][fd]].ref = @ + 1]
              /\ UNCHANGED <<fsVars, alive, job, logVars, panicked, writes, abs, plain>>

\* Mutant of DupAll: the descriptors are copied, the references are not counted.
DupAllUncounted(p) == file

\* filedup() of every descriptor.
DupAll(p) == [f \in File |-> [file[f] EXCEPT !.ref = @ + Cardinality({fd \in Fd : ofile[p][fd] = f})]]

Fork(p, q) == /\ CanCall(p) /\ Counted /\ q \notin alive
              /\ alive' = alive \cup {q} /\ ofile' = [ofile EXCEPT ![q] = ofile[p]]
              /\ file' = DupAll(p)
              /\ UNCHANGED <<fsVars, job, logVars, panicked, writes, abs, plain>>

\* sys_close() and fileclose(): the last reference to an open file takes its
\* inode along, in a transaction.
Close(p, fd) ==
    LET f == ofile[p][fd]
    IN  /\ CanCall(p) /\ f # 0
        /\ ofile' = [ofile EXCEPT ![p][fd] = 0]
        /\ file' = [file EXCEPT ![f].ref = @ - 1]
        /\ job' = IF file[f].ref > 1 THEN job
                  ELSE [job EXCEPT ![p].pc = "put_begin", ![p].i = file[f].ip]
        /\ UNCHANGED <<fsVars, alive, logVars, panicked, writes, ops, abs, plain>>

PutBegin(p) == /\ At(p, "put_begin") /\ begin_op(p) /\ Go(p, "put")
               /\ UNCHANGED <<fsVars, tableVars, panicked, writes, ops, abs, plain>>

\* iput(): the last reference to an inode that has no name frees it.
Refs(i) == Cardinality(Using(i)) + Cardinality({q \in Proc : job[q].pc \in {"put_begin", "put", "unlink"} /\ job[q].i = i})
Put(p) == /\ At(p, "put")
          /\ LET i == job[p].i
             IN  IF Refs(i) = 1 /\ inode[i].nlink = 0
                 THEN /\ job' = [job EXCEPT ![p].pc = "trunc", ![p].tot = 0]
                      /\ inode' = [inode EXCEPT ![i].busy = TRUE] /\ UNCHANGED logVars
                 ELSE end_op(p) /\ job' = [job EXCEPT ![p] = NoJob] /\ UNCHANGED inode
          /\ UNCHANGED <<bitmap, data, tableVars, panicked, writes, ops, abs, plain>>

\* exit() once the descriptors are closed.
Exit(p) == /\ CanCall(p) /\ p # First /\ FreeFds(p) = Fd /\ alive' = alive \ {p}
           /\ UNCHANGED <<fsVars, file, ofile, job, logVars, panicked, writes, ops, abs, plain>>

\* sys_unlink() of the only name: the directory, locked meanwhile, lets one
\* process find it.  The inode is locked to take the name off it, and put.
Unlink(p, i) == /\ CanCall(p) /\ Counted /\ inode[i].nlink = 1 /\ begin_op(p)
                /\ \A q \in Proc : ~(job[q].pc = "unlink" /\ job[q].i = i)
                /\ job' = [job EXCEPT ![p].pc = "unlink", ![p].i = i]
                /\ UNCHANGED <<fsVars, tableVars, panicked, writes, abs, plain>>
Unlinked(p) == /\ At(p, "unlink") /\ ~inode[job[p].i].busy
               /\ inode' = [inode EXCEPT ![job[p].i].nlink = 0]
               /\ log_write(p, <<NAMES, INODES>>) /\ Go(p, "put")
               /\ UNCHANGED <<bitmap, data, tableVars, writes, ops, abs, plain>>

-----------------------------------------------------------------------------
(* Block addresses *)

\* Blocks that can hold the address of block n of a file, and that address.
Indirect(i) == inode[i].addrs[NDIRECT]
Addr(i, n) == IF n < NDIRECT THEN inode[i].addrs[n]
              ELSE IF Indirect(i) = 0 THEN 0 ELSE data[Indirect(i)][n - NDIRECT]

\* What bmap() has to allocate for block n: a block, or first the indirect one.
Slot(i, n) == IF n >= NDIRECT /\ Indirect(i) = 0 THEN "indirect" ELSE "block"

\* Mutant of balloc: the block is taken but the bitmap not written.
ballocUnmarked(b) == bitmap' = bitmap
balloc(b) == bitmap' = bitmap \cup {b}

\* Mutant of bzero: the new block keeps its old bytes.
bzeroNot(b) == data[b]
bzero(b) == NoBytes

\* The new block b is entered where bmap() looked for it.
Enter(i, n, slot, b, zeroed) ==
    IF slot = "block" /\ n >= NDIRECT
    THEN /\ data' = [data EXCEPT ![b] = zeroed, ![Indirect(i)][n - NDIRECT] = b] /\ UNCHANGED inode
    ELSE /\ data' = [data EXCEPT ![b] = zeroed]
         /\ inode' = [inode EXCEPT ![i].addrs[IF slot = "indirect" THEN NDIRECT ELSE n] = b]

-----------------------------------------------------------------------------
(* filewrite() and writei() *)

\* Bytes of a chunk.
MAXCHUNK == ((LOGSIZE - 1 - 1 - 2) \div 2) * BSIZE

Write(p, fd, n) == /\ CanCall(p) /\ ofile[p][fd] # 0 /\ writes < MaxWrites /\ writes' = writes + 1
                   /\ job' = [job EXCEPT ![p] = [NoJob EXCEPT !.pc = "begin", !.f = ofile[p][fd],
                                                 !.i = file[ofile[p][fd]].ip, !.left = n]]
                   /\ UNCHANGED <<fsVars, tableVars, logVars, panicked, ops, abs, plain>>

\* begin_op() for the next chunk, then ilock(); a chunk that would make the
\* file too long ends the call with an error.
WriteBegin(p) == /\ At(p, "begin") /\ begin_op(p) /\ Go(p, "lock")
                 /\ UNCHANGED <<fsVars, tableVars, panicked, writes, ops, abs, plain>>
WriteLock(p) ==
    /\ At(p, "lock") /\ ~inode[job[p].i].busy
    /\ LET j == job[p]
           n1 == Min({j.left, MAXCHUNK})
       IN  IF file[j.f].off + n1 > MAXFILE * BSIZE
           THEN Go(p, "fail") /\ UNCHANGED inode
           ELSE /\ job' = [job EXCEPT ![p].pc = "map", ![p].n1 = n1, ![p].tot = 0]
                /\ inode' = [inode EXCEPT ![j.i].busy = TRUE]
    /\ UNCHANGED <<bitmap, data, tableVars, logVars, panicked, writes, ops, abs, plain>>
WriteFail(p) == /\ At(p, "fail") /\ end_op(p) /\ job' = [job EXCEPT ![p] = NoJob]
                /\ UNCHANGED <<fsVars, tableVars, panicked, writes, ops, abs, plain>>

Off(j) == file[j.f].off + j.tot

\* bmap(): the address is there, or the first free block is taken for it.
WriteMap(p) ==
    /\ At(p, "map")
    /\ LET j == job[p]
           n == Off(j) \div BSIZE
           free == Block \ bitmap
       IN  CASE Addr(j.i, n) # 0 -> /\ job' = [job EXCEPT ![p].pc = "copy", ![p].b = Addr(j.i, n)]
                                    /\ UNCHANGED <<bitmap, logVars, panicked>>
             [] Addr(j.i, n) = 0 /\ free = {} -> /\ panicked' = "blocks"
                                                 /\ UNCHANGED <<bitmap, job, logVars>>
             [] OTHER -> /\ balloc(Min(free)) /\ log_write(p, <<BITMAP>>)
                         /\ job' = [job EXCEPT ![p].pc = "zero", ![p].b = Min(free), ![p].slot = Slot(j.i, n)]
    /\ UNCHANGED <<data, inode, tableVars, writes, ops, abs, plain>>

\* bzero(), and the address is stored; then bmap() is looked at again.
WriteZero(p) ==
    /\ At(p, "zero")
    /\ LET j == job[p]
           n == Off(j) \div BSIZE
       IN  /\ Enter(j.i, n, j.slot, j.b, bzero(j.b))
           /\ log_write(p, <<j.b>> \o (IF j.slot = "block" /\ n >= NDIRECT THEN <<Indirect(j.i)>> ELSE <<>>))
    /\ job' = [job EXCEPT ![p].pc = "map", ![p].b = 0]
    /\ UNCHANGED <<bitmap, tableVars, writes, ops, abs, plain>>

\* memmove() into one block; what is written are the marks of the writer.
Mark == CHOOSE m \in [Proc -> 1..Cardinality(Proc)] : \A p, q \in Proc : m[p] = m[q] => p = q
WriteCopy(p) ==
    /\ At(p, "copy")
    /\ LET j == job[p]
           from == Off(j) % BSIZE
           m == Min({j.n1 - j.tot, BSIZE - from})
       IN  /\ data' = [data EXCEPT ![j.b] = [k \in DOMAIN @ |-> IF k \in from..(from + m - 1) THEN Mark[p] ELSE @[k]]]
           /\ log_write(p, <<j.b>>)
           /\ job' = [job EXCEPT ![p].pc = IF j.tot + m = j.n1 THEN "size" ELSE "map", ![p].tot = @ + m, ![p].b = 0]
    /\ UNCHANGED <<bitmap, inode, tableVars, writes, ops, abs, plain>>

\* Mutant of Advance: f->off is not moved on.
AdvanceNot(j) == file

\* f->off += r, under the lock of the inode.
Advance(j) == [file EXCEPT ![j.f].off = @ + j.n1]

\* The end of writei() and of the chunk.
WriteSize(p) ==
    /\ At(p, "size")
    /\ LET j == job[p]
           end == file[j.f].off + j.n1
       IN  /\ inode' = [inode EXCEPT ![j.i].size = Max({@, end})]
           /\ file' = Advance(j)
           /\ abs' = [abs EXCEPT ![j.i] =
                [k \in 1..Max({Len(@), end}) |-> IF k > end - j.n1 /\ k <= end THEN Mark[p] ELSE @[k]]]
           /\ plain' = [plain EXCEPT ![j.i] = IF @ < 0 THEN @ ELSE @ + j.n1]
           /\ IF end > inode[j.i].size THEN log_write(p, <<INODES>>) ELSE UNCHANGED <<logVars, panicked>>
    /\ Go(p, "unlock")
    /\ UNCHANGED <<bitmap, data, ofile, alive, writes, ops>>
WriteUnlock(p) ==
    /\ At(p, "unlock") /\ end_op(p)
    /\ inode' = [inode EXCEPT ![job[p].i].busy = FALSE]
    /\ job' = [job EXCEPT ![p] = IF @.left > @.n1 THEN [@ EXCEPT !.pc = "begin", !.left = job[p].left - job[p].n1]
                                 ELSE NoJob]
    /\ UNCHANGED <<bitmap, data, tableVars, panicked, writes, ops, abs, plain>>

\* fileread(): up to n bytes from the shared offset on.
Read(p, fd, n) ==
    LET f == ofile[p][fd]
        i == file[f].ip
        got == Min({n, inode[i].size - file[f].off})
    IN  /\ CanCall(p) /\ Counted /\ f # 0 /\ ~inode[i].busy /\ got > 0
        /\ file' = [file EXCEPT ![f].off = @ + got]
        /\ plain' = [plain EXCEPT ![i] = -1]
        /\ UNCHANGED <<fsVars, ofile, alive, job, logVars, panicked, writes, abs>>

-----------------------------------------------------------------------------
(* itrunc() *)

\* Mutant of Victim: the indirect block goes before the blocks it lists.
VictimIndirectFirst(i, j) ==
    LET direct == {n \in 0..(NDIRECT - 1) : inode[i].addrs[n] # 0}
    IN  IF direct # {} THEN <<"direct", Min(direct)>>
        ELSE IF Indirect(i) = 0 THEN <<"none", 0>> ELSE <<"indirect", 0>>

\* What itrunc() frees next, j entries of the indirect block being done.
Victim(i, j) ==
    LET direct == {n \in 0..(NDIRECT - 1) : inode[i].addrs[n] # 0}
        entries == {k \in j..(NINDIRECT - 1) : data[Indirect(i)][k] # 0}
    IN  IF direct # {} THEN <<"direct", Min(direct)>>
        ELSE IF Indirect(i) = 0 THEN <<"none", 0>>
        ELSE IF entries # {} THEN <<"entry", Min(entries)>> ELSE <<"indirect", 0>>

\* bfree(): a block that is free already panics.
bfree(p, b) == /\ bitmap' = bitmap \ {b}
               /\ IF b \notin bitmap THEN panicked' = "free" /\ UNCHANGED logVars
                                     ELSE log_write(p, <<BITMAP>>)

TruncFree(p) ==
    /\ At(p, "trunc")
    /\ LET i == job[p].i
           v == Victim(i, job[p].tot)
       IN  \/ /\ v[1] = "direct" /\ bfree(p, inode[i].addrs[v[2]])
              /\ inode' = [inode EXCEPT ![i].addrs[v[2]] = 0] /\ UNCHANGED job
           \/ /\ v[1] = "entry" /\ bfree(p, data[Indirect(i)][v[2]])
              /\ job' = [job EXCEPT ![p].tot = v[2] + 1] /\ UNCHANGED inode
           \/ /\ v[1] = "indirect" /\ bfree(p, Indirect(i))
              /\ inode' = [inode EXCEPT ![i].addrs[NDIRECT] = 0] /\ UNCHANGED job
           \/ /\ v[1] = "none" /\ log_write(p, <<INODES>>) /\ Go(p, "trunc_end") /\ UNCHANGED <<bitmap, inode>>
    /\ UNCHANGED <<data, tableVars, writes, ops, abs, plain>>

\* The inode is free.
TruncEnd(p) == /\ At(p, "trunc_end") /\ end_op(p)
               /\ inode' = [inode EXCEPT ![job[p].i] = NoInode]
               /\ abs' = [abs EXCEPT ![job[p].i] = <<>>]
               /\ plain' = [plain EXCEPT ![job[p].i] = 0]
               /\ job' = [job EXCEPT ![p] = NoJob]
               /\ UNCHANGED <<bitmap, data, tableVars, panicked, writes, ops>>

-----------------------------------------------------------------------------

Step(p) == \/ PutBegin(p) \/ Put(p) \/ Unlinked(p) \/ WriteBegin(p) \/ WriteLock(p) \/ WriteFail(p) \/ WriteMap(p) \/ WriteZero(p) \/ WriteCopy(p)
           \/ WriteSize(p) \/ WriteUnlock(p) \/ TruncFree(p) \/ TruncEnd(p)

Next == \E p \in Proc :
          \/ Step(p) \/ Exit(p)
          \/ \E i \in Ino : Unlink(p, i) \/ \E create \in BOOLEAN : Open(p, i, create)
          \/ \E fd \in Fd : \/ Dup(p, fd) \/ Close(p, fd)
                            \/ \E n \in Sizes : Write(p, fd, n) \/ Read(p, fd, n)
          \/ \E q \in Proc : Fork(p, q)

Spec == Init /\ [][Next]_vars

\* A process inside a call goes on.  It may have to wait for an inode or for room
\* in the log, and find it taken again: sleep() is woken as often as it is freed.
LiveSpec == Spec /\ \A p \in Proc : SF_vars(Step(p))

-----------------------------------------------------------------------------
(* Properties *)

TypeOK == /\ bitmap \subseteq Block /\ panicked \in {"no", "log", "blocks", "free"}
          /\ \A i \in Ino : inode[i].size \in 0..(MAXFILE * BSIZE)
          /\ \A f \in File : file[f].ref \in 0..(NOFILE * Cardinality(Proc))
          /\ outstanding = Cardinality({p \in Proc : job[p].pc \notin {"user", "begin", "put_begin"}})

\* Entries of the indirect block of i that itrunc() has not come to.
Entries(i) == {k \in 0..(NINDIRECT - 1) : \A p \in Proc : job[p].pc = "trunc" /\ job[p].i = i => job[p].tot <= k}

\* The places that hold the address of a block: of each inode, of its indirect
\* block, and of a process between balloc() and the end of bmap().
Places ==
    {pl \in UNION {{<<i, n, inode[i].addrs[n]>> : n \in 0..NDIRECT} : i \in Ino} : pl[3] # 0}
    \cup {pl \in UNION {{<<i, NDIRECT + 1 + k, data[Indirect(i)][k]>> : k \in Entries(i)}
                         : i \in {x \in Ino : Indirect(x) # 0}} : pl[3] # 0}
    \cup {<<p, -1, job[p].b>> : p \in {q \in Proc : job[q].pc = "zero"}}

\* Every block the bitmap marks has exactly one owner and every owned block is
\* marked: no two files share a block, none is leaked, whatever writes and
\* truncations of different files run together.
OneOwner == panicked = "no" =>
              /\ \A x, y \in Places : x[3] = y[3] => x = y
              /\ {x[3] : x \in Places} = bitmap

\* Through its addresses an unlocked file has the bytes that were written to it,
\* and as many as its size says.
Contents == \A i \in Ino : panicked = "no" /\ ~inode[i].busy =>
              /\ Len(abs[i]) = inode[i].size
              /\ \A k \in 1..inode[i].size :
                    /\ Addr(i, (k - 1) \div BSIZE) # 0
                    /\ data[Addr(i, (k - 1) \div BSIZE)][(k - 1) % BSIZE] = abs[i][k]

\* f->ref counts the descriptors that lead to the file, over all processes, and
\* an inode in use by an open file is not free.
RefsExact == \A f \in File :
               /\ file[f].ref = Cardinality({x \in Proc \X Fd : ofile[x[1]][x[2]] = f})
               /\ file[f].ref > 0 => inode[file[f].ip].used

\* Writes through one shared open file, by parent and child, follow each other:
\* none lands on the bytes of another.
WritesFollow == \A i \in Ino : panicked = "no" /\ inode[i].used /\ ~inode[i].busy /\ plain[i] >= 0
                                => inode[i].size = plain[i]

\* bfree() never meets a free block, and the disk is full when balloc() panics.
\* What is logged stays within what begin_op() reserved, unless some transaction
\* logged more than its share; log_write() panics only then, or in a log that is
\* exactly full, or that mkfs made smaller than LOGSIZE and its header.
PanicsExplained == /\ panicked # "free"
                   /\ panicked = "blocks" => bitmap = Block
                   /\ ~over => Cardinality(logged) <= LOGSIZE
                   /\ panicked = "log" => over \/ Cardinality(logged) = LOGSIZE \/ NLOG <= LOGSIZE

\* A write, and a close or unlink that frees a file, comes to an end.
CallsEnd == \A p \in Proc : job[p].pc # "user" ~> (job[p].pc = "user" \/ panicked # "no")

\* No transaction logs more blocks than the log holds: filewrite() cuts a write
\* into chunks for that.
LogNeverFull == panicked # "log"

\* Blocks and files are accounted for: the bitmap against the addresses of all
\* files, the reference counts against all descriptors, and a panic against
\* what has run out.
AccountsInv == TypeOK /\ OneOwner /\ RefsExact /\ PanicsExplained

\* A file reads back as what was written to it, through the block lists, by
\* whoever shares it, though filewrite() lets others in between two chunks.
FilesHold == Contents /\ WritesFollow
=============================================================================
