-------------------------------- MODULE Log ---------------------------------
(***************************************************************************)
(* The write-ahead log (log.c): concurrent file-system calls bracketed by  *)
(* begin_op()/end_op(), log_write() with its unlocked capacity check and   *)
(* its locked append, the commit by the last end_op(), power failure       *)
(* between any two disk writes, and the recovery at boot.                  *)
(*                                                                         *)
(* One disk write (a 512-byte sector) is atomic.  Every code section under *)
(* log.lock is one action.  Blocks are the home blocks of the file system, *)
(* the log area is "hdr" (the header block) and "logdata" (its data        *)
(* blocks).                                                                *)
(***************************************************************************)
EXTENDS Integers, Sequences, FiniteSets

CONSTANTS Proc,         \* processes that make file-system calls
          Blocks,       \* home block numbers
          Val,          \* block contents
          Zero,         \* what mkfs writes everywhere
          NoBuf,        \* "holds no buffer"
          MAXOPBLOCKS,  \* param.h:10
          LOGSIZE,      \* param.h:11
          NLOG,         \* sb.nlog: blocks of the on-disk log, header included
          InodeStart    \* sb.inodestart: the block right after the log

\* The capacity that log_write() tests for.
Room == IF LOGSIZE < NLOG - 1 THEN LOGSIZE ELSE NLOG - 1

\* The most entries that lh can get: the last one that passed the test alone,
\* and all the calls that begin_op() lets in beside it.
MaxLogged == Room - 1 + LOGSIZE \div MAXOPBLOCKS

ASSUME ProcAssumption == IsFiniteSet(Proc)
ASSUME ValAssumption == Zero \in Val
ASSUME BlockAssumption == /\ InodeStart \in Nat
                          /\ \A i \in NLOG .. MaxLogged :
                                InodeStart + (i - NLOG) \in Blocks
                          /\ NoBuf \notin Blocks
ASSUME SizeAssumption == /\ MAXOPBLOCKS \in Nat \ {0}
                         /\ LOGSIZE \in Nat
                         /\ MAXOPBLOCKS <= LOGSIZE
                         /\ NLOG \in Nat
                         /\ NLOG >= LOGSIZE

VARIABLES
    lh,           \* log.lh: the block numbers logged so far
    outstanding,  \* log.outstanding
    committing,   \* log.committing
    tail,         \* entries handled by the running write_log/install_trans
    boot,         \* progress of initlog(); "up" once it returned
    pc,           \* where each process is
    buf,          \* the B_BUSY buffer a process is about to log
    left,         \* blocks a process may still add within MAXOPBLOCKS
    exceeded,     \* history: a call of this transaction added more than those
    overrun,      \* history: lh has been longer than the log area
    cache,        \* contents bread() returns
    dirty,        \* blocks whose buffer has B_DIRTY
    disk,         \* home blocks on disk
    hdr,          \* the header block on disk
    logdata       \* the data blocks of the log on disk

history  == <<exceeded, overrun>>
memVars  == <<lh, outstanding, committing, boot, tail, pc, buf, left, history>>
diskVars == <<disk, hdr, logdata>>
vars == <<memVars, cache, dirty, diskVars>>

Phase == {"idle", "begin", "sleep", "op", "append", "commit", "write_log",
          "write_head", "install", "clear", "done", "panic"}
BootPhase == {"read_head", "install", "clear", "up"}

\* The log's data blocks are log.start+1 .. log.start+size-1.
Slots == 1..(NLOG - 1)

Entries(s) == {s[i] : i \in 1..Len(s)}

\* Processes between begin_op() and the decrement in end_op().
InOp == {p \in Proc : pc[p] \in {"op", "append", "panic"}}

Committer == {p \in Proc : pc[p] \in {"commit", "write_log", "write_head",
                                      "install", "clear", "done"}}

Init == /\ lh = <<>>
        /\ outstanding = 0
        /\ committing = FALSE
        /\ tail = 0
        /\ boot = "read_head"
        /\ pc = [p \in Proc |-> "idle"]
        /\ buf = [p \in Proc |-> NoBuf]
        /\ left = [p \in Proc |-> 0]
        /\ exceeded = FALSE
        /\ overrun = FALSE
        /\ cache = [b \in Blocks |-> Zero]
        /\ dirty = {}
        /\ disk = [b \in Blocks |-> Zero]
        /\ hdr = <<>>
        /\ logdata = [i \in Slots |-> Zero]

-----------------------------------------------------------------------------
(* Disk writes shared by commit and recovery. *)

\* bwrite() of a home block: contents on disk, buffer clean.
WriteHome(b, v) == /\ cache' = [cache EXCEPT ![b] = v]
                   /\ disk' = [disk EXCEPT ![b] = v]
                   /\ dirty' = dirty \ {b}

\* The block log.start+i when it lies behind the log: the log is followed by
\* the inode blocks.
Behind(i) == InodeStart + (i - NLOG)

\* What bread(log.start+i) returns.
LogBlock(i) == IF i \in Slots THEN logdata[i] ELSE cache[Behind(i)]

\* bread() of a log block and then of home block lh[i], both held B_BUSY:
\* behind the log they may be the same buffer, and the process waits in
\* bget() for itself.
DistinctBuffers(i) == i \in Slots \/ lh[i] # Behind(i)

\* Mutant of InstallBlock: the loop counter is not advanced.
InstallBlockNoAdvance == /\ tail < Len(lh)
                         /\ DistinctBuffers(tail + 1)
                         /\ WriteHome(lh[tail + 1], LogBlock(tail + 1))
                         /\ UNCHANGED <<tail, hdr, logdata>>

\* One round of install_trans(): copy log block tail+1 to its home.
InstallBlock == /\ tail < Len(lh)
                /\ DistinctBuffers(tail + 1)
                /\ WriteHome(lh[tail + 1], LogBlock(tail + 1))
                /\ tail' = tail + 1
                /\ UNCHANGED <<hdr, logdata>>

\* write_head() writes the first n entries of the in-memory header.
WriteHead == hdr' = lh

-----------------------------------------------------------------------------
(* initlog(), run by the first process before any file-system call. *)

ReadHead == /\ boot = "read_head"
            /\ lh' = hdr
            /\ tail' = 0
            /\ boot' = "install"
            /\ UNCHANGED <<outstanding, committing, pc, buf, left, history,
                           cache, dirty, diskVars>>

RecoverInstall == /\ boot = "install"
                  /\ InstallBlock
                  /\ UNCHANGED <<lh, outstanding, committing, boot, pc, buf,
                                 left, history>>

\* log.lh.n = 0, with the header still to be written.
RecoverReset == /\ boot = "install"
                /\ tail = Len(lh)
                /\ lh' = <<>>
                /\ boot' = "clear"
                /\ UNCHANGED <<outstanding, committing, tail, pc, buf, left,
                               history, cache, dirty, diskVars>>

RecoverClear == /\ boot = "clear"
                /\ WriteHead
                /\ boot' = "up"
                /\ UNCHANGED <<lh, outstanding, committing, tail, pc, buf,
                               left, history, cache, dirty, disk, logdata>>

Recover == ReadHead \/ RecoverInstall \/ RecoverReset \/ RecoverClear

-----------------------------------------------------------------------------
(* begin_op() *)

\* A system call that uses the file system starts.
CallBegin(p) == /\ boot = "up"
                /\ pc[p] = "idle"
                /\ pc' = [pc EXCEPT ![p] = "begin"]
                /\ UNCHANGED <<lh, outstanding, committing, boot, tail, buf,
                               left, history, cache, dirty, diskVars>>

\* log.lh.n + (log.outstanding+1)*MAXOPBLOCKS > LOGSIZE
LogFull == Len(lh) + (outstanding + 1) * MAXOPBLOCKS > LOGSIZE

\* Mutant of BeginOp: it does not wait for a commit in progress.
BeginOpDuringCommit(p) ==
    /\ pc[p] = "begin"
    /\ ~LogFull
    /\ outstanding' = outstanding + 1
    /\ pc' = [pc EXCEPT ![p] = "op"]
    /\ left' = [left EXCEPT ![p] = MAXOPBLOCKS]
    /\ UNCHANGED <<lh, committing, boot, tail, buf, history, cache, dirty,
                   diskVars>>

BeginOp(p) == /\ pc[p] = "begin"
              /\ ~committing
              /\ ~LogFull
              /\ outstanding' = outstanding + 1
              /\ pc' = [pc EXCEPT ![p] = "op"]
              /\ left' = [left EXCEPT ![p] = MAXOPBLOCKS]
              /\ UNCHANGED <<lh, committing, boot, tail, buf, history, cache,
                             dirty, diskVars>>

BeginSleep(p) == /\ pc[p] = "begin"
                 /\ committing \/ LogFull
                 /\ pc' = [pc EXCEPT ![p] = "sleep"]
                 /\ UNCHANGED <<lh, outstanding, committing, boot, tail, buf,
                                left, history, cache, dirty, diskVars>>

\* kill() makes a sleeping process runnable; begin_op() tests again.
Kill(p) == /\ pc[p] = "sleep"
           /\ pc' = [pc EXCEPT ![p] = "begin"]
           /\ UNCHANGED <<lh, outstanding, committing, boot, tail, buf, left,
                          history, cache, dirty, diskVars>>

\* The processes' phases after wakeup(&log).
Wakeup(phase) == [q \in Proc |-> IF phase[q] = "sleep" THEN "begin"
                                                        ELSE phase[q]]

-----------------------------------------------------------------------------
(* log_write() *)

Busy == {buf[q] : q \in Proc} \ {NoBuf}

\* The two checks that log_write() makes before it takes log.lock.
TooBig == Len(lh) >= LOGSIZE \/ Len(lh) >= NLOG - 1
OutsideTrans == outstanding < 1

\* The caller holds the buffer of b, has changed it to v, and enters
\* log_write().  Nothing there counts the blocks of one call: it may log more
\* than the MAXOPBLOCKS that begin_op() reserved for it.
LogWriteCheck(p, b, v) ==
    /\ pc[p] = "op"
    /\ b \notin Busy
    /\ cache' = [cache EXCEPT ![b] = v]
    /\ buf' = [buf EXCEPT ![p] = b]
    /\ pc' = [pc EXCEPT ![p] = IF TooBig \/ OutsideTrans THEN "panic"
                                                         ELSE "append"]
    /\ UNCHANGED <<lh, outstanding, committing, boot, tail, left, history,
                   dirty, diskVars>>

\* The block of p's buffer becomes the next entry, out of p's share while any
\* of it is left.
AddEntry(p) == /\ lh' = Append(lh, buf[p])
               /\ left' = [left EXCEPT ![p] = IF @ > 0 THEN @ - 1 ELSE 0]
               /\ exceeded' = (exceeded \/ left[p] = 0)
               /\ overrun' = (overrun \/ Len(lh') > NLOG - 1)

\* Mutant of LogWriteAppend: the buffer is not pinned with B_DIRTY.
LogWriteAppendClean(p) ==
    /\ pc[p] = "append"
    /\ IF buf[p] \in Entries(lh)
       THEN UNCHANGED <<lh, left, history>>
       ELSE AddEntry(p)
    /\ buf' = [buf EXCEPT ![p] = NoBuf]
    /\ pc' = [pc EXCEPT ![p] = "op"]
    /\ UNCHANGED <<outstanding, committing, boot, tail, cache, dirty, diskVars>>

\* The section under log.lock, and the caller's brelse().
LogWriteAppend(p) ==
    /\ pc[p] = "append"
    /\ IF buf[p] \in Entries(lh)
       THEN UNCHANGED <<lh, left, history>>
       ELSE AddEntry(p)
    /\ dirty' = dirty \cup {buf[p]}
    /\ buf' = [buf EXCEPT ![p] = NoBuf]
    /\ pc' = [pc EXCEPT ![p] = "op"]
    /\ UNCHANGED <<outstanding, committing, boot, tail, cache, diskVars>>

\* bget() recycles a buffer that is neither busy nor dirty; the next bread()
\* of the block fetches it from the disk again.
Recycle(b) == /\ b \notin Busy
              /\ b \notin dirty
              /\ cache' = [cache EXCEPT ![b] = disk[b]]
              /\ UNCHANGED <<memVars, dirty, diskVars>>

-----------------------------------------------------------------------------
(* end_op() and commit() *)

\* Mutant of EndOp: only the commit wakes the waiters.
EndOpNoWakeup(p) ==
    /\ pc[p] = "op"
    /\ outstanding' = outstanding - 1
    /\ left' = [left EXCEPT ![p] = 0]
    /\ IF outstanding' = 0
       THEN /\ committing' = TRUE
            /\ pc' = [pc EXCEPT ![p] = "commit"]
       ELSE /\ pc' = [pc EXCEPT ![p] = "idle"]
            /\ UNCHANGED committing
    /\ UNCHANGED <<lh, boot, tail, buf, history, cache, dirty, diskVars>>

EndOp(p) ==
    /\ pc[p] = "op"
    /\ outstanding' = outstanding - 1
    /\ left' = [left EXCEPT ![p] = 0]
    /\ IF committing
       THEN /\ pc' = [pc EXCEPT ![p] = "panic"]
            /\ UNCHANGED committing
       ELSE IF outstanding' = 0
       THEN /\ committing' = TRUE
            /\ pc' = [pc EXCEPT ![p] = "commit"]
       ELSE /\ pc' = Wakeup([pc EXCEPT ![p] = "idle"])
            /\ UNCHANGED committing
    /\ UNCHANGED <<lh, boot, tail, buf, history, cache, dirty, diskVars>>

\* Mutant of Commit: off by one in the test for an empty log.
CommitOffByOne(p) ==
    /\ pc[p] = "commit"
    /\ tail' = 0
    /\ pc' = [pc EXCEPT ![p] = IF Len(lh) > 1 THEN "write_log" ELSE "done"]
    /\ UNCHANGED <<lh, outstanding, committing, boot, buf, left, history,
                   cache, dirty, diskVars>>

\* commit() does nothing when nothing was logged.
Commit(p) == /\ pc[p] = "commit"
             /\ tail' = 0
             /\ pc' = [pc EXCEPT ![p] = IF Len(lh) > 0 THEN "write_log"
                                                       ELSE "done"]
             /\ UNCHANGED <<lh, outstanding, committing, boot, buf, left,
                            history, cache, dirty, diskVars>>

\* One round of write_log().  Log block tail+1 may lie behind the log.
WriteLogBlock(p) ==
    /\ pc[p] = "write_log"
    /\ tail < Len(lh)
    /\ DistinctBuffers(tail + 1)
    /\ LET v == cache[lh[tail + 1]]
       IN  IF tail + 1 \in Slots
           THEN /\ logdata' = [logdata EXCEPT ![tail + 1] = v]
                /\ UNCHANGED <<cache, disk, dirty>>
           ELSE /\ WriteHome(Behind(tail + 1), v)
                /\ UNCHANGED logdata
    /\ tail' = tail + 1
    /\ UNCHANGED <<lh, outstanding, committing, boot, pc, buf, left, history,
                   hdr>>

WriteLogEnd(p) ==
    /\ pc[p] = "write_log"
    /\ tail = Len(lh)
    /\ pc' = [pc EXCEPT ![p] = "write_head"]
    /\ UNCHANGED <<lh, outstanding, committing, boot, tail, buf, left,
                   history, cache, dirty, diskVars>>

\* The commit point.
CommitHead(p) ==
    /\ pc[p] = "write_head"
    /\ WriteHead
    /\ tail' = 0
    /\ pc' = [pc EXCEPT ![p] = "install"]
    /\ UNCHANGED <<lh, outstanding, committing, boot, buf, left, history,
                   cache, dirty, disk, logdata>>

CommitInstall(p) ==
    /\ pc[p] = "install"
    /\ InstallBlock
    /\ UNCHANGED <<lh, outstanding, committing, boot, pc, buf, left, history>>

CommitReset(p) ==
    /\ pc[p] = "install"
    /\ tail = Len(lh)
    /\ lh' = <<>>
    /\ exceeded' = FALSE
    /\ pc' = [pc EXCEPT ![p] = "clear"]
    /\ UNCHANGED <<outstanding, committing, boot, tail, buf, left, overrun,
                   cache, dirty, diskVars>>

CommitClear(p) ==
    /\ pc[p] = "clear"
    /\ WriteHead
    /\ pc' = [pc EXCEPT ![p] = "done"]
    /\ UNCHANGED <<lh, outstanding, committing, boot, tail, buf, left,
                   history, cache, dirty, disk, logdata>>

\* Mutant of CommitDone: the waiters are not woken after the commit.
CommitDoneNoWakeup(p) ==
    /\ pc[p] = "done"
    /\ committing' = FALSE
    /\ pc' = [pc EXCEPT ![p] = "idle"]
    /\ UNCHANGED <<lh, outstanding, boot, tail, buf, left, history, cache,
                   dirty, diskVars>>

CommitDone(p) ==
    /\ pc[p] = "done"
    /\ committing' = FALSE
    /\ pc' = Wakeup([pc EXCEPT ![p] = "idle"])
    /\ UNCHANGED <<lh, outstanding, boot, tail, buf, left, history, cache,
                   dirty, diskVars>>

-----------------------------------------------------------------------------
\* Power failure or reset: memory is lost, the disk stays.
Crash == /\ lh' = <<>>
         /\ outstanding' = 0
         /\ committing' = FALSE
         /\ tail' = 0
         /\ boot' = "read_head"
         /\ pc' = [p \in Proc |-> "idle"]
         /\ buf' = [p \in Proc |-> NoBuf]
         /\ left' = [p \in Proc |-> 0]
         /\ exceeded' = FALSE
         /\ cache' = disk
         /\ dirty' = {}
         /\ UNCHANGED <<overrun, diskVars>>

\* The steps a process takes by itself once it has entered begin_op().
ProcStep(p) == \/ BeginOp(p) \/ BeginSleep(p)
               \/ LogWriteAppend(p) \/ EndOp(p)
               \/ Commit(p) \/ WriteLogBlock(p) \/ WriteLogEnd(p)
               \/ CommitHead(p) \/ CommitInstall(p) \/ CommitReset(p)
               \/ CommitClear(p) \/ CommitDone(p)

Next == \/ Recover
        \/ \E p \in Proc : \/ CallBegin(p)
                           \/ ProcStep(p)
                           \/ Kill(p)
                           \/ \E b \in Blocks, v \in Val :
                                 LogWriteCheck(p, b, v)
        \/ \E b \in Blocks : Recycle(b)
        \/ Crash

Spec == Init /\ [][Next]_vars

(* Every process on a CPU or runnable keeps running (the scheduler is a    *)
(* round robin), initlog() runs to its end, and a file-system call makes   *)
(* finitely many log_write()s before its end_op().  Nothing forces a call  *)
(* to start, a kill or a power failure.                                    *)
Fairness == /\ WF_vars(Recover)
            /\ \A p \in Proc : WF_vars(ProcStep(p)) /\ SF_vars(EndOp(p))

LiveSpec == Spec /\ Fairness

-----------------------------------------------------------------------------
(* Properties *)

\* The variables have their types.  Within the shares that begin_op() reserves
\* log.lh.n stays within the array lh.block[LOGSIZE]; calls that exceed theirs
\* may pass the unlocked test of log_write() together, for its last entry.
TypeOK == /\ lh \in Seq(Blocks) /\ Len(lh) <= MaxLogged
          /\ boot = "up" /\ ~exceeded => Len(lh) <= LOGSIZE
          /\ outstanding \in Nat
          /\ committing \in BOOLEAN
          /\ tail \in 0..MaxLogged
          /\ boot \in BootPhase
          /\ pc \in [Proc -> Phase]
          /\ buf \in [Proc -> Blocks \cup {NoBuf}]
          /\ left \in [Proc -> 0..MAXOPBLOCKS]
          /\ exceeded \in BOOLEAN
          /\ overrun \in BOOLEAN
          /\ cache \in [Blocks -> Val]
          /\ dirty \in SUBSET Blocks
          /\ disk \in [Blocks -> Val]
          /\ hdr \in Seq(Blocks) /\ Len(hdr) <= MaxLogged
          /\ logdata \in [Slots -> Val]

\* The block that install_trans() would copy for entry i if power failed now.
LogOnDisk(i) == IF i \in Slots THEN logdata[i] ELSE disk[Behind(i)]

\* What recover_from_log() would make of the disk if power failed now.
Recovered == [b \in Blocks |->
                IF b \in Entries(hdr)
                THEN LogOnDisk(CHOOSE i \in 1..Len(hdr) : hdr[i] = b)
                ELSE disk[b]]

\* What a file-system call sees; during recovery there is none.
Visible == IF boot = "up" THEN cache ELSE Recovered

AD == INSTANCE AtomicDisk WITH mem <- Visible, stable <- Recovered,
                               active <- InOp, damaged <- overrun

\* The log implements the atomic disk: whatever the interleaving of calls,
\* commits, recycled buffers and crashes (also crashes during recovery), the
\* next boot finds the effects of all the calls up to some moment at which
\* none was in progress, and of no other (log.c:10-14) - as long as no
\* transaction got more blocks than the log area holds.
AtomicSpec == AD!Spec

Whole == INSTANCE AtomicDisk WITH mem <- Visible, stable <- Recovered,
                                  active <- InOp, damaged <- FALSE

\* What log.c:10-14 says of every transaction: the disk is never damaged.
AlwaysAtomic == Whole!Spec

\* A bound on the explored states: every call keeps to its share.
WithinShares == ~exceeded

\* A call panics in log_write() only when the log is full, never in end_op()
\* or outside of a transaction.  If all the calls have kept to their shares,
\* all that the call had left is what the log area lacks of LOGSIZE blocks.
PanicOnlyWhenFull == \A p \in Proc : pc[p] = "panic" =>
                         /\ ~committing
                         /\ Len(lh) >= Room
                         /\ ~exceeded => left[p] <= LOGSIZE - Room

\* The types, the bounds of the log, and who may fail on them.
Capacity == TypeOK /\ PanicOnlyWhenFull

\* A buffer that bget() may recycle holds what the disk holds: no update of a
\* call is lost between its log_write() and the installation of the block.
SafeToRecycle == \A b \in Blocks \ (Busy \cup dirty) : cache[b] = disk[b]

\* When no call and no commit is in progress, everything that the cache holds
\* survives a crash: the last end_op() does not return before that.
QuietDurable == boot = "up" /\ outstanding = 0 /\ ~committing
                   => Recovered = cache

\* A process asleep in begin_op() always has someone left to wake it: a call
\* that will end or a commit that will finish.
NoStrandedSleeper == (\E p \in Proc : pc[p] = "sleep")
                        => committing \/ InOp # {}

CrashesStop == <>[][~Crash]_vars

Panicked == \E p \in Proc : pc[p] = "panic"

\* The copy of an entry behind the log waits for a buffer that it holds.
MeetsItself == tail < Len(lh) /\ ~DistinctBuffers(tail + 1)

\* A sleeper in begin_op() gets to test the log again, unless power keeps
\* failing, some call panics and never ends, or the commit waits for itself.
SleeperWoken == CrashesStop => \A p \in Proc :
                    []<>(pc[p] # "sleep" \/ Panicked \/ MeetsItself)

\* A commit ends, also one that runs while new calls queue up behind it.
CommitEnds == CrashesStop => []<>(~committing \/ MeetsItself)

\* A reboot gets through initlog() whatever the last crash left on disk.
RecoveryEnds == CrashesStop => []<>(boot = "up" \/ MeetsItself)

\* The three together: once power stays, nobody waits for the log for ever, no
\* commit hangs, and every reboot gets to the first call - but for the entry
\* behind the log whose home is the very block that it is copied to.
WorkEnds == SleeperWoken /\ CommitEnds /\ RecoveryEnds
=============================================================================
