# A verification project for xv6 (rev9) with vi

The repository is the teaching kernel xv6, revision 9, extended with a small
`vi` and the console system calls `vi` needs. `vi_xv6_rev9/` is the system that
is built and run, for two CPUs (`CPUS := 2` in its Makefile); it is what is
modelled here, and file names below are relative to it. `vi_development/` holds
the versions `vi_1.c` to `vi_9.c` that the editor grew through, which are
modelled too. `xv6_rev9/` is the unchanged original and `modifiedFiles/` has
copies of the changed files; neither is modelled a second time.

`PROJECT.json` maps every definition to the lines it models and lists the runs,
the mutants that show that each property can fail, the findings, the hazards and
the theorems.

## 1. The system

| Part | Sources | State | Operations | Module |
|---|---|---|---|---|
| Write-ahead log | `log.c` | in-memory header, `outstanding`, `committing`; header and log blocks on disk | `begin_op`, `log_write`, `end_op`, `commit`, recovery at boot | `Log`, `AtomicDisk` |
| Buffer cache, IDE driver | `bio.c`, `ide.c` | buffers with `B_BUSY`, `B_VALID`, `B_DIRTY`, LRU list, request queue | `bget`, `bread`, `bwrite`, `brelse`, `iderw`, `ideintr` | `Bcache` |
| Processes, scheduler | `proc.c`, `sysproc.c`, `trap.c` | process table, one scheduler per CPU, `ticks` | `fork`, `exit`, `wait`, `kill`, `sleep`, `wakeup`, `yield`, `scheduler` | `Proc` |
| Locks and interrupts | `spinlock.c`, `trap.c`, `lapic.c`, `proc.c` | lock words, `ncli`, `intena`, the interrupt flag, interrupts in service | `acquire`, `release`, `pushcli`, `trap`, `sched`, `lapiceoi` | `Interrupts` |
| Pipes | `pipe.c` | ring buffer, two counters, two open flags | `piperead`, `pipewrite`, `pipeclose` | `Pipe` |
| Inodes, names | `fs.c`, `sysfile.c` | inodes on disk, inode cache, directories | `iget`, `ilock`, `iput`, `namex`; `open`, `close`, `mkdir`, `link`, `unlink`, `chdir` | `Inode` |
| Blocks, file contents, file table | `fs.c`, `file.c`, `sysfile.c` | bitmap, block lists, file table, descriptors | `balloc`, `bmap`, `itrunc`, `writei`, `filewrite`, `filedup`, `fileclose` | `Files` |
| Memory, exec | `kalloc.c`, `vm.c`, `exec.c`, `proc.c`, `main.c` | free list, page directories, sizes | `kinit`, `kalloc`, `setupkvm`, `allocuvm`, `copyuvm`, `freevm`, `exec`, `sbrk`, `fork`, `wait` | `Memory` |
| Console | `console.c`, `sysfile.c` | input ring, cursor registers, `bufferFlag`, `showAtonce` | interrupt, read, write, the calls for vi | `Screen`, `Console` |
| Keyboard | `kbd.c` | shift bits | `kbdgetc` | `Kbd` |
| vi | `vi.c`, `vi_development/*.c` | text buffer, `dot`, `screenbegin`, modes | motions, edits, search, colon commands, save | `Vi`, `ViHistory` |
| System calls as seen by programs | `sysfile.c`, `pipe.c`, `proc.c`, `file.c` | files, directories, descriptors, pipes, processes | every call but the console's | `Calls`, `User` |
| Tests, shell, file programs | `usertests.c`, `sh.c`, `init.c`, `cat.c`, `cp.c`, ... | - | their calls in order, with the checks on the results | `Usertests`, `Shell` |
| Libraries and filters | `string.c`, `ulib.c`, `printf.c`, `grep.c`, `wc.c`, `ls.c` | - | copying, printing, matching, reading lines | `Lib` |
| User allocator | `umalloc.c` | ring of free blocks | `malloc`, `free`, `morecore` | `Umalloc` |
| mkfs | `mkfs.c` | the image | `main`, `ialloc`, `iappend`, `balloc` | `Mkfs` |
| Start of the machine | `mp.c`, `bootmain.c` | firmware tables, image | `mpinit`, `bootmain` | `Startup` |
| Other drivers, assembly | the rest | - | - | - |

**How the parts meet.** A system call enters through a trap. File-system calls
are bracketed by `begin_op`/`end_op`; between them they lock inodes, read
buffers and announce changes with `log_write`, which pins buffers in the cache
until the commit. The cache asks the IDE driver, whose interrupt wakes the
sleeper. All waiting is `sleep`/`wakeup` on an address under a spinlock, so
every component depends on the process table. Pipes share the file table with
files; `fork` and `exit` copy and drop its references. The console interrupt
fills the ring that `consoleread` (and so the shell and vi) drains; vi turns off
echo and line editing with two switches and draws with calls of its own.

**What is hard.** Two CPUs and interrupts interleave at every release of a lock.
`sleep` may return for another reason than the one waited for, `kill` among
them. Power may fail between any two disk writes. Reference counts and link
counts are changed by calls that hold neither lock all the time. Conditions are
tested before a lock is taken and used after it (`log_write`, `kill`). Memory
and the disk run out half-way through a call. The console calls for vi take no
lock at all. Loops of the editor end only for some texts.

**What makes each part correct.**
- Log: after a crash the disk holds whole calls only, and everything that was
  quiet before; nobody sleeps in `begin_op` for ever; `log.lh.n` stays within its
  array.
- Cache and driver: one buffer per block, one user per buffer, a read returns
  the last write; every request ends.
- Processes: a process is on one CPU at most, every zombie has somebody to reap
  it, `wait` misses no child, a killed process exits.
- Locks: one CPU in a section, no interrupt inside it, the interrupt flag belongs
  to the thread.
- Pipes: the bytes come out as they went in, each once; closing an end reaches
  everybody; no sleeper whose condition holds.
- Inodes: `ref` counts the pointers, nothing that is in use is freed, names lead
  to allocated inodes, no cycle of locks, no panic.
- Files: a block has one owner, a file holds what was written, also by several
  processes through one open file; a transaction fits into the log.
- Memory: a page has one use, a call that fails changes nothing.
- Console: input is a queue, the cursor is where one of the writers put it.
- vi: no store outside the buffer, what is saved is the text, commands end.
- Programs: no test complains under any schedule; a command line means what its
  commands mean.

## 2. How the modules correspond to the code

A section under one spinlock in which nothing sleeps is one action: the lock
admits one CPU at a time, and interrupts are off while it is held (which
`Interrupts` checks: `LockedOut`). Where the code releases the lock, or sleeps,
the step ends. `sleep(chan, lk)` takes `ptable.lock` before it releases `lk`;
modules in which a step can fall between the two (`Pipe`: phase `doze`; `Proc`:
phase `sleep`) have it as a step of its own. `wakeup` and `kill` move sleepers
to the point where they test their condition again.

### Log and AtomicDisk
`Log` has the in-memory header `lh`, `outstanding`, `committing`, the buffer
cache as one copy per block (`cache`) with the set of pinned ones (`dirty`), and
the disk: home blocks, log blocks, header. Each disk write of a commit
(`WriteLogBlock`, `CommitHead`, `CommitInstall`, `CommitClear`) and of the
recovery is a step, and `Crash` is possible between any two; it loses the memory
and restarts at `read_head`. The capacity check of `log_write` is a step without
the lock (`LogWriteCheck`), the append another (`LogWriteAppend`). As in the code
nothing limits what one call logs: `left` is what it has left of the
`MAXOPBLOCKS` that `begin_op` reserved, and two variables are history, `exceeded`
(a call of this transaction logged more) and `overrun` (a transaction was longer
than the log area). The log area may be as short as `mkfs` makes it: entry `i`
goes to block `log.start+i`, which from `NLOG` on is a block behind the log
(`Behind`), and the first of those are the inode blocks (`InodeStart`). Should
such an entry's home be that very block, `bread` of the two waits for a buffer
that its own process holds (`DistinctBuffers`, `MeetsItself`). `Recycle` stands
for `bget` reusing an unpinned buffer.

`AtomicDisk` is the promise: calls change memory; when none is in progress all
changes become stable at once; a crash goes back to the stable state. The
refinement maps `mem` to what callers see and `stable` to what a recovery now
would produce. The promise ends with `damaged`, which calls in progress may set.
`AtomicSpec` maps it to `overrun`; `AlwaysAtomic`, which maps it to `FALSE`, is
what `log.c` says of every transaction, and the run `log_overrun` refutes it.
Entries of `lh` past `lh.block[LOGSIZE]` are kept as they were written; what the
compiler put behind that array is not modelled.

### Bcache
`bget` (hit, sleep and rescan, recycle in LRU order, panic), `bread`, `bwrite`,
the pin of `log_write`, `brelse`, and the driver: queue, interrupt, the next
request started. Waiters in `bget` and in `iderw` share the channel, as in the
code. A read error is an input of the interrupt; `failed` remembers the buffers
it hit. `Written` are the blocks that calls change; the super block is only read.

### Proc
One slot per `struct proc`; `pc` says where in the kernel a process is. Each CPU
has the position of its scan of the table. `fork` with its failures, `exit`
(hands children to `init`, wakes it for zombies), `wait`, `kill`, the timer
tick, blocking calls as in `sys_sleep` (`CallBlock`, `BlockTest`, `Sleep`).
Files and memory of a process are elsewhere. Channels are addresses: a slot (for
`wait`), `ticks`, or a device that may never answer.

### Interrupts
What the atomic steps of the other modules rest on. Each thread (a process, a
scheduler) has a stack of frames: the system call it is in, and the handlers
that interrupted it. A CPU executes the top frame, one instruction of
`acquire`, `release`, `sched` or the scheduler at a time; the timer and the disk
may interrupt wherever the flag is on. `ncli` and `intena` are the CPU's, the
flag goes with `pushcli`, `popcli`, `iret` and `sti`. The local APIC holds an
interrupt in service until `lapiceoi`.

### Pipe
Counters are unsigned integers modulo `UINT`, which is a multiple of `PIPESIZE`
as 2^32 is of 512. A byte is its position in the stream, so that order,
duplication and loss are all visible. `ref` and `holds` are the file table's
counts for the two ends; `Close` drops one under `ftable.lock` and `PipeClose`
is the later call of `pipeclose`. `untold` remembers that a killed writer left
without its wakeups.

### Inode
Disk inodes (`type`, `nlink`, entries) and cache entries (`ref`, `busy`,
`valid`). A section from `ilock` to `iunlock` in which no other inode is locked
is one action; `unlink` and `create`, which lock two, have a step between.
`namex` takes one path element per step and puts the directory it leaves. `put`
is the list of inodes a call has still to `iput`; an `iput` that frees has three
steps, since it drops `icache.lock`. `Panic` is taken when the next step of a
process would fail one of the checks of `ilock`, `iput`, `unlink` or `ialloc`;
the kernel then stops. Two variables are history: `lost` counts names made in
directories that were already removed, and `strayed` is set for good when a
lookup takes the `..` of a directory that has no name any more (`Follow`). Where
that leads may be free or be another inode by now, so `NoPanic` and the
statements of `TreeInv` other than types hold until then. The log makes a call atomic with respect to crashes, so there are none
here. The cache has an entry for every inode (the code has `NINODE` = 50 and
panics beyond).

### Files
The bitmap, the addresses of each inode with its indirect block, the bytes, the
file table and the descriptors. `begin_op` and `ilock` are steps of their own;
`filewrite` is a loop of chunks, each a transaction, and inside one `bmap`,
`balloc`, `bzero` and the copying of a block are steps, so that writes of two
processes interleave where the code lets them. `itrunc` frees block by block.
A transaction counts the blocks it logs; `log_write` panics when the log is
full, also for a block that is already in it, as the code does. Names are
`Inode`'s: `create` is one step here, a transaction of the new inode and the
block with its name (`Transaction`). History: `abs`
(the bytes written to a file), `plain` (how many were written to one that was
opened once), `over` (some transaction logged more than `begin_op` reserved).

### Memory
Every `kalloc` and `kfree` is a step, so memory runs out at any of them while
other processes allocate. A page directory has its kernel tables, user tables
and pages; `cr3` of a process is what its CPU has loaded and what the TLB got
from it in user mode. `main` runs first: `kinit1`, `kvmalloc`, `startothers`
with pages of low memory, `kinit2`, `userinit`. `exec`, `sbrk`, `fork`, `exit`
and `wait` follow, each with its undoing. `leaked` has the pages that `setupkvm`
loses when it fails half-way and the one that `copyuvm` loses.

### Screen, Console and Kbd
`Screen` has the cursor's two registers behind the index port; every `outb` and
`inb` is a step, and each actor (the interrupt, the foreground) has the value it
is assembling. `Console` has the ring with its three indexes, `consoleintr`,
`consoleread`, the two switches, `cons.lock`, and a foreground that is the shell
or a vi session, which may be killed; it then dies at its next return to the user,
but a drawing (`copyFromTextToScreen` is a loop in the kernel, `InCopy`) runs to
its end. `quit` draws once more and prints its line like any other command.
`setCursorPos` panics outside of the screen, where a position read in the middle of
another's port accesses can lead. `marks` remembers that calls without the
lock overlapped (`raced`), that another actor printed during a drawing
(`mixed`), that a tab crossed the last cell (`tabbed`), that a drawing scrolled.
`Kbd` is `kbdgetc` on the codes of a shift and control key each side, caps lock,
a letter and a two-code key; `owed` has what each stroke still waiting meant when
it was made.

### Vi and ViHistory
`Vi` has the bytes of the buffer (also those behind `end`), `dot`, `end` and
`screenbegin` in a record; a command is an operator on it that says where the
command ends, with `lost` when it never comes back to the text and `wild` when it
stores outside the buffer. A search whose pointer leaves the buffer is `lost`: it
goes on through memory that is not the text's until it traps, or finds the string
there and sets `dot` to it. `ViHistory` has the loops of the nine versions as they are,
on the same records: each version is started in every command-mode state of the
final editor that `Fresh` admits, and the result is compared with `Vi`. This
checks `Vi`'s closed forms against the code's loops as well. Operators that
several versions share take the functions in which the versions differ as
parameters. `While` and `Times` are C's loops.

### Calls, User, Usertests, Shell
A program is a sequence of system calls with the results it accepts; `User` has
the system as programs see it, one step per call, a pipe transfer one step per
byte. `Usertests` has 32 of the tests and `Shell` the parser of `sh.c` from
words on, `runcmd`, `init`, and the file programs. A check that fails puts the
program's complaint into `oops`. `Meanings` says independently of processes and
pipes what a plain command line prints and leaves behind. Reductions: loops run
two or three times, two or three processes where the test has more, a byte
stands for a block or a string, a pid is a slot, `printf` output is left out,
and `linkunlink`'s random choice is a free one.

### Lib, Umalloc, Mkfs, Startup
`Lib` makes one call per behaviour and compares its result with a definition
that does not follow the code. `safestrcpy` writes its 0 once more behind a
terminator that it copied, as the code does. `Umalloc` goes round the ring block by block: a call
is in `op`, `passes` and `looks` go on to the next block, `links` and `takes` end the
searches of `free` and `malloc`, and `morecore` starts a `free` inside a `malloc`. The
program may move the break between calls. `Mkfs` runs `iappend` step by
step, a block taken or a piece copied at a time; `dinode` stands for `din` while it runs
and for the inode on the image afterwards. `Startup` has the search for the
MP tables with their checksums, and `readseg` sector by sector; memory ends at
`PHYSTOP`. `MCParts` puts
these parts, `Kbd`, `Console` and `Interrupts` into one run, one part per behaviour.

## 3. The runs

A run checks few invariants, each the conjunction of the named statements in
brackets, which stand before it in the module. There is at least one mutant for
every invariant, and mostly one for each of its statements.

| Run | Instance | Shows |
|---|---|---|
| `log` | 3 callers, 3 blocks, `LOGSIZE` = 3 * `MAXOPBLOCKS` = `NLOG` = 3 as in `param.h` and `mkfs.c`, so 2 data blocks and the inode blocks behind them | `AtomicSpec` (refinement) until the log area is overrun, `Capacity` [`TypeOK`, `PanicOnlyWhenFull`], `SafeToRecycle`, `QuietDurable`, `NoStrandedSleeper`; `WorkEnds` [`SleeperWoken`, `CommitEnds`, `RecoveryEnds`] once crashes stop |
| `log_overrun` | the same, with calls that keep to their shares | **violated** `AlwaysAtomic`: three calls fill `LOGSIZE` entries, and the commit writes the last log block over the first inode block |
| `bcache` | 2 processes, 2 buffers, 3 blocks, one pin, kills, read errors | `CacheInv` [`OneBufferPerBlock`, `ExclusiveUse`, `WakeupToCome`], `ReadsLatest`; `WaitsEnd` [`RequestsEnd`, `GetWoken`] |
| `proc` | 3 slots, 2 CPUs, `ticks` and a device to block on, kills of pid 2 and of pid 0, which free slots have | `OneCpuEach`, `SomeoneReaps`, `WaiterNotStranded`; `KeepsGoing` [`RunnableRuns`, `OrphansReaped`], `KilledExits` |
| `pipe` | 3 processes, `PIPESIZE` 2, counters modulo 4, 4 bytes, one process killed | `PipeInv` [`IsQueue`, `FreedUnreachable`], `NoneStranded` [`WriterNotStranded`, `ReaderNotStranded`]; `ClosingReaches` [`EofReaches`, `BrokenPipeReaches`] |
| `inode` | 2 processes, 3 inodes, `/x` a file or a directory, `/x/y`, `y`, `..` | `RefsExact`, `NoPanic`, `TreeInv` [`NamesGood`, `CountsExact`, `OpenStays`, `NoLockCycle`] |
| `files` | 2 processes, 2 inodes, 5 blocks, files of 1 direct and 2 indirect blocks, chunks of 2 blocks, `NFILE` 2 | `AccountsInv` [`OneOwner`, `RefsExact`, `PanicsExplained`], `FilesHold` [`Contents`, `WritesFollow`]; `CallsEnd` |
| `files_log_overrun` | `LOGSIZE` = 3 * `MAXOPBLOCKS` = blocks of the log area, as in `param.h` and `mkfs.c` | **violated** `LogNeverFull`: two writes of one chunk each panic the kernel |
| `memory` | 3 processes, 2 CPUs, 16 frames of 2 bytes, tables of 2 pages, 3 calls | `PagesInv` [`OneUse`, `SizeMapped`, `LoadedOwn`, `BootSafe`], `FailedKeeps`; `CallsEnd` |
| `vi` | a screen of 2 x 2 cells, a buffer of 5, four texts, every key sequence with two changes | `EditorInv` [`BufferSafe`, `DotOnScreen`, `InsertInOrder`, `NoSilentLoss`, `FindsNext`], `ComesBack`, `VersionsDiffer` [`KeepsCommands`, `FirstVersion`, `SecondVersion`, `ThirdVersion`, `ScreenCurrent`, `ChangesKept`] |
| `user` | 7 processes, 8 open files, 14 inodes, pipes of 2 bytes; each of 32 tests and 17 shell sessions | `ResultsRight` [`NeverComplains`, `ShellMeans`], `SystemWhole` [`TreeWhole`, `NothingHeld`]; `AllEnd` |
| `parts` | texts up to 4 characters, a heap of 10 units, images of 30 blocks, 3 scan codes, MP tables of up to 4 entries, 2 processes on 2 CPUs; a screen of 2 x 2 cells with registers of three values, a ring of 2, 3 keys, one vi session | `LibRight`, `HeapInv`, `ImageInv`, `KeyboardInv`, `StartedRight`, `LocksInv` [`NoLockPanic`, `LockedOut`, `FlagKept`, `AckedHere`], `InputInv` [`InputIsQueue`, `SleepsOnEmpty`, `EofOnce`], `ScreenInv` [`SwitchesRestored`, `QuietInVi`, `CursorWhole`, `CopyNeverScrolls`] |

The modules have their `TypeOK` in the first invariant of the row, `Console` in
`InputInv`; that of `Proc` is proved, and the smaller parts have none.

**Why the bounds are enough.** Interference in these protocols is between two
parties plus a third that waits or is woken: hence three processes where
sleeping is the matter (log, pipe) and two where locks and buffers are. Two
data blocks in the log give a transaction of more than one block, a full log and
absorption, and three callers, each with room for one, its overrun: by calls
that keep to their shares and by calls that do not. Fewer buffers than blocks force recycling. Pipe
counters wrap around after two rounds of the buffer and a write of three bytes
does not fit. Three inodes let a freed number be reused while the freeing is
under way; the run also reaches the panic for want of inodes. A write of five
bytes takes two chunks and the indirect block, and a second one fills the disk.
Sixteen frames let three processes exist and every allocation fail. A line of
the editor can be longer than a row and than the screen, and the buffer can
fill. `MaxPid`, `MaxBytes`, `MaxWrites`, `MaxOps`, `MaxCalls`, `MaxKeys`,
`MaxVi`, `MaxEdits` and `MaxCodes` end the behaviours: at the bound the model
makes no more of these steps.

Some runs have a constraint. `UnderLoad` (log): what is called is one of three
`Loads`. A torn transaction takes two callers and two blocks with contents, an
overrun a third block, but only one with contents, and a queue for the log a
third caller, who need not write any. `WithinShares` (log_overrun): the run stops
at a call that logs more than its share, so that what it finds needs none.
`UntilMarked` (console, in parts): once calls without the lock have overlapped, a
tab has crossed the last cell or another actor has printed into a drawing, the
cursor can be anywhere; such states are checked but not explored further, and
the listing of processes that the last key asks for is left out. The panic of
`setCursorPos` lies beyond; the theorems about `Console` hold without this
constraint, the panic included. `Explored` (vi):
a failed save excuses a loss of text and touches nothing else, and the two kinds
of search do not read each other's memory; states with either are checked but
not explored further.

**Deadlock** is checked for the log, the inodes and the parts (a part that has
come to its end stutters). It is switched off where
stopping is legitimate: every process asleep on a device or exited (`Proc`),
everybody asleep in a pipe whose other end is held open by an idle process or
all closed (`Pipe`), all processes in `bget`'s panic (`Bcache`), a panic or the
bounds used up (`Files`, `Memory`, `Vi`), a shell at its prompt with
no input left (`User`).

**Fairness.** Processes that can run do run: the scheduler goes round the table
(`RunnableRuns` derives this from the fairness of the CPUs, the timer and the
kernel's own steps). In `Proc` a kernel step has strong fairness, since the
timer interrupts it again and again, and so has `init`'s call of `wait`, its
only loop. In `Log` and `Bcache` the end of a call and `brelse` have strong
fairness: a call writes finitely many blocks, which the model does not count.
The drive answers every request. In `Files` and `Memory` a process inside the
kernel goes on. In `User` only the system as a whole goes on (`WF_vars(Next)`):
no program spins, so that is enough for all of them to end. Nothing is assumed
of users, keys, kills or crashes; the liveness properties of the log hold if
crashes stop.

## 4. What is proved

The modules whose name ends in `Proofs` are checked by TLAPS. Their theorems
hold for any number of processes, CPUs, buffers, blocks, inodes and open files,
and for any calls, where the runs check the same properties for two or three of
each.

**Log.** `LogProofs` assumes of the sizes only that one call fits (`MAXOPBLOCKS`
<= `LOGSIZE`), and that the log area, header included, has at least `LOGSIZE`
blocks: `mkfs`'s has exactly as many. Calls may log more than their share. The
invariant has three parts.

`BookInv` is the bookkeeping. `log.lh.n` is not bounded by the append, which
checks nothing. It needs that `begin_op` lets in at most `LOGSIZE \div MAXOPBLOCKS`
calls, that what it handed out and is not used counts as one token for every
block (`Reserved`), that the entries and the calls past the test never are
more than `MaxLogged` (`Crowd`), and that a commit runs alone (`Exclusive`). From it
follow `LogBounds` (`Capacity`: `lh.n` keeps within `LOGSIZE` while the calls keep to
their shares, beyond only by the calls that passed the test together, and a
panic needs a full log) and `SleepersHaveWakers`.

`DataInv` is what the cache owes to the log: buffers not pinned equal the disk
(`Pinned`), the header is empty before the commit point (`HeaderEmpty`) and
names what is being installed after it (`Erased`), nothing is logged twice. It
does not depend on what the log blocks hold, so that `RecycleIsSafe` and, with
what recovery would read, `QuietIsDurable` hold also when the log area is overrun:
a disk that was damaged is still the disk that everybody sees.

`Copied` is about the three copies of a block: log blocks written so far equal the
cache (`InLog`) and installed blocks equal the log (`Installed`), as long as no
transaction was longer than the log area. From it follows the main result
`LogIsAtomic`: `Spec => AtomicSpec`. Its proof has a lemma per action: most steps
change neither what callers see nor what a recovery would produce; writing the
header is the abstract commit; an append past the log area is `Damage`.

**Processes** (`ProcProofs`, second part). `Inv` is `TypeOK`, `CpuInv` (no two CPUs run one process, and the
RUNNING ones are those on a CPU), `Family` (`init` is alive, nobody is its own
parent), `SomeoneReaps` and `WaiterNotStranded`. The last two need each other:
`exit` keeps `SomeoneReaps` because it hands its children to `init`, and
`WaiterNotStranded` because it wakes the parent that `SomeoneReaps` shows alive.
The theorems are `TypeCorrect`, `NeverTwoCpus`, `EveryoneReapable` and
`WaitMissesNothing`.

**Buffer cache** (`BcacheProofs`). `CacheInv` and `ReadsLatest` need three
facts of the driver and the cache together: `QueueInv` (the drive works as long
as there are requests; a request belongs to a process that waits for it and
holds the buffer; one that waits and is not done has a request), `NamesInv`
(which block and buffer a process has) and `DataInv` (a dirty buffer is newer
than the disk, which is otherwise up to date). `QueuedHeld` is why `brelse` can
hand over a buffer without looking at the queue, and why the interrupt changes
no buffer under the hands of somebody else.

**Pipes** (`PipeProofs`). The assumption that `PIPESIZE` divides `UINT` is what
makes `data[n % PIPESIZE]` the same byte before and after a counter wraps
around; the lemma `WrapAround` says so. `Counters` relates the counters to the
two streams, `Counted` the references to the processes that have an end open,
`ShutOnce` says that one process shuts an end, and `Dozing` that what a process
found before `sleep` took its locks over is still true when it sleeps: this is
where `p->lock` held up to `sleep` is needed. Theorems `PipeIsQueue` and
`WakeupsReach`.

**Locks and interrupts** (`ProcProofs`, first part, theorem `LocksAreSafe`). The proof is about code:
`Balanced` says that a thread's remaining operations release each lock once
after they acquired it, and switch or enable interrupts only where they may.
Lemmas show this for every call, every handler and the scheduler, and that it
is kept when the first operation is done or a handler is put in front. `Cpus` ties
what a CPU is inside of to the locks of the frame it executes, `ncli` to their
number, and the flag and `intena` to whether there are any; `Switches` says that
each CPU has a thread of its own and that a process off the CPUs has
`ptable.lock` to release as soon as it is on one; `Exclusion` that a lock is
taken while one CPU is inside.

**Start of the machine** (`ProcProofs`, third part, theorem `StartIsRight`). While
`mpinit` reads the table, `Scan` says that the entries in front of `p` are known
and noted; `Boot` that the segments loaded so far are whole. `readseg` starts at a
sector boundary below the segment and ends behind it, so that a load overwrites
its neighbours: `StartAssumption` has the segments in the order of the image and
apart as far as the sector that each begins in, which is what the comment "we
load in increasing order" (`bootmain.c`) counts on and `kernel.ld` provides.
`LoadOne` then shows that a load makes its own segment whole and leaves those in
front of it alone.

**Inodes** (`InodeProofs`). For `RefsExact` the invariant says which pointers a
call has at each of its steps (`Phases`), and the proof counts them: every step
moves, adds or drops a pointer of one process to one inode (`Own`), and
`icache`'s count moves with it. The assumption on the constants says what a path
and a call are.

`TreeInv` and `NoPanic` need that and a second invariant, `TreeOK`: unless a
lookup has strayed, `Tree` holds. None of its parts is inductive alone.

- `LocksHeld` and `AllApart`: `I_BUSY` is set exactly where a process is between
  `ilock` and `iunlock`; two processes never have the same inode locked, and one
  that `iput` is freeing has no other pointer, by `RefsExact`. After its type is
  0, `ialloc` may hand its number out while `iput` has still to drop the entry:
  then the new owner, before it has given the inode a name, and the old one are
  the only two that have it.
- `AllSound`: what a pointer leads to is what its process takes it for: the entry
  that `unlink` or `create` has looked up is still in the locked directory, the
  inode that `link` has counted is still a file, a new inode has no entries, and
  nothing that a process points to is free.
- `DiskGood`: the directories form a tree. A directory has one name, in the
  directory that its `..` names, and is not its parent's parent; free inodes have
  no links. `unlink` needs the first to know that removing the one name removes
  the directory, and `NoLockCycle` follows from the second.
- `Counts`: the link count of an inode is the names it has, its subdirectories,
  the lost names, one for the root, and one for each call between the counting
  and the entering of a name, or between the removing and the discounting
  (`InFlight`). `NamesGood` and `CountsExact` are what is left of it during and
  between calls; that nothing with a name is freed, and that `unlink` finds a
  link count of at least one, follow from it.

The proof has a lemma per action. Before it, three kinds of lemmas do most of
the work: what a list of `iput`s to come contains, what a step of one process
leaves true of all others, and how adding or removing one name changes a count.
`TLC` also checks `TreeOK` on the instance of the run `inode` and on larger sets
of calls.

**Files** (`FilesProofs`). `Inv` is, besides types, `LogInv` (`outstanding` are
the transactions that are open, and the blocks they have logged fit into what
`begin_op` reserved for them), `TableInv` (reference counts; who writes has a
descriptor), `LockInv` (one process holds an inode; who frees one is alone with
it), `OwnInv` and `PanicInv`. `OwnInv` counts as owner of a block also a process
between `balloc` and the end of `bmap`, and leaves out the entries of an indirect
block that `itrunc` has passed: without either, blocks would seem lost or shared
in the middle of a call. `Chunk` says where a writer is in its chunk.
`AccountsAreExact` follows. For `FilesHoldWrites` a second invariant, `HoldInv`,
says what is in a file while a chunk is being written: the bytes copied so far
are the writer's, the others those of the file before (`Bytes`); a file that
was opened once has its offset at its end (`Plain`), and no offset is beyond the
end of its file (`OffInv`). Filling one block changes no other byte because the
block has one owner, and that is `OwnInv` again. The constants are assumed such
that a chunk is not empty (`LOGSIZE >= 6`; it is 30), that blocks have bytes, and
that an indirect block has no more addresses than a block has entries.

**Console** (`ConsoleProofs`). The theorems are `InputArrives` (`InputInv`) and
`ScreenIsShared` (`ScreenInv`); they do not depend on the bounds on keys and
sessions, nor on the constraint of the run. `RingInv` holds the arithmetic of
the ring: `ModApart` says that two positions less than `INPUT_BUF` apart are
different places, so a stored character overwrites none that waits. `LockInv`
says who holds `cons.lock` and that calls made under it are the only ones of the
interrupt. `QuietInside` strengthens `QuietInVi`: with `bufferFlag` off only the
character just stored is uncommitted, so `^H` and `^U` find nothing to erase and
print nothing. `Whole` is the invariant of the port accesses: as long as no two
calls overlapped, `Stage` says after each of the eight accesses what the index
register, the two registers and the local position have to do with the cursor.
`Draw` says that vi knows the cursor before each character it puts, unless
somebody else has moved it. The arithmetic is in lemmas about division
(`Advances`: where a character leads, when that scrolls, when it is out of the
screen). Assumed of the constants: two registers can hold every position of the
screen (2000 of 65536).

**Keyboard** (also in `ConsoleProofs`, theorem `KeysArrive`). `KeyboardInv` is
about any number of codes that wait in the controller, while the bits in `shift`
are those after the codes already read. `Reads` says that reading all codes that
wait, one after the other, gives what `owed` has and ends with the bits that the
keys held down now stand for: there is a function with the bits after each code
and one with the number of characters so far. `CodeAdded` and `CodeRead` say
that this stays true when a key adds a code at one end and the interrupt takes
one at the other; `KeyDown` and `KeyUp` what the codes of each key do to the bits.

**Memory** (`MemoryProofs`). `PagesRight` is `PagesInv`, for any number of
processes, CPUs and pages, any programs and any sizes; the assumption on the
constants is that the space for processes is whole page tables and that the
machine has the pages `main` takes without asking. No part of `Inv` is inductive
alone.

- `Owned`: there is a function `own` that gives each page its one use: on the
  free list, a kernel stack, the directory of a process, the new directory of a
  call, a table or a user page of a certain directory, in the hand of a call
  (allocated, not mapped yet), lost, or not yet freed by the boot code. Each use
  has at most one page, and each of `freelist`, `kstack`, `pgdir`, `tab` and `pte`
  is where `own` says. `kalloc`, `kfree`, `mappages` and the steps of `freevm` each
  change the use of one page (`Move`); the commit of `exec` swaps two directories;
  `wait` takes over the directory of the zombie. A page that two calls freed, or
  two directories mapped, would need two uses.
- `Flow` and `Stage`: where a call is and which pages of its directory are there.
  `allocuvm` has mapped the pages below `a`, `deallocuvm` leaves a gap from where it
  began up to `a` (`Gap`), also where a missing table makes it skip, and the
  directory has all tables of the kernel outside `setupkvm` and `freevm`.
- `Image`: what a process keeps during its call. In `exec`, `fork` and `wait` the
  old image is below `sz`; in `growproc` it is the part of the directory that was
  there before, which is why undoing `allocuvm` gives back exactly it. What the TLB
  may know is among the pages below `sz` that are mapped.
- `Locks`: `ptable.lock` is held by the one process in `fork` or `wait`, and an
  embryo or a zombie without a kernel stack is the one that call works on.
- `Booted`: how far the boot code has got and how long the list is, so that what
  it takes is there, and below 4 MB as long as the other page table is in use.
- `Tabled`: a page is mapped only in a table that is there.

`FailedLeaves` is the action property `FailedKeeps`: only four kinds of steps end a
call without success, and at each `Image` says that the directory of the process
is what it was when the call began. `NextInv` has a lemma per action.

**User allocator** (`PipeProofs`, second part, theorem `HeapIsWhole`). `RingOf` says that
each block of the ring, `base` too, points to the next higher one and the last to
`base`; `Tiles` that the blocks of the ring, of the program and the one in hand do
not overlap and make up what `morecore` got. Lemmas show what a block put in, left
out, cut or joined does to both. `HeapInv` needs two things more about the searches.
`Placing`: the block in front of the place where `bp` belongs is still ahead of `free`,
before it would be back at `freep`, and `BelongsBefore` shows that the test in the loop
is true at that block and nowhere else. `Searching`: whatever `malloc` has met on the
way from `freep` is too small, so that it calls `morecore` only when all are, and after
`morecore` there is one that is large enough. `HeapAssumption` asks for room for `base`
and a positive `Chunk` and requests.

**mkfs** (`ConsoleProofs`, last part, theorem `ImageIsWhole`). A place of an inode is a
direct address, its indirect block or an entry of that block. `TreeOk` is about the
places: every block between `nmeta` and `freeblock` is in one place of one inode in use
(`Placed`, `PlacedOnce`, `NoneLost`), an indirect block holds addresses (`Indirects`), and
what was not taken is zero (`Unused`). `TextOk` is about what is written: below the
size each block has what the complete file has there and behind it zeroes (`Written`),
no block is missing below the size (`Covered`), and what `iappend` has still to copy is what the
file goes on with (`Pending`). `MainAt` says how long each file will be when `iappend` returns.
`ImageMarked` needs all of `TreeOk`, as the bitmap is made of `freeblock` alone; that a block
has zeroes behind the end, which `RootSize` needs, goes back to `Unused`. `MkfsAssumption`
says what `mkfs` does not test: the image has room for its metadata, there are
inodes for all files, and their entries fit into one directory.

**Only model-checked:** everything about liveness (outside the prover's reach);
what the recursive operators of `Vi`, `ViHistory`, `Lib`, `User` and `Shell`
compute, and so `LibRight`, `SystemWhole`, `ResultsRight`, `EditorInv` and
`VersionsDiffer`, which would need induction over data.

## 5. Where the code and its words differ

Each of the first two has a run of its own; the others are exceptions that the
properties name, each as narrow as the code allows, so that the run shows that
nothing else goes wrong.

- **Chunks and the log** (`file.c:132`, run `files_log_overrun`). The comment
  at `file.c:126-129` has a write cut into pieces "to avoid exceeding the
  maximum log transaction size". The piece is computed from `LOGSIZE`, but
  `begin_op` reserves `MAXOPBLOCKS` per call: with indirect block, bitmap and
  inode a piece logs more than was reserved, and two such writes fill the log.
- **The last log block** (`log.c:215`, `mkfs.c:25`, run `log_overrun`). `log.c:10-14`
  promises that there is "never any reasoning required about whether a commit
  might write an uncommitted system call's updates to disk", and `param.h:11` calls
  `LOGSIZE` the "max data blocks in on-disk log". `mkfs` makes a log of `LOGSIZE`
  blocks, header included. The check of `log_write` would stop a call before the last
  entry, but it runs without `log.lock`, so that calls can pass it together: the
  header then has `LOGSIZE` entries, and `write_log` puts the last one into the
  first inode block, before the commit point. The calls of the run keep to their
  shares; calls that exceed them, as those of `filewrite` do, can pass the check
  for entry `LOGSIZE`, too, and write behind `lh.block[LOGSIZE]` (`MaxLogged`).
- **Read errors** (`ide.c:118-122`, comment at `ide.c:136`). After a failed read
  `B_VALID` is set all the same; exception in `ReadsLatest`.
- **Kill and sleep** (`proc.c:378`, comment at `proc.c:431`). `sleep` does not
  look at `killed` again: a kill between the caller's test and `sleep` is missed
  until the device wakes the process; exception in `KilledExits`.
- **Kill of a free slot** (`proc.c:429`, comment at `proc.c:419`). `kill(0)`
  finds a slot that was never used, and `allocproc` does not reset `killed`: the
  next process there is born killed, and exits. The run reaches this.
- **A killed pipe writer** (`pipe.c:85-87`) leaves without waking the readers of
  what it wrote; exception in `ReaderNotStranded`.
- **`..` of a removed directory** that is somebody's current directory, or that a
  lookup has just reached, leads to an inode that may be free, and `ilock`
  panics (`sysfile.c:219`). It may also have been allocated again: then `link`
  can count an inode that `create` has just got from `ialloc` and not locked
  yet, `create` sets the count to one (`sysfile.c:264`), and two names share it;
  the second `unlink` panics. The run has no such `link`; the attempt to prove
  `NamesGood` and `CountsExact` without an exception led to it, and TLC confirms
  it when `link` of `..` is among the calls. Exception `strayed` in `NoPanic` and
  `TreeInv`.
- **Names in a removed directory** are counted and never freed
  (`sysfile.c:258`): `lost` in `CountsExact`.
- **Memory.** `sbrk(-sz)` frees everything and reports an error, because the new
  size is 0, with the old size kept and the TLB not flushed (`proc.c:119`);
  exception in `SizeMapped` and `LoadedOwn`. `setupkvm` and `copyuvm` lose pages
  when they fail (`vm.c:141`, `vm.c:337`): `leaked` in `OneUse`.
- **Console.** `setCursorPos` and its relatives move the cursor by two port
  pairs without `cons.lock`, so that an interrupt can tear it; a tab at the end
  of the last line makes `cgaputc` panic; an echo during `copyFromTextToScreen`
  makes it scroll. vi turns `showAtonce` off only after its first drawing
  (`vi.c:238-244`). A vi that is killed finishes the drawing it is in, which is one
  system call, leaves both switches off, and `SwitchesRestored` is about the
  others only. `setCursorPos` panics for a position outside the screen, and the run
  shows that only a torn cursor leads there. All are marks in `CursorWhole`,
  `CopyNeverScrolls`, `QuietInVi`, `SwitchesRestored`.
- **vi.** `ComesBack` lists the commands that never return (`G` in a text that
  does not fill the screen, `b` at the start of a screen, a search in an almost
  empty text, any with `dot` behind the end). `file_save` writes one byte more
  than the text and does not truncate, so a file that shrank keeps its old end;
  `NoSilentLoss` says only that the file begins with the text. `:w` clears
  `hasChanged` before it saves, so that `:q` after a failed save loses text. The
  first characters typed into an empty text come out in the wrong order
  (`InsertInOrder` begins inside the text). Search never looks at the first
  character and can match bytes behind `end`.
- **Versions of vi.** `vi_1` hangs when `dot` is the last character. `b` of
  `vi_3` always returns; `vi_4`'s `dot_decrease` is what makes it hang. Since
  `vi_6`, `~ J D < >` leave the old text on the screen. `q` of `vi_4` to `vi_8`
  drops changes unless followed by `w`.
- **Libraries.** The user library's `memmove` copies upwards only, and is right
  when it does not copy upwards into its own source. `grep` drops part of a line
  longer than its buffer or cut by a pipe, and never prints a last line without
  its end.
- **mkfs** gives the root directory one block too many when its entries fill
  their blocks, and checks neither `FSSIZE` nor `NINODES`.
- **Start.** `mpinit` does not return on a table entry of an unknown type: the
  `break` at `mp.c:127` leaves the `switch` only. `readseg` is right because the
  linker puts segments on pages of their own.
- **Keyboard.** Letting go of one of two shift keys ends the shift.

## 6. Not modelled

- The serial port, the interrupt controllers (`uart.c`, `ioapic.c`, `picirq.c`,
  most of `lapic.c`, `timer.c`): writes to device registers that no state of the
  kernel depends on. What the kernel relies on, that interrupts come and have to
  be ended, is in `Interrupts`.
- Assembly (`bootasm.S`, `entry.S`, `entryother.S`, `swtch.S`, `vectors.pl`,
  `initcode.S`, `usys.S`): modes, segments and stacks below what these models
  tell apart. `swtch` is a step of `Interrupts`.
- `memide.c` replaces `ide.c` in another build; it has no queue.
- `kill.c` and `etc.c`: one call each, whose effects are in `Proc`, `User` and
  `Console`.
- Three tests of `usertests`: `mem` and `bsstest` look at memory inside one
  process, `fsfull` is never called.
- Of modelled parts: the cells of the screen; the status line of vi and a
  `read()` that returns 0 on ^D; the contents of user pages and the bits of page
  table entries other than present and user; argument fetching in `syscall.c`;
  `mknod`; the limits `NINODE` and `NBUF` as sizes (their panics are reached in
  `Bcache`, and cannot be in `Inode`).
- A crash between the last `unlink` of an open file and its last close leaves an
  inode without names. The log makes each call atomic, and nothing in the kernel
  looks for such inodes.
- `xv6_rev9/` and `modifiedFiles/` are the same code again.

## 7. Plan

Done: all modules above; proofs of `Log`, `Proc`, `Bcache`, `Pipe`,
`Interrupts`, `Startup`, `Files`, `Inode`, `Console`, `Kbd`, `Umalloc`, `Mkfs` and
`Memory`.

Left: compositions of `Log` with `Bcache` (the cache that `Log` takes as one copy
per block is what `Bcache` implements; `NBUF` against `LOGSIZE`) and of `Inode` with
the crashes of `AtomicDisk` (inodes without names).
