------------------------------- MODULE Bcache -------------------------------
(***************************************************************************)
(* The buffer cache (bio.c) over the IDE driver (ide.c): NBUF buffers,     *)
(* processes that bread(), change, bwrite() or log_write(), and brelse()   *)
(* them, the request queue, and the disk interrupt.  A code section under  *)
(* bcache.lock or under idelock is one action.  sleep() and wakeup() on a  *)
(* buffer are the "get_sleep" and "io_sleep" phases and WakeupOn: bget()   *)
(* waiters and the iderw() waiter sleep on the same channel.               *)
(***************************************************************************)
EXTENDS Naturals, Sequences, FiniteSets, SequencesExt

CONSTANTS Proc, Buf, Blocks, Val,
          Written,     \* the blocks that are ever written: not the super block
          Zero,        \* initial contents of disk and memory
          None,        \* no block, no buffer
          LOGSIZE,     \* at most so many buffers are pinned by the log
          DiskErrors   \* can the drive report an error for a read?

ASSUME BcacheAssumption == /\ IsFiniteSet(Buf) /\ Buf # {}
                           /\ Zero \in Val
                           /\ Written \subseteq Blocks
                           /\ None \notin Blocks \cup Buf
                           /\ LOGSIZE \in Nat
                           /\ DiskErrors \in BOOLEAN

VARIABLES
    blockno,   \* the block of each buffer
    flags,     \* its flags, a subset of {"BUSY", "VALID", "DIRTY"}
    data,      \* its contents
    lru,       \* the buffers from head.next (most recent) to head.prev
    idequeue,  \* buffers with a request, the active one first
    started,   \* has idestart() given the drive the first request?
    disk,      \* contents of the drive
    pc,        \* where each process is
    want,      \* the block it called bread() for
    have,      \* the buffer it holds, or sleeps on
    latest,    \* history: what was last written to each block
    failed     \* history: buffers whose contents the drive failed to read

bufVars == <<blockno, flags, data, lru>>
ideVars == <<idequeue, started, disk>>
procVars == <<pc, want, have>>
history == <<latest, failed>>
vars == <<bufVars, ideVars, procVars, history>>

Phase == {"idle", "get", "get_sleep", "io_test", "io_sleep", "hold", "panic"}

Init == /\ blockno = [x \in Buf |-> None]
        /\ flags = [x \in Buf |-> {}]
        /\ data = [x \in Buf |-> Zero]
        /\ lru = SetToSeq(Buf)
        /\ idequeue = <<>>
        /\ started = FALSE
        /\ disk = [b \in Blocks |-> Zero]
        /\ pc = [p \in Proc |-> "idle"]
        /\ want = [p \in Proc |-> None]
        /\ have = [p \in Proc |-> None]
        /\ latest = disk
        /\ failed = {}

Cached(b) == {x \in Buf : blockno[x] = b}

\* The processes' phases after wakeup(x).
WakeupOn(x, phase) ==
    [q \in Proc |-> IF have[q] # x THEN phase[q]
                    ELSE IF phase[q] = "get_sleep" THEN "get"
                    ELSE IF phase[q] = "io_sleep" THEN "io_test"
                    ELSE phase[q]]

-----------------------------------------------------------------------------
(* iderw(): queue the request, start the drive if it is idle, wait. *)

Request(p, x) == /\ idequeue' = Append(idequeue, x)
                 /\ started' = (started \/ idequeue = <<>>)
                 /\ pc' = [pc EXCEPT ![p] = "io_test"]
                 /\ UNCHANGED disk

Done(x) == flags[x] \cap {"VALID", "DIRTY"} = {"VALID"}

IoTest(p) == /\ pc[p] = "io_test"
             /\ pc' = [pc EXCEPT ![p] = IF Done(have[p]) THEN "hold"
                                                         ELSE "io_sleep"]
             /\ UNCHANGED <<bufVars, ideVars, want, have, history>>

\* Mutant of IdeIntr: the next queued request is not started.
IdeIntrNoRestart(error) ==
    /\ started
    /\ idequeue # <<>>
    /\ LET x == Head(idequeue)
           b == blockno[x]
       IN  /\ IF "DIRTY" \in flags[x]
              THEN disk' = [disk EXCEPT ![b] = data[x]] /\ UNCHANGED data
              ELSE data' = [data EXCEPT ![x] = disk[b]] /\ UNCHANGED disk
           /\ flags' = [flags EXCEPT ![x] = (@ \cup {"VALID"}) \ {"DIRTY"}]
           /\ pc' = WakeupOn(x, pc)
    /\ idequeue' = Tail(idequeue)
    /\ started' = FALSE
    /\ UNCHANGED <<blockno, lru, want, have, history>>

\* ideintr(): finish the first request and start the next.  B_VALID is set
\* whether or not the drive reported an error.
IdeIntr(error) ==
    /\ started
    /\ idequeue # <<>>
    /\ LET x == Head(idequeue)
           b == blockno[x]
       IN  /\ IF "DIRTY" \in flags[x]
              THEN disk' = [disk EXCEPT ![b] = data[x]] /\ UNCHANGED <<data, failed>>
              ELSE /\ data' = [data EXCEPT ![x] = IF error THEN @ ELSE disk[b]]
                   /\ failed' = IF error THEN failed \cup {x} ELSE failed
                   /\ UNCHANGED disk
           /\ flags' = [flags EXCEPT ![x] = (@ \cup {"VALID"}) \ {"DIRTY"}]
           /\ pc' = WakeupOn(x, pc)
    /\ idequeue' = Tail(idequeue)
    /\ started' = (Tail(idequeue) # <<>>)
    /\ UNCHANGED <<blockno, lru, want, have, latest>>

-----------------------------------------------------------------------------
(* bread() *)

Bread(p, b) == /\ pc[p] = "idle"
               /\ want' = [want EXCEPT ![p] = b]
               /\ pc' = [pc EXCEPT ![p] = "get"]
               /\ UNCHANGED <<bufVars, ideVars, have, history>>

\* Mutant of BgetHit: a process woken in bget() takes the buffer it slept on
\* without looking for its block again.
BgetHitNoRescan(p) ==
    /\ pc[p] = "get"
    /\ \E x \in Cached(want[p]) \cup ({have[p]} \ {None}) :
          /\ "BUSY" \notin flags[x]
          /\ flags' = [flags EXCEPT ![x] = @ \cup {"BUSY"}]
          /\ have' = [have EXCEPT ![p] = x]
          /\ pc' = [pc EXCEPT ![p] = "hold"]
    /\ UNCHANGED <<blockno, data, lru, ideVars, want, history>>

\* Mutant of BgetHit: the test for B_BUSY is left out.
BgetHitBusy(p) ==
    /\ pc[p] = "get"
    /\ \E x \in Cached(want[p]) :
          /\ flags' = [flags EXCEPT ![x] = @ \cup {"BUSY"}]
          /\ have' = [have EXCEPT ![p] = x]
          /\ IF "VALID" \in flags[x]
             THEN pc' = [pc EXCEPT ![p] = "hold"] /\ UNCHANGED ideVars
             ELSE Request(p, x)
    /\ UNCHANGED <<blockno, data, lru, want, history>>

\* bget() found the block and takes its buffer; bread() is done if it is
\* valid.
BgetHit(p) ==
    /\ pc[p] = "get"
    /\ \E x \in Cached(want[p]) :
          /\ "BUSY" \notin flags[x]
          /\ flags' = [flags EXCEPT ![x] = @ \cup {"BUSY"}]
          /\ have' = [have EXCEPT ![p] = x]
          /\ IF "VALID" \in flags[x]
             THEN pc' = [pc EXCEPT ![p] = "hold"] /\ UNCHANGED ideVars
             ELSE Request(p, x)
    /\ UNCHANGED <<blockno, data, lru, want, history>>

\* bget() found the block in use and sleeps; it will look again from the start.
BgetSleep(p) ==
    /\ pc[p] = "get"
    /\ \E x \in Cached(want[p]) : /\ "BUSY" \in flags[x]
                                  /\ have' = [have EXCEPT ![p] = x]
    /\ pc' = [pc EXCEPT ![p] = "get_sleep"]
    /\ UNCHANGED <<bufVars, ideVars, want, history>>

\* Mutant of Clean: pinned buffers are recycled too.
CleanOrDirty == {i \in 1..Len(lru) : "BUSY" \notin flags[lru[i]]}

Clean == {i \in 1..Len(lru) : flags[lru[i]] \cap {"BUSY", "DIRTY"} = {}}

\* Mutant of BgetRecycle: a buffer is taken without looking the block up.
BgetRecycleNoLookup(p) ==
    /\ pc[p] = "get"
    /\ Clean # {}
    /\ LET x == lru[Max(Clean)]
       IN  /\ blockno' = [blockno EXCEPT ![x] = want[p]]
           /\ flags' = [flags EXCEPT ![x] = {"BUSY"}]
           /\ have' = [have EXCEPT ![p] = x]
           /\ failed' = failed \ {x}
           /\ Request(p, x)
    /\ UNCHANGED <<data, lru, want, latest>>

\* bget() recycles the least recently used clean buffer; the flags become
\* B_BUSY alone, the old contents stay until the drive answers.
BgetRecycle(p) ==
    /\ pc[p] = "get"
    /\ Cached(want[p]) = {}
    /\ Clean # {}
    /\ LET x == lru[Max(Clean)]
       IN  /\ blockno' = [blockno EXCEPT ![x] = want[p]]
           /\ flags' = [flags EXCEPT ![x] = {"BUSY"}]
           /\ have' = [have EXCEPT ![p] = x]
           /\ failed' = failed \ {x}
           /\ Request(p, x)
    /\ UNCHANGED <<data, lru, want, latest>>

\* panic("bget: no buffers")
BgetPanic(p) ==
    /\ pc[p] = "get"
    /\ Cached(want[p]) = {}
    /\ Clean = {}
    /\ pc' = [pc EXCEPT ![p] = "panic"]
    /\ UNCHANGED <<bufVars, ideVars, want, have, history>>

-----------------------------------------------------------------------------
(* What the holder of a buffer does. *)

Modify(p, v) == /\ data' = [data EXCEPT ![have[p]] = v]
                /\ latest' = [latest EXCEPT ![blockno[have[p]]] = v]
                /\ flags' = [flags EXCEPT ![have[p]] = @ \cup {"DIRTY"}]
                /\ failed' = failed \ {have[p]}

\* Change the contents and write them to the drive.
Bwrite(p, v) == /\ pc[p] = "hold"
                /\ want[p] \in Written
                /\ Modify(p, v)
                /\ Request(p, have[p])
                /\ UNCHANGED <<blockno, lru, want, have>>

\* Change the contents and log_write() the buffer: it stays dirty until the
\* commit writes it.
Pinned == {x \in Buf : "DIRTY" \in flags[x]}

LogWrite(p, v) == /\ pc[p] = "hold"
                  /\ want[p] \in Written
                  /\ "DIRTY" \in flags[have[p]] \/ Cardinality(Pinned) < LOGSIZE
                  /\ Modify(p, v)
                  /\ UNCHANGED <<blockno, lru, ideVars, procVars>>

\* The list with x unlinked and put behind the head.
ToFront(x) == LET at == CHOOSE i \in 1..Len(lru) : lru[i] = x
              IN  [i \in 1..Len(lru) |-> IF i = 1 THEN x
                                         ELSE IF i <= at THEN lru[i - 1] ELSE lru[i]]

\* Mutant of Brelse: the waiters are not woken.
BrelseNoWakeup(p) ==
    /\ pc[p] = "hold"
    /\ LET x == have[p]
       IN  /\ lru' = ToFront(x)
           /\ flags' = [flags EXCEPT ![x] = @ \ {"BUSY"}]
           /\ pc' = [pc EXCEPT ![p] = "idle"]
    /\ have' = [have EXCEPT ![p] = None]
    /\ want' = [want EXCEPT ![p] = None]
    /\ UNCHANGED <<blockno, data, ideVars, history>>

Brelse(p) ==
    /\ pc[p] = "hold"
    /\ LET x == have[p]
       IN  /\ lru' = ToFront(x)
           /\ flags' = [flags EXCEPT ![x] = @ \ {"BUSY"}]
           /\ pc' = WakeupOn(x, [pc EXCEPT ![p] = "idle"])
    /\ have' = [have EXCEPT ![p] = None]
    /\ want' = [want EXCEPT ![p] = None]
    /\ UNCHANGED <<blockno, data, ideVars, history>>

\* kill() makes a process runnable whatever it sleeps on.
Kill(p) == /\ \/ pc[p] = "get_sleep" /\ pc' = [pc EXCEPT ![p] = "get"]
              \/ pc[p] = "io_sleep" /\ pc' = [pc EXCEPT ![p] = "io_test"]
           /\ UNCHANGED <<bufVars, ideVars, want, have, history>>

-----------------------------------------------------------------------------
ProcStep(p) == IoTest(p) \/ BgetHit(p) \/ BgetSleep(p) \/ BgetRecycle(p)
               \/ BgetPanic(p)

Next == \/ \E p \in Proc :
              \/ ProcStep(p) \/ Brelse(p) \/ Kill(p)
              \/ \E b \in Blocks : Bread(p, b)
              \/ \E v \in Val : Bwrite(p, v) \/ LogWrite(p, v)
        \/ IdeIntr(FALSE)
        \/ DiskErrors /\ IdeIntr(TRUE)

Spec == Init /\ [][Next]_vars

(* The drive answers every request, runnable processes run, and a process  *)
(* that holds a buffer releases it.  A holder may bwrite() any number of   *)
(* times before that, so its release needs strong fairness.                *)
Fairness == /\ WF_vars(IdeIntr(FALSE))
            /\ \A p \in Proc : WF_vars(ProcStep(p)) /\ SF_vars(Brelse(p))

LiveSpec == Spec /\ Fairness

-----------------------------------------------------------------------------
(* Properties *)

\* Types; the LRU list always holds every buffer exactly once, and a request
\* is queued at most once.
TypeOK == /\ blockno \in [Buf -> Blocks \cup {None}]
          /\ flags \in [Buf -> SUBSET {"BUSY", "VALID", "DIRTY"}]
          /\ data \in [Buf -> Val]
          /\ lru \in Seq(Buf) /\ IsInjective(lru) /\ ToSet(lru) = Buf
          /\ idequeue \in Seq(Buf) /\ IsInjective(idequeue)
          /\ started \in BOOLEAN
          /\ disk \in [Blocks -> Val]
          /\ pc \in [Proc -> Phase]
          /\ want \in [Proc -> Blocks \cup {None}]
          /\ have \in [Proc -> Buf \cup {None}]
          /\ latest \in [Blocks -> Val]
          /\ failed \subseteq Buf

Holding(p) == pc[p] \in {"hold", "io_test", "io_sleep"}

\* A block is never in two buffers, although bget() gives up bcache.lock while
\* it sleeps and the buffer it slept on may have been recycled (bio.c:78-79).
OneBufferPerBlock == \A x, y \in Buf : blockno[x] = blockno[y] /\ x # y
                                           => blockno[x] = None

\* Only one process at a time can use a buffer (bio.c:13), it holds the block
\* it asked for, and the buffer is B_BUSY, so that bwrite, brelse and iderw
\* do not panic.
ExclusiveUse == \A p \in Proc : Holding(p) =>
                   /\ blockno[have[p]] = want[p]
                   /\ "BUSY" \in flags[have[p]]
                   /\ \A q \in Proc \ {p} : Holding(q) => have[q] # have[p]

\* bread() returns what was last written to the block, by whichever process,
\* and whether it was written to disk, pinned, or recycled since.  The one
\* exception: after a read error ideintr() sets B_VALID all the same, so the
\* buffer keeps what it held before until it is written or recycled.
ReadsLatest == \A p \in Proc : pc[p] = "hold" /\ have[p] \notin failed
                                  => data[have[p]] = latest[want[p]]

\* A process asleep in bget() waits for a buffer that is in use, one asleep in
\* iderw() for a request that is queued: the wakeup is still to come.
WakeupToCome == \A p \in Proc :
                   /\ pc[p] = "get_sleep" => "BUSY" \in flags[have[p]]
                   /\ pc[p] = "io_sleep" => have[p] \in ToSet(idequeue)

\* Every request is answered: iderw() returns, whatever else is queued, also
\* when kill() wakes the process too early.
RequestsEnd == \A p \in Proc : pc[p] \in {"io_test", "io_sleep"} ~> pc[p] = "hold"

\* A process waiting for a buffer gets to look again.
GetWoken == \A p \in Proc : pc[p] = "get_sleep" ~> pc[p] # "get_sleep"

\* What makes it safe to use a buffer without bcache.lock: a block is in one
\* buffer, the buffer belongs to one process, and whoever sleeps for either
\* still has its wakeup to come, through every recycling during a sleep.
CacheInv == TypeOK /\ OneBufferPerBlock /\ ExclusiveUse /\ WakeupToCome

\* Nobody sleeps for ever in bget() or iderw(): requests are answered and
\* buffers passed on, also past kills and read errors.
WaitsEnd == RequestsEnd /\ GetWoken
=============================================================================
