-------------------------------- MODULE Pipe --------------------------------
(***************************************************************************)
(* A pipe (pipe.c) shared by processes through the file table (file.c):    *)
(* fork() duplicates the two ends, close() drops them, the last close of   *)
(* an end shuts it, the last of both frees the pipe, and several readers   *)
(* and writers sleep on p->nread and p->nwrite.  A section under p->lock   *)
(* is one action; sleep() is two, because kill() takes ptable.lock only    *)
(* and can strike between the test of proc->killed and the sleep.          *)
(***************************************************************************)
EXTENDS Naturals, FiniteSets, FiniteSetsExt

CONSTANTS Proc,      \* process slots
          First,     \* the process that called pipe()
          Killable,  \* processes that may be killed
          PIPESIZE,
          UINT,      \* nread and nwrite wrap around at this value
          WriteSizes, ReadSizes,  \* lengths of the calls
          MaxBytes   \* bound on the bytes ever written

ASSUME PipeAssumption == /\ IsFiniteSet(Proc)
                         /\ First \in Proc /\ Killable \subseteq Proc
                         /\ PIPESIZE \in Nat \ {0} /\ UINT \in Nat
                         /\ UINT % PIPESIZE = 0 /\ UINT > PIPESIZE
                         /\ WriteSizes \cup ReadSizes \subseteq Nat \ {0}
                         /\ MaxBytes \in Nat

VARIABLES data,       \* p->data; a byte is its position in the stream
          nread, nwrite, readopen, writeopen,
          freed,      \* has the page been given to kfree()?
          ref,        \* f->ref of the file of each end
          holds,      \* the ends each process has open
          pc,         \* where each process is
          left,       \* bytes of the current call still to do
          killed,
          sent, got,  \* history: bytes ever written, ever read
          untold      \* history: a killed writer stored bytes and woke nobody

pipeVars == <<data, nread, nwrite, readopen, writeopen, freed>>
fileVars == <<ref, holds>>
history == <<sent, got, untold>>
vars == <<pipeVars, fileVars, pc, left, killed, history>>

End == {"r", "w"}
Phase == {"none", "user", "read", "read_doze", "read_sleep",
          "write", "write_doze", "write_sleep", "close_r", "close_w"}

\* After pipealloc() and sys_pipe().
Init == /\ data = [i \in 0..(PIPESIZE - 1) |-> 0]
        /\ nread = 0 /\ nwrite = 0
        /\ readopen = TRUE /\ writeopen = TRUE /\ freed = FALSE
        /\ ref = [e \in End |-> 1]
        /\ holds = [p \in Proc |-> IF p = First THEN End ELSE {}]
        /\ pc = [p \in Proc |-> IF p = First THEN "user" ELSE "none"]
        /\ left = [p \in Proc |-> 0]
        /\ killed = [p \in Proc |-> FALSE]
        /\ sent = 0 /\ got = 0 /\ untold = FALSE

\* Mutant of Unlocked: p->lock is given up before sleep() has ptable.lock.
UnlockedEarly == TRUE

\* A process between its test and its sleep holds p->lock.
Unlocked == \A p \in Proc : pc[p] \notin {"read_doze", "write_doze"}

Empty == nread = nwrite
Full == nwrite = (nread + PIPESIZE) % UINT
Stored == (nwrite + UINT - nread) % UINT
\* Mutant of Room: the test for a full pipe comes one byte late.
RoomOffByOne == (nread + PIPESIZE + 1 + UINT - nwrite) % UINT
Room == (nread + PIPESIZE + UINT - nwrite) % UINT

\* Phases after wakeup(&p->nread), and after wakeup(&p->nwrite).
WakeReaders(phase) == [q \in Proc |-> IF phase[q] = "read_sleep" THEN "read" ELSE phase[q]]
WakeWriters(phase) == [q \in Proc |-> IF phase[q] = "write_sleep" THEN "write" ELSE phase[q]]

-----------------------------------------------------------------------------
(* File descriptors *)

\* A killed process only gets to run exit(), which closes what it holds.
CanCall(p) == pc[p] = "user" /\ ~killed[p]

\* fork(): filedup() for every open end.
Fork(p, q) == /\ CanCall(p) /\ pc[q] = "none"
              /\ pc' = [pc EXCEPT ![q] = "user"]
              /\ holds' = [holds EXCEPT ![q] = holds[p]]
              /\ ref' = [e \in End |-> IF e \in holds[p] THEN ref[e] + 1 ELSE ref[e]]
              /\ UNCHANGED <<pipeVars, left, killed, history>>

\* Mutant of Close: the reference count is not looked at.
CloseIgnoresRef(p, e) ==
    /\ pc[p] = "user" /\ e \in holds[p]
    /\ holds' = [holds EXCEPT ![p] = @ \ {e}]
    /\ ref' = [ref EXCEPT ![e] = @ - 1]
    /\ pc' = [pc EXCEPT ![p] = IF e = "r" THEN "close_r" ELSE "close_w"]
    /\ UNCHANGED <<pipeVars, left, killed, history>>

\* fileclose(), up to the release of ftable.lock.
Close(p, e) ==
    /\ pc[p] = "user" /\ e \in holds[p]
    /\ holds' = [holds EXCEPT ![p] = @ \ {e}]
    /\ ref' = [ref EXCEPT ![e] = @ - 1]
    /\ pc' = [pc EXCEPT ![p] = IF ref[e] > 1 THEN "user"
                               ELSE IF e = "r" THEN "close_r" ELSE "close_w"]
    /\ UNCHANGED <<pipeVars, left, killed, history>>

\* Mutant of PipeClose: the wakeups are the wrong way round.
PipeCloseWrongWakeup(p) ==
    /\ pc[p] \in {"close_r", "close_w"} /\ Unlocked
    /\ IF pc[p] = "close_w"
       THEN /\ writeopen' = FALSE /\ UNCHANGED readopen
            /\ pc' = WakeWriters([pc EXCEPT ![p] = "user"])
       ELSE /\ readopen' = FALSE /\ UNCHANGED writeopen
            /\ pc' = WakeReaders([pc EXCEPT ![p] = "user"])
    /\ freed' = (~readopen' /\ ~writeopen')
    /\ untold' = (untold /\ pc[p] = "close_r")
    /\ UNCHANGED <<data, nread, nwrite, fileVars, left, killed, sent, got>>

\* pipeclose(), called for the last reference.
PipeClose(p) ==
    /\ pc[p] \in {"close_r", "close_w"} /\ Unlocked
    /\ IF pc[p] = "close_w"
       THEN /\ writeopen' = FALSE /\ UNCHANGED readopen
            /\ pc' = WakeReaders([pc EXCEPT ![p] = "user"])
       ELSE /\ readopen' = FALSE /\ UNCHANGED writeopen
            /\ pc' = WakeWriters([pc EXCEPT ![p] = "user"])
    /\ freed' = (~readopen' /\ ~writeopen')
    /\ untold' = (untold /\ pc[p] = "close_r")
    /\ UNCHANGED <<data, nread, nwrite, fileVars, left, killed, sent, got>>

\* exit(), once everything is closed.
Exit(p) == /\ pc[p] = "user" /\ holds[p] = {}
           /\ pc' = [pc EXCEPT ![p] = "none"]
           /\ killed' = [killed EXCEPT ![p] = FALSE]
           /\ UNCHANGED <<pipeVars, fileVars, left, history>>

-----------------------------------------------------------------------------
(* pipewrite() *)

CallWrite(p, n) == /\ CanCall(p) /\ "w" \in holds[p]
                   /\ sent + n <= MaxBytes
                   /\ pc' = [pc EXCEPT ![p] = "write"]
                   /\ left' = [left EXCEPT ![p] = n]
                   /\ UNCHANGED <<pipeVars, fileVars, killed, history>>

\* k bytes go to data[nwrite++ % PIPESIZE].
Put(k) ==
    /\ data' = [i \in DOMAIN data |->
                  IF \E j \in 0..(k - 1) : i = (nwrite + j) % PIPESIZE
                  THEN sent + (CHOOSE j \in 0..(k - 1) : i = (nwrite + j) % PIPESIZE)
                  ELSE data[i]]
    /\ nwrite' = (nwrite + k) % UINT
    /\ sent' = sent + k

\* Mutant of WriteAll: the readers are not woken.
WriteAllNoWakeup(p) ==
               /\ pc[p] = "write" /\ Unlocked
               /\ left[p] <= Room
               /\ Put(left[p])
               /\ left' = [left EXCEPT ![p] = 0]
               /\ pc' = [pc EXCEPT ![p] = "user"]
               /\ untold' = FALSE
               /\ UNCHANGED <<nread, readopen, writeopen, freed, fileVars,
                              killed, got>>

\* The rest of the call fits: copy it, wake the readers, return n.
WriteAll(p) == /\ pc[p] = "write" /\ Unlocked
               /\ left[p] <= Room
               /\ Put(left[p])
               /\ left' = [left EXCEPT ![p] = 0]
               /\ pc' = WakeReaders([pc EXCEPT ![p] = "user"])
               /\ untold' = FALSE
               /\ UNCHANGED <<nread, readopen, writeopen, freed, fileVars,
                              killed, got>>

\* The pipe fills up first: give up, or wake the readers and sleep.
WriteFull(p) ==
    /\ pc[p] = "write" /\ Unlocked
    /\ left[p] > Room
    /\ Put(Room)
    /\ IF ~readopen \/ killed[p]
       THEN /\ left' = [left EXCEPT ![p] = 0]
            /\ pc' = [pc EXCEPT ![p] = "user"]
            /\ untold' = (untold \/ (killed[p] /\ Room > 0))
       ELSE /\ left' = [left EXCEPT ![p] = @ - Room]
            /\ pc' = WakeReaders([pc EXCEPT ![p] = "write_doze"])
            /\ untold' = FALSE
    /\ UNCHANGED <<nread, readopen, writeopen, freed, fileVars, killed, got>>

-----------------------------------------------------------------------------
(* piperead() *)

CallRead(p, n) == /\ CanCall(p) /\ "r" \in holds[p]
                  /\ pc' = [pc EXCEPT ![p] = "read"]
                  /\ left' = [left EXCEPT ![p] = n]
                  /\ UNCHANGED <<pipeVars, fileVars, killed, history>>

ReadEmpty(p) ==
    /\ pc[p] = "read" /\ Unlocked
    /\ Empty /\ writeopen
    /\ pc' = [pc EXCEPT ![p] = IF killed[p] THEN "user" ELSE "read_doze"]
    /\ left' = [left EXCEPT ![p] = IF killed[p] THEN 0 ELSE @]
    /\ UNCHANGED <<pipeVars, fileVars, killed, history>>

\* Mutant of ReadSome: the writers are not woken.
ReadSomeNoWakeup(p) ==
    /\ pc[p] = "read" /\ Unlocked
    /\ ~(Empty /\ writeopen)
    /\ LET k == Min({left[p], Stored})
       IN  nread' = (nread + k) % UINT /\ got' = got + k
    /\ left' = [left EXCEPT ![p] = 0]
    /\ pc' = [pc EXCEPT ![p] = "user"]
    /\ UNCHANGED <<data, nwrite, readopen, writeopen, freed, fileVars, killed,
                   sent, untold>>

\* Copy what there is (nothing at end of file), wake the writers.
ReadSome(p) ==
    /\ pc[p] = "read" /\ Unlocked
    /\ ~(Empty /\ writeopen)
    /\ LET k == Min({left[p], Stored})
       IN  nread' = (nread + k) % UINT /\ got' = got + k
    /\ left' = [left EXCEPT ![p] = 0]
    /\ pc' = WakeWriters([pc EXCEPT ![p] = "user"])
    /\ UNCHANGED <<data, nwrite, readopen, writeopen, freed, fileVars, killed,
                   sent, untold>>

-----------------------------------------------------------------------------
(* sleep() and kill() *)

\* sleep() has ptable.lock: the process sleeps and p->lock is free.
Doze(p) == /\ \/ pc[p] = "read_doze" /\ pc' = [pc EXCEPT ![p] = "read_sleep"]
              \/ pc[p] = "write_doze" /\ pc' = [pc EXCEPT ![p] = "write_sleep"]
           /\ UNCHANGED <<pipeVars, fileVars, left, killed, history>>

Kill(p) == /\ pc[p] # "none" /\ ~killed[p]
           /\ killed' = [killed EXCEPT ![p] = TRUE]
           /\ pc' = [pc EXCEPT ![p] = IF @ = "read_sleep" THEN "read"
                                      ELSE IF @ = "write_sleep" THEN "write" ELSE @]
           /\ UNCHANGED <<pipeVars, fileVars, left, history>>

-----------------------------------------------------------------------------
Step(p) == PipeClose(p) \/ WriteAll(p) \/ WriteFull(p) \/ ReadEmpty(p)
           \/ ReadSome(p) \/ Doze(p)

Next == \/ \E p \in Proc : \/ Step(p) \/ Exit(p)
                           \/ \E q \in Proc : Fork(p, q)
                           \/ \E e \in End : Close(p, e)
                           \/ \E n \in WriteSizes : CallWrite(p, n)
                           \/ \E n \in ReadSizes : CallRead(p, n)
        \/ \E p \in Killable : Kill(p)

Spec == Init /\ [][Next]_vars

\* A process that has entered pipe.c and can run does run.
Fairness == \A p \in Proc : WF_vars(Step(p))

LiveSpec == Spec /\ Fairness

-----------------------------------------------------------------------------
(* Properties *)

\* Types; at most one process holds p->lock.
TypeOK == /\ data \in [0..(PIPESIZE - 1) -> Nat]
          /\ nread \in 0..(UINT - 1) /\ nwrite \in 0..(UINT - 1)
          /\ {readopen, writeopen, freed} \subseteq BOOLEAN
          /\ ref \in [End -> 0..Cardinality(Proc)]
          /\ holds \in [Proc -> SUBSET End]
          /\ pc \in [Proc -> Phase]
          /\ left \in [Proc -> Nat]
          /\ killed \in [Proc -> BOOLEAN]
          /\ sent \in Nat /\ got \in Nat /\ untold \in BOOLEAN
          /\ \A p, q \in Proc : {pc[p], pc[q]} \subseteq {"read_doze", "write_doze"} => p = q

\* The pipe is a queue: what has been written and not read is in data, in
\* order, and no unread byte is overwritten, also when nread and nwrite have
\* wrapped around and whichever readers and writers took part.
IsQueue == /\ sent - got = Stored /\ Stored <= PIPESIZE
           /\ \A i \in 0..(Stored - 1) : data[(nread + i) % PIPESIZE] = got + i

\* The pipe's page is freed exactly once, when nobody can reach it any more:
\* no process is inside pipe.c or still holds an end.
FreedUnreachable == /\ \A e \in End : ref[e] = Cardinality({p \in Proc : e \in holds[p]})
                    /\ freed => \A p \in Proc : holds[p] = {} /\ pc[p] \in {"none", "user"}

\* A writer sleeps only while the pipe is full and somebody could read it.
WriterNotStranded == \A p \in Proc : pc[p] = "write_sleep" => Full /\ readopen

\* A reader sleeps only while the pipe is empty and somebody could write to it,
\* with one exception: pipewrite() fills the pipe, finds the writer killed and
\* returns before either of its wakeups (pipe.c:85-87).
ReaderNotStranded == \A p \in Proc :
                        pc[p] = "read_sleep" => writeopen /\ (Empty \/ untold)

\* End of file reaches every reader: once the write end is shut, reads return.
EofReaches == \A p \in Proc :
                 (~writeopen /\ pc[p] \in {"read", "read_doze", "read_sleep"})
                    ~> (pc[p] \in {"user", "none"})

\* A writer that nobody can read from any more is told so.
BrokenPipeReaches == \A p \in Proc :
                 (~readopen /\ pc[p] \in {"write", "write_doze", "write_sleep"})
                    ~> (pc[p] \in {"user", "none"})

\* The pipe is a queue in memory that is still its own: bytes come out once and
\* in order, and pipeclose() frees the page only when nobody can reach it.
PipeInv == TypeOK /\ IsQueue /\ FreedUnreachable

\* No wakeup is lost: who sleeps in pipewrite() or piperead() has nothing to do,
\* but for the reader of what a killed writer left.
NoneStranded == WriterNotStranded /\ ReaderNotStranded

\* Closing one end reaches everybody who sleeps at the other.
ClosingReaches == EofReaches /\ BrokenPipeReaches
=============================================================================
