-------------------------------- MODULE Proc --------------------------------
(***************************************************************************)
(* The process table (proc.c) and the parts of trap.c and sysproc.c that   *)
(* drive it: fork, exit, wait, kill, sleep, wakeup, yield, and a scheduler *)
(* per CPU.  Every section under ptable.lock is one action; swtch() hands  *)
(* the lock over, so a process that sleeps, yields or exits leaves its CPU *)
(* in the same action.  A process takes a step only while it is RUNNING.   *)
(* Slots are 1..NPROC in table order, slot 1 is initproc.                  *)
(***************************************************************************)
EXTENDS Integers, FiniteSets, FiniteSetsExt

CONSTANTS NPROC,    \* size of the process table
          CPU,      \* processors
          Devices,  \* channels whose wakeup may never come (pipe, console)
          Targets,  \* arguments of kill()
          MaxPid    \* bound: the model stops forking at this pid

ASSUME ProcAssumption == /\ NPROC \in Nat \ {0}
                         /\ IsFiniteSet(CPU)
                         /\ MaxPid \in Nat \ {0}
                         /\ \A d \in Devices : d \in Nat /\ d > NPROC + 1

VARIABLES state,    \* p->state
          pid,      \* p->pid
          parent,   \* p->parent, 0 for none
          killed,   \* p->killed
          chan,     \* p->chan, 0 for none
          pc,       \* where a process is in the kernel
          cpu,      \* the process each CPU runs, 0 in its scheduler
          pos,      \* the scheduler loop's position in the table
          nextpid

vars == <<state, pid, parent, killed, chan, pc, cpu, pos, nextpid>>

Slot == 1..NPROC
initproc == 1
ticks == NPROC + 1    \* a channel is an address: a slot, &ticks, a device
State == {"UNUSED", "EMBRYO", "SLEEPING", "RUNNABLE", "RUNNING", "ZOMBIE"}
Channel == (0..NPROC) \cup Devices \cup {ticks}
Phase == {"user", "ret", "wait", "block", "sleep", "exit", "panic"}

Init == /\ state = [s \in Slot |-> IF s = initproc THEN "RUNNABLE" ELSE "UNUSED"]
        /\ pid = [s \in Slot |-> IF s = initproc THEN 1 ELSE 0]
        /\ parent = [s \in Slot |-> 0]
        /\ killed = [s \in Slot |-> FALSE]
        /\ chan = [s \in Slot |-> 0]
        /\ pc = [s \in Slot |-> "user"]
        /\ cpu = [c \in CPU |-> 0]
        /\ pos = [c \in CPU |-> 0]
        /\ nextpid = 2

-----------------------------------------------------------------------------
(* Scheduling *)

\* The rest of this pass over the table: the first RUNNABLE process runs.
Ahead(c) == {s \in Slot : s > pos[c] /\ state[s] = "RUNNABLE"}

Schedule(c) ==
    /\ cpu[c] = 0
    /\ Ahead(c) # {}
    /\ LET s == Min(Ahead(c))
       IN  /\ cpu' = [cpu EXCEPT ![c] = s]
           /\ pos' = [pos EXCEPT ![c] = s]
           /\ state' = [state EXCEPT ![s] = "RUNNING"]
           /\ chan' = [chan EXCEPT ![s] = 0]
    /\ UNCHANGED <<pid, parent, killed, pc, nextpid>>

\* The end of a pass: ptable.lock is released, the next pass starts at slot 1.
\* Mutant: the loop variable survives the end of a pass.
NextPassKeepPos(c) == /\ cpu[c] = 0
                      /\ Ahead(c) = {}
                      /\ pos[c] = NPROC
                      /\ pos' = [pos EXCEPT ![c] = 0]
                      /\ UNCHANGED <<state, pid, parent, killed, chan, pc, cpu,
                                     nextpid>>

NextPass(c) == /\ cpu[c] = 0
               /\ Ahead(c) = {}
               /\ pos[c] # 0
               /\ pos' = [pos EXCEPT ![c] = 0]
               /\ UNCHANGED <<state, pid, parent, killed, chan, pc, cpu,
                              nextpid>>

\* sched(): the process leaves its CPU, in the state the caller set.
Leave(s) == cpu' = [c \in CPU |-> IF cpu[c] = s THEN 0 ELSE cpu[c]]

\* wakeup1(ch), applied to the process states st.
Wakeup1(ch, st) == [s \in Slot |-> IF st[s] = "SLEEPING" /\ chan[s] = ch
                                   THEN "RUNNABLE" ELSE st[s]]

Running(s) == state[s] = "RUNNING"

\* Mutant: neither test of killed is made around an interrupt.
TimerIgnoresKilled(s) ==
    /\ Running(s) /\ pc[s] \notin {"sleep", "panic"}
    /\ state' = [state EXCEPT ![s] = "RUNNABLE"]
    /\ Leave(s)
    /\ UNCHANGED <<pid, parent, killed, chan, pc, pos, nextpid>>

\* The timer interrupt: a killed process in user space exits, any other
\* process yields; back from yield() in user space the test is made again.
\* Interrupts are off while a lock is held ("sleep") and after panic().
Timer(s) ==
    /\ Running(s) /\ pc[s] \notin {"sleep", "panic"}
    /\ IF pc[s] = "user" /\ killed[s]
       THEN pc' = [pc EXCEPT ![s] = "exit"] /\ UNCHANGED <<state, cpu>>
       ELSE /\ state' = [state EXCEPT ![s] = "RUNNABLE"]
            /\ Leave(s)
            /\ pc' = [pc EXCEPT ![s] = IF @ = "user" THEN "ret" ELSE @]
    /\ UNCHANGED <<pid, parent, killed, chan, pos, nextpid>>

\* On CPU 0 the timer interrupt also wakes sys_sleep(); a device wakes the
\* processes that wait for it.
Wakeup(ch) == /\ state' = Wakeup1(ch, state)
              /\ state' # state
              /\ UNCHANGED <<pid, parent, killed, chan, pc, cpu, pos, nextpid>>

-----------------------------------------------------------------------------
(* Entering and leaving the kernel *)

\* The test in trap() before a system call.
SyscallKilled(s) == /\ Running(s) /\ pc[s] = "user" /\ killed[s]
                    /\ pc' = [pc EXCEPT ![s] = "exit"]
                    /\ UNCHANGED <<state, pid, parent, killed, chan, cpu, pos,
                                   nextpid>>

Syscall(s) == Running(s) /\ pc[s] = "user" /\ ~killed[s]

\* The test in trap() after a system call or a yield.
Return(s) == /\ Running(s) /\ pc[s] = "ret"
             /\ pc' = [pc EXCEPT ![s] = IF killed[s] THEN "exit" ELSE "user"]
             /\ UNCHANGED <<state, pid, parent, killed, chan, cpu, pos, nextpid>>

\* A fault in user space: killed = 1, and exit() follows in the same trap.
Fault(s) == /\ Running(s) /\ pc[s] = "user" /\ s # initproc
            /\ killed' = [killed EXCEPT ![s] = TRUE]
            /\ pc' = [pc EXCEPT ![s] = "exit"]
            /\ UNCHANGED <<state, pid, parent, chan, cpu, pos, nextpid>>

-----------------------------------------------------------------------------
(* fork() *)

Unused == {s \in Slot : state[s] = "UNUSED"}

ForkNoSlot(s) == /\ Syscall(s)
                 /\ Unused = {}
                 /\ pc' = [pc EXCEPT ![s] = "ret"]
                 /\ UNCHANGED <<state, pid, parent, killed, chan, cpu, pos,
                                nextpid>>

\* Mutant: the failed slot is not given back.
ForkLeavesEmbryo(s) == /\ Syscall(s)
                       /\ Unused # {}
                       /\ nextpid <= MaxPid
                       /\ pid' = [pid EXCEPT ![Min(Unused)] = nextpid]
                       /\ state' = [state EXCEPT ![Min(Unused)] = "EMBRYO"]
                       /\ nextpid' = nextpid + 1
                       /\ pc' = [pc EXCEPT ![s] = "ret"]
                       /\ UNCHANGED <<parent, killed, chan, cpu, pos>>

\* allocproc() took a slot and a pid, then kalloc() or copyuvm() failed: the
\* slot is UNUSED again, its pid stays.
ForkNoMemory(s) == /\ Syscall(s)
                   /\ Unused # {}
                   /\ nextpid <= MaxPid
                   /\ pid' = [pid EXCEPT ![Min(Unused)] = nextpid]
                   /\ nextpid' = nextpid + 1
                   /\ pc' = [pc EXCEPT ![s] = "ret"]
                   /\ UNCHANGED <<state, parent, killed, chan, cpu, pos>>

Fork(s) ==
    /\ Syscall(s)
    /\ Unused # {}
    /\ nextpid <= MaxPid
    /\ LET n == Min(Unused)
       IN  /\ pid' = [pid EXCEPT ![n] = nextpid]
           /\ parent' = [parent EXCEPT ![n] = s]
           /\ state' = [state EXCEPT ![n] = "RUNNABLE"]
           /\ pc' = [pc EXCEPT ![n] = "user", ![s] = "ret"]
    /\ nextpid' = nextpid + 1
    /\ UNCHANGED <<killed, chan, cpu, pos>>

-----------------------------------------------------------------------------
(* exit() and wait() *)

\* exit() panics for init; otherwise it closes files and puts the directory,
\* which may sleep, before it takes ptable.lock.
CallExit(s) == /\ Syscall(s)
               /\ s # initproc
               /\ pc' = [pc EXCEPT ![s] = "exit"]
               /\ UNCHANGED <<state, pid, parent, killed, chan, cpu, pos,
                              nextpid>>

Children(s) == {k \in Slot : parent[k] = s}

\* Mutant: the parent is not told.
ExitNoWakeup(s) ==
    /\ Running(s) /\ pc[s] = "exit" /\ s # initproc
    /\ state' = [state EXCEPT ![s] = "ZOMBIE"]
    /\ parent' = [k \in Slot |-> IF k \in Children(s) THEN initproc ELSE parent[k]]
    /\ Leave(s)
    /\ UNCHANGED <<pc, pid, killed, chan, pos, nextpid>>

\* Mutant: children that are zombies already are left behind.
ExitKeepsZombies(s) ==
    /\ Running(s) /\ pc[s] = "exit" /\ s # initproc
    /\ state' = [Wakeup1(parent[s], state) EXCEPT ![s] = "ZOMBIE"]
    /\ parent' = [k \in Slot |-> IF k \in Children(s) /\ state[k] # "ZOMBIE"
                                 THEN initproc ELSE parent[k]]
    /\ Leave(s)
    /\ UNCHANGED <<pc, pid, killed, chan, pos, nextpid>>

Exit(s) ==
    /\ Running(s) /\ pc[s] = "exit"
    /\ IF s = initproc
       THEN pc' = [pc EXCEPT ![s] = "panic"] /\ UNCHANGED <<state, parent, cpu>>
       ELSE /\ LET told == Wakeup1(parent[s], state)
                   orphans == \E k \in Children(s) : state[k] = "ZOMBIE"
                   next == IF orphans THEN Wakeup1(initproc, told) ELSE told
               IN  state' = [next EXCEPT ![s] = "ZOMBIE"]
            /\ parent' = [k \in Slot |-> IF k \in Children(s) THEN initproc
                                                              ELSE parent[k]]
            /\ Leave(s)
            /\ UNCHANGED pc
    /\ UNCHANGED <<pid, killed, chan, pos, nextpid>>

CallWait(s) == /\ Syscall(s)
               /\ pc' = [pc EXCEPT ![s] = "wait"]
               /\ UNCHANGED <<state, pid, parent, killed, chan, cpu, pos,
                              nextpid>>

Zombies(s) == {k \in Children(s) : state[k] = "ZOMBIE"}

\* One round of wait()'s loop: reap a child, give up, or sleep.
WaitReap(s) ==
    /\ Running(s) /\ pc[s] = "wait"
    /\ Zombies(s) # {}
    /\ LET k == Min(Zombies(s))
       IN  /\ pid' = [pid EXCEPT ![k] = 0]
           /\ parent' = [parent EXCEPT ![k] = 0]
           /\ killed' = [killed EXCEPT ![k] = FALSE]
           /\ state' = [state EXCEPT ![k] = "UNUSED"]
           /\ pc' = [pc EXCEPT ![s] = "ret", ![k] = "user"]
    /\ UNCHANGED <<chan, cpu, pos, nextpid>>

WaitGiveUp(s) ==
    /\ Running(s) /\ pc[s] = "wait"
    /\ Zombies(s) = {}
    /\ Children(s) = {} \/ killed[s]
    /\ pc' = [pc EXCEPT ![s] = "ret"]
    /\ UNCHANGED <<state, pid, parent, killed, chan, cpu, pos, nextpid>>

WaitSleep(s) ==
    /\ Running(s) /\ pc[s] = "wait"
    /\ Zombies(s) = {}
    /\ Children(s) # {} /\ ~killed[s]
    /\ chan' = [chan EXCEPT ![s] = s]
    /\ state' = [state EXCEPT ![s] = "SLEEPING"]
    /\ Leave(s)
    /\ UNCHANGED <<pid, parent, killed, pc, pos, nextpid>>

-----------------------------------------------------------------------------
(* A blocking system call: sys_sleep(), or a read or write of a pipe or the *)
(* console.  Under the lock of its own condition it loops: return when the  *)
(* condition holds, return -1 when killed, else sleep().  sleep() takes     *)
(* ptable.lock only after the test of killed.                               *)

CallBlock(s) == /\ Syscall(s)
                /\ s # initproc
                /\ pc' = [pc EXCEPT ![s] = "block"]
                /\ UNCHANGED <<state, pid, parent, killed, chan, cpu, pos,
                               nextpid>>

BlockTest(s) == /\ Running(s) /\ pc[s] = "block"
                /\ pc' = [pc EXCEPT ![s] = IF killed[s] THEN "ret" ELSE "sleep"]
                /\ UNCHANGED <<state, pid, parent, killed, chan, cpu, pos,
                               nextpid>>

BlockDone(s) == /\ Running(s) /\ pc[s] = "block"
                /\ pc' = [pc EXCEPT ![s] = "ret"]
                /\ UNCHANGED <<state, pid, parent, killed, chan, cpu, pos,
                               nextpid>>

Sleep(s) == /\ Running(s) /\ pc[s] = "sleep"
            /\ \E ch \in Devices \cup {ticks} : chan' = [chan EXCEPT ![s] = ch]
            /\ state' = [state EXCEPT ![s] = "SLEEPING"]
            /\ pc' = [pc EXCEPT ![s] = "block"]
            /\ Leave(s)
            /\ UNCHANGED <<pid, parent, killed, pos, nextpid>>

\* Mutant: kill() makes its target RUNNABLE whatever it is doing.
KillWakesAny(s, k) ==
    /\ Syscall(s)
    /\ LET hit == {t \in Slot : pid[t] = k}
       IN  /\ hit # {}
           /\ killed' = [killed EXCEPT ![Min(hit)] = TRUE]
           /\ state' = [state EXCEPT ![Min(hit)] = "RUNNABLE"]
    /\ pc' = [pc EXCEPT ![s] = "ret"]
    /\ UNCHANGED <<pid, parent, chan, cpu, pos, nextpid>>

\* kill(k): the first slot with that pid, whatever its state.
Kill(s, k) ==
    /\ Syscall(s)
    /\ LET hit == {t \in Slot : pid[t] = k}
       IN  IF hit = {}
           THEN UNCHANGED <<killed, state>>
           ELSE /\ killed' = [killed EXCEPT ![Min(hit)] = TRUE]
                /\ state' = [state EXCEPT ![Min(hit)] =
                                IF @ = "SLEEPING" THEN "RUNNABLE" ELSE @]
    /\ pc' = [pc EXCEPT ![s] = "ret"]
    /\ UNCHANGED <<pid, parent, chan, cpu, pos, nextpid>>

-----------------------------------------------------------------------------
\* What a process inside the kernel goes on to do by itself.
Kernel(s) == \/ Return(s) \/ Exit(s)
             \/ WaitReap(s) \/ WaitGiveUp(s) \/ WaitSleep(s)
             \/ BlockTest(s) \/ Sleep(s)

User(s) == \/ SyscallKilled(s) \/ Fault(s)
           \/ ForkNoSlot(s) \/ ForkNoMemory(s) \/ Fork(s)
           \/ CallExit(s) \/ CallWait(s) \/ CallBlock(s)
           \/ \E k \in Targets : Kill(s, k)

Next == \/ \E c \in CPU : Schedule(c) \/ NextPass(c)
        \/ \E s \in Slot : Timer(s) \/ User(s) \/ Kernel(s) \/ BlockDone(s)
        \/ \E ch \in Devices \cup {ticks} : Wakeup(ch)

Spec == Init /\ [][Next]_vars

\* CPUs keep running, the timer keeps ticking, a process that gets the CPU
\* again and again advances in the kernel (hence SF: the timer may interrupt
\* it between two steps), and init keeps calling wait() (init.c).  Nothing is
\* said of the devices: a key may never be pressed.
Fairness == /\ \A c \in CPU : WF_vars(Schedule(c)) /\ WF_vars(NextPass(c))
            /\ \A s \in Slot : WF_vars(Timer(s)) /\ SF_vars(Kernel(s))
            /\ WF_vars(Wakeup(ticks))
            /\ SF_vars(CallWait(initproc))

LiveSpec == Spec /\ Fairness

-----------------------------------------------------------------------------
(* Properties *)

\* Every field is in range, and no slot is left EMBRYO outside of
\* ptable.lock: allocproc() and fork() give back a slot they cannot fill.
TypeOK == /\ state \in [Slot -> State \ {"EMBRYO"}]
          /\ pid \in [Slot -> 0..MaxPid]
          /\ parent \in [Slot -> 0..NPROC]
          /\ killed \in [Slot -> BOOLEAN]
          /\ chan \in [Slot -> Channel]
          /\ pc \in [Slot -> Phase]
          /\ cpu \in [CPU -> 0..NPROC]
          /\ pos \in [CPU -> 0..NPROC]
          /\ nextpid \in 1..(MaxPid + 1)

\* A RUNNING process is on exactly one CPU, and a CPU runs no other process:
\* neither wakeup() nor kill() may make a process RUNNABLE under its CPU's
\* feet, or a second scheduler would resume it on the same kernel stack.
OneCpuEach == \A s \in Slot : Cardinality({c \in CPU : cpu[c] = s}) =
                                 IF Running(s) THEN 1 ELSE 0

\* Somebody can always reap a process: its parent is neither a free slot nor
\* a zombie, through every order of fork, exit and wait (exit() hands
\* children, zombies among them, to init), and a free slot has no parent.
SomeoneReaps == \A s \in Slot \ {initproc} :
                   IF state[s] = "UNUSED" THEN parent[s] = 0
                   ELSE parent[s] # 0 /\ state[parent[s]] \notin {"UNUSED", "ZOMBIE"}

\* A process asleep in wait() has a child still alive and nothing to collect,
\* and nobody killed it: every exit() and kill() since it looked has woken it.
WaiterNotStranded == \A s \in Slot :
                        state[s] = "SLEEPING" /\ chan[s] = s =>
                           /\ Children(s) # {}
                           /\ Zombies(s) = {}
                           /\ ~killed[s]

\* The schedulers' scans of the table starve nobody.
RunnableRuns == \A s \in Slot : (state[s] = "RUNNABLE") ~> Running(s)

\* init collects every zombie it inherits.
OrphansReaped == \A s \in Slot \ {initproc} :
                    (state[s] = "ZOMBIE" /\ parent[s] = initproc)
                       ~> (state[s] = "UNUSED")

\* A killed process exits, wherever kill() finds it.  The exception: sleep()
\* misses a kill() that comes between the test of killed and ptable.lock, and a
\* process that waits for a device then stays asleep until the device wakes it.
KilledExits == \A s \in Slot :
                  killed[s] ~> \/ state[s] \in {"ZOMBIE", "UNUSED"}
                               \/ state[s] = "SLEEPING" /\ chan[s] \in Devices

\* The kernel keeps its processes going: whoever can run is run by one of the
\* scheduler() loops, and every orphan that exits is collected by init.
KeepsGoing == RunnableRuns /\ OrphansReaped
=============================================================================
