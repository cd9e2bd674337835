----------------------------- MODULE Interrupts -----------------------------
(* Spin locks, interrupts and the switch between kernel threads:            *)
(* spinlock.c, trap.c, the local APIC of lapic.c, and scheduler(), sched(), *)
(* sleep() and yield() of proc.c.                                           *)
(*                                                                          *)
(* A context is a process or the scheduler of a CPU.  It has a stack of     *)
(* frames, one for each time it entered the kernel; the operations a frame  *)
(* has still to do come from the code of its system call or handler.        *)
EXTENDS Naturals, Sequences, FiniteSets
CONSTANTS Processor,        \* 0 .. ncpu - 1
          Proc
ASSUME IrqAssumption == IsFiniteSet(Processor) /\ Processor = 0 .. (Cardinality(Processor) - 1) /\ Processor \cap Proc = {}
VARIABLES lock,       \* ptable.lock, tickslock, idelock: [locked, cpu]
          ncli, intena,   \* of each CPU
          IF_,        \* the interrupt flag of each CPU
          runs,       \* the context on each CPU
          stack,      \* of each context
          pstate,     \* of each process: <<state, channel>>
          isr,        \* of each local APIC: the interrupt in service
          inside,     \* history: the locks each CPU is in the critical section of
          irqPanicked

irqVars == <<lock, ncli, intena, IF_, runs, stack, pstate, isr, inside, irqPanicked>>

Lock == {"ptable", "ticks", "ide"}
none == "none"
nobody == Cardinality(Processor)       \* lk->cpu of a lock nobody holds

------------------------------------------------------------------------------
(* The code, as the sequence of what it does to locks and interrupts. *)

wakeup(chan) == <<<<"acquire", "ptable">>, <<"wakeup1", chan>>, <<"release", "ptable">>>>
sleep(lk) == <<<<"acquire", "ptable">>, <<"release", lk>>, <<"sleep", lk>>, <<"release", "ptable">>, <<"acquire", lk>>>>
yield == <<<<"acquire", "ptable">>, <<"yield">>, <<"release", "ptable">>>>
\* sys_sleep() and iderw(): both sleep on what their lock protects.
syscall(lk) == <<<<"acquire", lk>>>> \o sleep(lk) \o <<<<"release", lk>>, <<"iret">>>>
handler(lk) == <<<<"acquire", lk>>>> \o wakeup(lk) \o <<<<"release", lk>>, <<"eoi">>>>
\* trap(): only CPU 0 counts ticks; a process gives up its CPU on every tick.
trapLate(c, x, irq) ==
    (CASE irq = "timer" -> (IF x \in Proc THEN yield ELSE <<>>) \o (IF c = 0 THEN handler("ticks") ELSE <<<<"eoi">>>>)
       [] irq = "ide"   -> handler("ide"))
    \o <<<<"iret">>>>
trap(c, x, irq) ==
    (CASE irq = "timer" -> (IF c = 0 THEN handler("ticks") ELSE <<<<"eoi">>>>) \o (IF x \in Proc THEN yield ELSE <<>>)
       [] irq = "ide"   -> handler("ide"))
    \o <<<<"iret">>>>
scheduler == <<<<"sti">>, <<"acquire", "ptable">>, <<"run">>, <<"release", "ptable">>>>
forkret == <<<<"release", "ptable">>, <<"iret">>>>

\* kind is "user", "irq", "scheduler" or "forkret"; saved is the flag that iret
\* puts back, and intena what sched() keeps on the stack.
Frame(kind, todo, saved) == [kind |-> kind, todo |-> todo, sub |-> 0, saved |-> saved, intena |-> FALSE]

------------------------------------------------------------------------------

Kstack(c) == stack[runs[c]]
Top(c) == Kstack(c)[1]
\* The CPU is at operation op, in its sub-th step.
At(c, op, sub) == /\ ~irqPanicked /\ Kstack(c) # <<>>
                  /\ Head(Top(c).todo)[1] = op /\ Top(c).sub = sub
Arg(c) == Head(Top(c).todo)[2]
InFrame(c, f) == stack' = [stack EXCEPT ![runs[c]] = <<f>> \o Tail(@)]
Next_(c) == LET rest == Tail(Top(c).todo)
            IN  [Top(c) EXCEPT !.todo = IF rest = <<>> THEN scheduler ELSE rest, !.sub = 0]
Step(c, n) == InFrame(c, [Top(c) EXCEPT !.sub = n])
panic == irqPanicked' = TRUE /\ UNCHANGED <<lock, ncli, intena, IF_, runs, stack, pstate, isr, inside>>

holding(c, l) == lock[l].locked /\ lock[l].cpu = c

\* acquire(): pushcli() and the check; the xchg; the note of the holder.
pushcli(c) == /\ IF_' = [IF_ EXCEPT ![c] = FALSE]
              /\ intena' = IF ncli[c] = 0 THEN [intena EXCEPT ![c] = IF_[c]] ELSE intena
              /\ ncli' = [ncli EXCEPT ![c] = @ + 1]
acquire(c) == /\ At(c, "acquire", 0)
              /\ IF holding(c, Arg(c)) THEN panic
                 ELSE /\ pushcli(c) /\ Step(c, 1)
                      /\ UNCHANGED <<lock, runs, pstate, isr, inside, irqPanicked>>
Free(l) == ~lock[l].locked
xchg(c) == /\ At(c, "acquire", 1) /\ Free(Arg(c))
           /\ lock' = [lock EXCEPT ![Arg(c)].locked = TRUE]
           /\ inside' = [inside EXCEPT ![c] = @ \cup {Arg(c)}]
           /\ Step(c, 2)
           /\ UNCHANGED <<ncli, intena, IF_, runs, pstate, isr, irqPanicked>>
acquired(c) == /\ At(c, "acquire", 2)
               /\ lock' = [lock EXCEPT ![Arg(c)].cpu = c]
               /\ InFrame(c, Next_(c))
               /\ UNCHANGED <<ncli, intena, IF_, runs, pstate, isr, inside, irqPanicked>>

\* release(): the holder is struck out, the lock opened, and popcli().
UnnotedNot(l) == lock
Unnoted(l) == [lock EXCEPT ![l].cpu = nobody]
release(c) == /\ At(c, "release", 0)
              /\ IF ~holding(c, Arg(c)) THEN panic
                 ELSE /\ lock' = Unnoted(Arg(c)) /\ Step(c, 1)
                      /\ UNCHANGED <<ncli, intena, IF_, runs, pstate, isr, inside, irqPanicked>>
popcliAlways(c) == ncli' = [ncli EXCEPT ![c] = @ - 1] /\ IF_' = [IF_ EXCEPT ![c] = intena[c]]
popcli(c) == /\ ncli' = [ncli EXCEPT ![c] = @ - 1]
             /\ IF_' = [IF_ EXCEPT ![c] = ncli[c] = 1 /\ intena[c]]
released(c) == /\ At(c, "release", 1)
               /\ IF IF_[c] \/ ncli[c] = 0 THEN panic
                  ELSE /\ lock' = [lock EXCEPT ![Arg(c)].locked = FALSE]
                       /\ inside' = [inside EXCEPT ![c] = @ \ {Arg(c)}]
                       /\ popcli(c) /\ InFrame(c, Next_(c))
                       /\ UNCHANGED <<intena, runs, pstate, isr, irqPanicked>>

wakeup1(c) == /\ At(c, "wakeup1", 0)
              /\ pstate' = [p \in Proc |-> IF pstate[p] = <<"SLEEPING", Arg(c)>> THEN <<"RUNNABLE", none>> ELSE pstate[p]]
              /\ InFrame(c, Next_(c))
              /\ UNCHANGED <<lock, ncli, intena, IF_, runs, isr, inside, irqPanicked>>

\* sched(), as sleep() and yield() call it: the checks, intena kept, the switch
\* to the scheduler of this CPU.
sched(c, st) == /\ IF ~holding(c, "ptable") \/ ncli[c] # 1 \/ IF_[c] THEN panic
                   ELSE /\ pstate' = [pstate EXCEPT ![runs[c]] = st]
                        /\ InFrame(c, [Top(c) EXCEPT !.intena = intena[c], !.sub = 1])
                        /\ runs' = [runs EXCEPT ![c] = c]
                        /\ UNCHANGED <<lock, ncli, intena, IF_, isr, inside, irqPanicked>>
goSleep(c) == At(c, "sleep", 0) /\ sched(c, <<"SLEEPING", Arg(c)>>)
giveUp(c) == At(c, "yield", 0) /\ sched(c, <<"RUNNABLE", none>>)
\* The other half, on the CPU where the process goes on.
RestoredNot(c) == intena
Restored(c) == [intena EXCEPT ![c] = Top(c).intena]
resched(c) == /\ At(c, "sleep", 1) \/ At(c, "yield", 1)
              /\ intena' = Restored(c)
              /\ InFrame(c, Next_(c))
              /\ UNCHANGED <<lock, ncli, IF_, runs, pstate, isr, inside, irqPanicked>>

\* scheduler(): interrupts on; with ptable.lock held, a switch to a process.
\* When it comes back the search goes on, under the same lock.
sti(c) == /\ At(c, "sti", 0)
          /\ IF_' = [IF_ EXCEPT ![c] = TRUE]
          /\ InFrame(c, Next_(c))
          /\ UNCHANGED <<lock, ncli, intena, runs, pstate, isr, inside, irqPanicked>>
run(c) == /\ At(c, "run", 0)
          /\ \/ \E p \in Proc : /\ pstate[p][1] = "RUNNABLE"
                                /\ pstate' = [pstate EXCEPT ![p] = <<"RUNNING", none>>]
                                /\ runs' = [runs EXCEPT ![c] = p]
                                /\ UNCHANGED stack
             \/ InFrame(c, Next_(c)) /\ UNCHANGED <<pstate, runs>>
          /\ UNCHANGED <<lock, ncli, intena, IF_, isr, inside, irqPanicked>>

\* lapiceoi() ends the interrupt in service.
eoi(c) == /\ At(c, "eoi", 0)
          /\ isr' = [isr EXCEPT ![c] = {}]
          /\ InFrame(c, Next_(c))
          /\ UNCHANGED <<lock, ncli, intena, IF_, runs, pstate, inside, irqPanicked>>
iret(c) == /\ At(c, "iret", 0)
           /\ IF_' = [IF_ EXCEPT ![c] = Top(c).saved]
           /\ stack' = [stack EXCEPT ![runs[c]] = Tail(@)]
           /\ UNCHANGED <<lock, ncli, intena, runs, pstate, isr, inside, irqPanicked>>

\* A process in user space makes a system call: the trap gate leaves the flag on.
call_(c) == /\ ~irqPanicked /\ Kstack(c) = <<>>
            /\ \E lk \in {"ticks", "ide"} : stack' = [stack EXCEPT ![runs[c]] = <<Frame("user", syscall(lk), TRUE)>>]
            /\ UNCHANGED <<lock, ncli, intena, IF_, runs, pstate, isr, inside, irqPanicked>>
\* A device or the timer may have asked for an interrupt at any time; it is
\* taken when the flag is on.  ioapicenable() sent the disk's to the last CPU.
\* The vectors have one priority, so one is in service at a time.
interrupt(c, irq) == /\ ~irqPanicked /\ IF_[c] /\ isr[c] = {}
                     /\ irq = "ide" => c + 1 \notin Processor
                     /\ isr' = [isr EXCEPT ![c] = {irq}]
                     /\ stack' = [stack EXCEPT ![runs[c]] = <<Frame("irq", trap(c, runs[c], irq), TRUE)>> \o @]
                     /\ IF_' = [IF_ EXCEPT ![c] = FALSE]
                     /\ UNCHANGED <<lock, ncli, intena, runs, pstate, inside, irqPanicked>>

Irqs == {"timer", "ide"}
IrqInit == /\ lock = [l \in Lock |-> [locked |-> FALSE, cpu |-> nobody]]
           /\ ncli = [c \in Processor |-> 0] /\ intena = [c \in Processor |-> FALSE] /\ IF_ = [c \in Processor |-> FALSE]
           /\ runs = [c \in Processor |-> c]
           /\ stack = [x \in Processor \cup Proc |-> IF x \in Processor THEN <<Frame("scheduler", scheduler, FALSE)>>
                                               ELSE <<Frame("forkret", forkret, TRUE)>>]
           /\ pstate = [p \in Proc |-> <<"RUNNABLE", none>>]
           /\ isr = [c \in Processor |-> {}]
           /\ inside = [c \in Processor |-> {}] /\ irqPanicked = FALSE
IrqNext == \E c \in Processor :
              \/ acquire(c) \/ xchg(c) \/ acquired(c) \/ release(c) \/ released(c) \/ wakeup1(c)
              \/ goSleep(c) \/ giveUp(c) \/ resched(c) \/ sti(c) \/ run(c) \/ eoi(c) \/ iret(c) \/ call_(c)
              \/ \E irq \in Irqs : interrupt(c, irq)
IrqSpec == IrqInit /\ [][IrqNext]_irqVars

------------------------------------------------------------------------------

\* None of the checks in acquire(), release(), popcli() and sched() ever finds
\* anything: no handler wants a lock its own CPU holds, and no CPU takes a lock
\* for its own that another is just taking.
NoLockPanic == ~irqPanicked

\* A lock has at most one CPU inside, and while it is there that CPU takes no
\* interrupt.
LockedOut ==
    /\ \A c, d \in Processor : c # d => inside[c] \cap inside[d] = {}
    /\ \A c \in Processor : inside[c] # {} => ~IF_[c] /\ ncli[c] = Cardinality(inside[c] \cup {l \in Lock : At(c, "acquire", 1) /\ l = Arg(c)})

\* Outside all critical sections a system call and user space run with
\* interrupts on and a handler with interrupts off, whatever CPU they were moved
\* to and whoever ran there in between: intena belongs to the thread.
FlagKept ==
    \A c \in Processor : ncli[c] = 0 =>
        /\ Kstack(c) = <<>> \/ Top(c).kind = "user" => IF_[c]
        /\ Kstack(c) # <<>> /\ Top(c).kind = "irq" => ~IF_[c]

\* An interrupt is in service only while its handler runs on that CPU and has
\* not ended it, so that no process that waits elsewhere holds up a CPU's
\* interrupts.
AckedHere ==
    \A c \in Processor : isr[c] # {} =>
        Kstack(c) # <<>> /\ Top(c).kind = "irq" /\ \E k \in DOMAIN Top(c).todo : Top(c).todo[k] = <<"eoi">>

\* Locks and interrupts do not defeat each other: no check in spinlock.c fires,
\* a locked section is alone and undisturbed, and neither the interrupt flag nor
\* an interrupt in service is left to the wrong thread.
LocksInv == NoLockPanic /\ LockedOut /\ FlagKept /\ AckedHere
=============================================================================
