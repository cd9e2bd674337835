------------------------------ MODULE MCParts ------------------------------
(* The parts that work by themselves, one of them in each behaviour: the    *)
(* functions of the libraries, the allocator of the programs, mkfs, the     *)
(* keyboard driver, the console, the start of the machine, locks and        *)
(* interrupts.                                                              *)
EXTENDS Lib, Umalloc, Mkfs, Kbd, Startup, Interrupts, Console
VARIABLE part

consoleVars == vars
allVars == <<part, libVars, heapVars, mkfsVars, kbdVars, startVars, irqVars, consoleVars>>

MCStreams == Words({"a", "b", "nl"}, 5)
MCCommandLines == UNION {[1 .. n -> {0, 1, 2, 5, 8, 9}] : n \in 0 .. 3}

Float(sig, sum, p) == [sig |-> sig, sum |-> sum, physaddr |-> p]
Places == {<<>>, <<Float(TRUE, 1, TRUE), Float(TRUE, 0, TRUE)>>,
           <<Float(FALSE, 0, TRUE), Float(TRUE, 0, FALSE)>>, <<Float(TRUE, 1, TRUE)>>}
TableEntries == {[type |-> t, id |-> i] : t \in {"proc", "ioapic"}, i \in {1, 2}}
                \cup {[type |-> t, id |-> 0] : t \in {"other", "bad"}}
Conf(sig, version, sum, entries) == [sig |-> sig, version |-> version, sum |-> sum, entries |-> entries]
MCFirmware ==
    {[ebda |-> x, base |-> y, rom |-> z, conf |-> Conf(s, v, c, <<>>)] :
        x \in Places, y \in Places, z \in Places, s \in BOOLEAN, v \in {1, 4, 5}, c \in {0, 1}}
    \cup {[ebda |-> <<Float(TRUE, 0, TRUE)>>, base |-> <<>>, rom |-> <<>>, conf |-> Conf(TRUE, 4, 0, t)] :
              t \in UNION {[1 .. n -> TableEntries] : n \in 0 .. 4}}
Seg(pa, off, filesz, memsz) == [pa |-> pa, off |-> off, filesz |-> filesz, memsz |-> memsz]
MCKernels == {<<Seg(4 + o, 4 + o, f, f + z), Seg(12 + q, 8 + p + q, 3, 3 + y)>> :
                  o \in 0 .. 3, f \in 0 .. 3, z \in 0 .. 2, q \in 0 .. 3, p \in {0, 4}, y \in {0, 1}}

\* Once calls have met without cons.lock, or a tab has crossed the last cell, the
\* cursor can be anywhere: such states are checked but not explored further.  Nor
\* is the list of processes that the last key asks for.
UntilMarked == marks = {} /\ (keys = MaxKeys => ~doprocdump)

LibIdle == call = [fn |-> "none", out |-> None] /\ stream = NoStream
MkfsIdle == MkfsInit /\ given = <<>>
StartIdle == fw = NoFirmware /\ mp = Mp("idle") /\ elf = NoKernel /\ phys = <<>>

PartsInit == /\ HeapInit /\ KbdInit /\ IrqInit /\ Init
        /\ \/ part = "lib" /\ MkfsIdle /\ StartIdle /\ LibInit
           \/ part = "mkfs" /\ LibIdle /\ MkfsInit /\ StartIdle
           \/ part = "startup" /\ LibIdle /\ MkfsIdle /\ StartInit
           \/ part \in {"heap", "kbd", "console", "irq"} /\ LibIdle /\ MkfsIdle /\ StartIdle

\* A call that returned, a program that ended and a machine that stopped do
\* nothing more, and the console waits for the keys that nobody types.
Ended == \/ part = "lib" /\ call.out # None
         \/ part = "mkfs" /\ mkpc \in {"done", "aborted"}
         \/ part = "console" /\ (panicked \/ (read = "asleep" /\ keys = MaxKeys))
         \/ part = "startup" /\ (mp.pc = "done" \/ (mp.pc = "boot" /\ elf.n = Len(elf.ph)))

PartsNext ==
    \/ part = "lib" /\ LibNext /\ UNCHANGED <<part, heapVars, mkfsVars, kbdVars, startVars, irqVars, consoleVars>>
    \/ part = "heap" /\ HeapNext /\ UNCHANGED <<part, libVars, mkfsVars, kbdVars, startVars, irqVars, consoleVars>>
    \/ part = "mkfs" /\ MkfsNext /\ UNCHANGED <<part, libVars, heapVars, kbdVars, startVars, irqVars, consoleVars>>
    \/ part = "kbd" /\ KbdNext /\ UNCHANGED <<part, libVars, heapVars, mkfsVars, startVars, irqVars, consoleVars>>
    \/ part = "startup" /\ StartNext /\ UNCHANGED <<part, libVars, heapVars, mkfsVars, kbdVars, irqVars, consoleVars>>
    \/ part = "irq" /\ IrqNext /\ UNCHANGED <<part, libVars, heapVars, mkfsVars, kbdVars, startVars, consoleVars>>
    \/ part = "console" /\ Next /\ UNCHANGED <<part, libVars, heapVars, mkfsVars, kbdVars, startVars, irqVars>>
    \/ Ended /\ UNCHANGED allVars
PartsSpec == PartsInit /\ [][PartsNext]_allVars
=============================================================================
