------------------------------ MODULE Startup ------------------------------
(* What the machine is found to be and how the kernel gets into memory:     *)
(* mp.c, which reads the firmware's tables, and bootmain.c, which loads the *)
(* kernel's ELF image.                                                      *)
EXTENDS Integers, FiniteSets, Sequences
CONSTANTS NCPU, SECTSIZE,
          PHYSTOP,      \* the size of memory
          Firmware,     \* what firmware may have left in memory
          Kernels       \* ELF images: segments [pa, off, filesz, memsz]
VARIABLES fw,           \* the firmware of this machine
          mp,           \* [pc, at: where p is in the table, ismp, lapic, cpus: apicids, ioapicid]
          elf,          \* the image, and how many segments are loaded
          phys          \* memory: what each byte holds

startVars == <<fw, mp, elf, phys>>

Pointers == Seq([sig : BOOLEAN, sum : Nat, physaddr : BOOLEAN])
Tables == [sig : BOOLEAN, version : Nat, sum : Nat, entries : Seq([type : STRING, id : Nat])]
Segments == Seq([pa : Nat, off : Nat, filesz : Nat, memsz : Nat])
\* Segments lie in memory in the order of the image, each behind the one before
\* it even where readseg() starts with the sector that a segment begins in: what
\* readseg() counts on ("we load in increasing order") and the linker provides.
InOrder(k) ==
    \A j \in DOMAIN k : /\ k[j].off % SECTSIZE <= k[j].pa /\ k[j].pa + k[j].memsz <= PHYSTOP
                        /\ \A i \in 1 .. j - 1 : k[i].pa + k[i].memsz <= k[j].pa - (k[j].off % SECTSIZE)
ASSUME StartAssumption ==
    /\ NCPU \in Nat \ {0} /\ SECTSIZE \in Nat \ {0} /\ PHYSTOP \in Nat
    /\ Firmware \subseteq [ebda : Pointers, base : Pointers, rom : Pointers, conf : Tables]
    /\ \A k \in Kernels : k \in Segments /\ InOrder(k)

------------------------------------------------------------------------------
(* mp.c.  A place where firmware may put the floating pointer is a sequence *)
(* of records [sig, sum]; sum is what the bytes add up to.                  *)

\* The first record that is signed and adds up to 0.
mpsearch1Any(place) == LET ok == {k \in DOMAIN place : place[k].sig}
                       IN  IF ok = {} THEN <<>> ELSE <<place[CHOOSE k \in ok : \A j \in ok : k <= j]>>
mpsearch1(place) == LET ok == {k \in DOMAIN place : place[k].sig /\ place[k].sum = 0}
                    IN  IF ok = {} THEN <<>> ELSE <<place[CHOOSE k \in ok : \A j \in ok : k <= j]>>
\* The extended BIOS data area when there is one, else the end of base memory; then the ROM.
mpsearch == LET low == mpsearch1(IF fw.ebda # <<>> THEN fw.ebda ELSE fw.base)
            IN  IF low # <<>> THEN low ELSE mpsearch1(fw.rom)
\* The configuration table, if it is one the kernel can use.
mpconfig == LET f == mpsearch IN
            IF f # <<>> /\ f[1].physaddr /\ fw.conf.sig /\ fw.conf.version \in {1, 4} /\ fw.conf.sum = 0 THEN <<f[1]>> ELSE <<>>

mpinit == /\ mp.pc = "start"
          /\ mp' = IF mpconfig = <<>> THEN [mp EXCEPT !.pc = "done"]
                   ELSE [mp EXCEPT !.pc = "table", !.ismp = TRUE, !.lapic = TRUE]
          /\ UNCHANGED <<fw, elf, phys>>
\* One entry.  An unknown one does not move p.
Entered(e) ==
    CASE e.type = "proc"   -> [mp EXCEPT !.cpus = IF Len(@) < NCPU THEN Append(@, e.id) ELSE @, !.at = @ + 1]
      [] e.type = "ioapic" -> [mp EXCEPT !.ioapicid = e.id, !.at = @ + 1]
      [] e.type = "other"  -> [mp EXCEPT !.at = @ + 1]
      [] OTHER             -> [mp EXCEPT !.ismp = FALSE]
entry == /\ mp.pc = "table" /\ mp.at <= Len(fw.conf.entries)
         /\ mp' = Entered(fw.conf.entries[mp.at])
         /\ UNCHANGED <<fw, elf, phys>>
\* Behind the table: without MP there is one processor, and no local APIC.
mpend == /\ mp.pc = "table" /\ mp.at > Len(fw.conf.entries)
         /\ mp' = IF mp.ismp THEN [mp EXCEPT !.pc = "done"]
                  ELSE [mp EXCEPT !.pc = "done", !.cpus = <<0>>, !.lapic = FALSE, !.ioapicid = 0]
         /\ UNCHANGED <<fw, elf, phys>>

------------------------------------------------------------------------------
(* bootmain.c.  A byte of memory holds the number of the byte of the image   *)
(* that was read into it, "zero", or "?".                                   *)

\* readseg() reads whole sectors: from the sector boundary below off, to behind the end.
Sectors(pa, off) == <<pa - (off % SECTSIZE), (off \div SECTSIZE) * SECTSIZE>>
Span(from, end) == ((end - from + SECTSIZE - 1) \div SECTSIZE) * SECTSIZE
readseg(m, pa, count, off) ==
    LET s == Sectors(pa, off) IN
    [a \in DOMAIN m |-> IF a \in s[1] .. s[1] + Span(s[1], pa + count) - 1 THEN <<"image", s[2] + a - s[1]>> ELSE m[a]]
\* The rest of the segment is set to 0.
stosbNot(m, ph) == m
stosb(m, ph) == [a \in DOMAIN m |-> IF a \in ph.pa + ph.filesz .. ph.pa + ph.memsz - 1 THEN <<"zero", 0>> ELSE m[a]]
bootmain == /\ mp.pc = "boot"
            /\ LET ph == elf.ph[elf.n + 1] IN
               /\ elf.n < Len(elf.ph)
               /\ phys' = stosb(readseg(phys, ph.pa, ph.filesz, ph.off), ph)
            /\ elf' = [elf EXCEPT !.n = @ + 1]
            /\ UNCHANGED <<fw, mp>>

NoKernel == [ph |-> <<>>, n |-> 0]
NoFirmware == [ebda |-> <<>>, base |-> <<>>, rom |-> <<>>, conf |-> [sig |-> FALSE, version |-> 1, sum |-> 0, entries |-> <<>>]]
Mp(pc) == [pc |-> pc, at |-> 1, ismp |-> FALSE, lapic |-> FALSE, cpus |-> <<>>, ioapicid |-> 0]
StartInit == \/ fw \in Firmware /\ mp = Mp("start") /\ elf = NoKernel /\ phys = <<>>
             \/ /\ fw = NoFirmware /\ mp = Mp("boot")
                /\ \E k \in Kernels : elf = [ph |-> k, n |-> 0]
                /\ phys = [a \in 0 .. PHYSTOP - 1 |-> <<"?", 0>>]
StartNext == mpinit \/ entry \/ mpend \/ bootmain
StartSpec == StartInit /\ [][StartNext]_startVars

------------------------------------------------------------------------------

Known(e) == e.type \in {"proc", "ioapic", "other"}
\* How many processors are among the first n entries, and that they and the last
\* I/O APIC among them are noted.
Procs(n) == Cardinality({k \in 1 .. n : fw.conf.entries[k].type = "proc"})
Listed(n) ==
    /\ Len(mp.cpus) = IF Procs(n) < NCPU THEN Procs(n) ELSE NCPU
    /\ \A k \in 1 .. n : LET e == fw.conf.entries[k] IN
          /\ e.type = "proc" /\ Procs(k) <= NCPU => mp.cpus[Procs(k)] = e.id
          /\ e.type = "ioapic" /\ (\A j \in k + 1 .. n : fw.conf.entries[j].type # "ioapic") => mp.ioapicid = e.id

\* There is a sound pointer in the place, and the first one leads to a table.
Sound(f) == f.sig /\ f.sum = 0
Leads(place) == \E k \in DOMAIN place : Sound(place[k]) /\ place[k].physaddr /\ \A j \in 1 .. k - 1 : ~Sound(place[j])
Void(place) == \A k \in DOMAIN place : ~Sound(place[k])

\* mpinit() takes the machine for a multiprocessor exactly when the first sound
\* pointer in the places it has to look at leads to a sound table; then its
\* processors are the first NCPU of the table in their order and the I/O APIC is
\* the last. With an entry of an unknown type it never returns, though the code
\* behind the loop means to go on with one processor.
MpFound ==
    mp.pc = "done" =>
        LET low == IF fw.ebda # <<>> THEN fw.ebda ELSE fw.base IN
        /\ mp.ismp <=> /\ Leads(low) \/ (Void(low) /\ Leads(fw.rom))
                       /\ Sound(fw.conf) /\ fw.conf.version \in {1, 4}
        /\ mp.ismp => /\ \A k \in DOMAIN fw.conf.entries : Known(fw.conf.entries[k])
                      /\ Listed(Len(fw.conf.entries))
        /\ ~mp.ismp => ~mp.lapic /\ mp.cpus = <<>>

\* When all segments are loaded every one is whole in memory, its rest zero,
\* though readseg() writes over the bytes around each.
KernelLoaded ==
    mp.pc = "boot" /\ elf.n = Len(elf.ph) =>
        \A k \in DOMAIN elf.ph : LET ph == elf.ph[k] IN
            \A i \in 0 .. ph.memsz - 1 : phys[ph.pa + i] = IF i < ph.filesz THEN <<"image", ph.off + i>> ELSE <<"zero", 0>>

\* The machine is found and the kernel loaded as the firmware and the image say.
StartedRight == MpFound /\ KernelLoaded
=============================================================================
