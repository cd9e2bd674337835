------------------------------- MODULE Memory -------------------------------
(***************************************************************************)
(* Pages of memory: the free list (kalloc.c), page tables and their user   *)
(* pages (vm.c), and the calls that build, grow, copy and drop an address  *)
(* space: exec() (exec.c), growproc(), fork(), exit() and wait() (proc.c), *)
(* after the start in main() (main.c).  Each kalloc() and kfree() is a     *)
(* step, so that memory runs out at any point of a call while other        *)
(* processes allocate and free.  fork() and wait() hold ptable.lock.       *)
(* A page directory is known by the page it lies in; the contents of user  *)
(* pages are left out.                                                     *)
(***************************************************************************)
EXTENDS Integers, Sequences, FiniteSets, FiniteSetsExt, Functions, SequencesExt

CONSTANTS NPROC, NCPU,
          NLOW, NFRAME,       \* pages below 4 MB that are free at the start, and all pages
          PGSIZE, NPTENTRIES, \* bytes of a page, pages that one page table maps
          KERNBASE,           \* first address of the kernel
          NKTAB,              \* page tables for the addresses of the kernel
          Programs,           \* sequences of segments [end, fault]
          Grow,               \* arguments of sbrk()
          MaxCalls            \* bound on calls of exec, sbrk and fork

\* The machine has a process and the memory that main() takes without asking.
ASSUME MemoryAssumption == /\ NPROC \in Nat \ {0} /\ NCPU \in Nat \ {0} /\ NLOW \in Nat /\ NFRAME \in Nat /\ NLOW <= NFRAME
                           /\ PGSIZE \in Nat \ {0} /\ NPTENTRIES \in Nat \ {0} /\ NKTAB \in Nat \ {0}
                           /\ KERNBASE \in Nat \ {0} /\ KERNBASE % (PGSIZE * NPTENTRIES) = 0
                           /\ NKTAB + NCPU <= NLOW /\ NKTAB + NCPU + NKTAB + 4 <= NFRAME
                           /\ Grow \subseteq Int /\ Programs \subseteq Seq([end : Nat, fault : STRING])

VARIABLES freelist, use_lock,
          dir,      \* [kern, tab, pte, guard] of the page directory in each page
          proc,     \* [state, kstack, pgdir, sz, parent]
          cr3,      \* the directory loaded while a process runs, 0 for none, and the
                    \* pages that the TLB may know
          job,      \* the call each process is in
          ptable,   \* the process that holds ptable.lock, 0 for none
          boot, cpus,  \* what main() has still to do, and the other CPUs' stacks
          panicked,
          calls,    \* history: calls so far
          leaked,   \* history: pages that a failed call gave up without freeing them
          before    \* history: the user pages of a process when its call began

vars == <<freelist, use_lock, dir, proc, cr3, job, ptable, boot, cpus, panicked, calls, leaked, before>>
history == <<calls, leaked, before>>
bootVars == <<use_lock, boot, cpus>>

Pid == 1..NPROC
Frame == 1..NFRAME
NPAGE == KERNBASE \div PGSIZE
NTAB == NPAGE \div NPTENTRIES
Page == 0..(NPAGE - 1)

NoDir == [kern |-> <<>>, tab |-> [t \in 0..(NTAB - 1) |-> 0], pte |-> [g \in Page |-> 0], guard |-> {}]
NoProc == [state |-> "unused", kstack |-> 0, pgdir |-> 0, sz |-> 0, parent |-> 0]
NoSpace == [d |-> 0, tlb |-> {}]
NoJob == [pc |-> "user", op |-> "", d |-> 0, q |-> 0, a |-> 0, from |-> 0, to |-> 0, segs |-> <<>>, fits |-> TRUE,
          mem |-> 0, next |-> ""]

\* Mutant of PGROUNDUP: rounds down.
PGROUNDUPDown(n) == (n \div PGSIZE) * PGSIZE
PGROUNDUP(n) == ((n + PGSIZE - 1) \div PGSIZE) * PGSIZE
PDX(a) == (a \div PGSIZE) \div NPTENTRIES

Go(p, j) == job' = [job EXCEPT ![p] = j]
At(p, label) == job[p].pc = label /\ panicked = "no"

-----------------------------------------------------------------------------
(* The allocator *)

kfree(f) == freelist' = <<f>> \o freelist
kalloc == freelist' = Tail(freelist)

\* freerange() puts the pages of a range on the list one by one.
freerange(s) == Reverse(s) \o freelist

-----------------------------------------------------------------------------
(* main(): the pages below 4 MB, the kernel's page table, the other CPUs,   *)
(* which come up on a page table that maps only those, the rest of the      *)
(* memory, and the first process.  The allocator takes no lock before.      *)

\* Mutant of main: the rest of the memory comes before the other CPUs.
mainEarly == <<"kinit1", "kvmalloc", "kinit2", "startothers", "userinit">>
main == <<"kinit1", "kvmalloc", "startothers", "kinit2", "userinit">>

Booting(what) == boot # <<>> /\ boot[1] = what
BootStep == boot' = Tail(boot)

Init == /\ freelist = <<>> /\ use_lock = FALSE /\ dir = [f \in Frame |-> NoDir]
        /\ proc = [p \in Pid |-> NoProc] /\ cr3 = [p \in Pid |-> NoSpace] /\ job = [p \in Pid |-> NoJob]
        /\ ptable = 0 /\ boot = main /\ cpus = <<>> /\ panicked = "no"
        /\ calls = 0 /\ leaked = {} /\ before = [p \in Pid |-> NoDir.pte]

kinit1 == /\ Booting("kinit1") /\ BootStep
          /\ freelist' = freerange([k \in 1..NLOW |-> k])
          /\ UNCHANGED <<use_lock, dir, proc, cr3, job, ptable, cpus, panicked, history>>
kinit2 == /\ Booting("kinit2") /\ BootStep
          /\ freelist' = freerange([k \in 1..(NFRAME - NLOW) |-> NLOW + k])
          /\ use_lock' = TRUE
          /\ UNCHANGED <<dir, proc, cr3, job, ptable, cpus, panicked, history>>

\* setupkvm() of a machine that has enough memory: the directory and the tables
\* of the kernel, taken from the list in this order.
Kvm(s) == [NoDir EXCEPT !.kern = SubSeq(s, 2, NKTAB + 1)]
kvmalloc == /\ Booting("kvmalloc") /\ BootStep
            /\ dir' = [dir EXCEPT ![Head(freelist)] = Kvm(freelist)]
            /\ freelist' = SubSeq(freelist, NKTAB + 2, Len(freelist))
            /\ UNCHANGED <<use_lock, proc, cr3, job, ptable, cpus, panicked, history>>

\* startothers() gives each CPU a stack and waits until it has started.
startothers == /\ Booting("startothers")
               /\ IF Len(cpus) = NCPU - 1 THEN BootStep /\ UNCHANGED <<freelist, cpus>>
                  ELSE kalloc /\ cpus' = Append(cpus, Head(freelist)) /\ UNCHANGED boot
               /\ UNCHANGED <<use_lock, dir, proc, cr3, job, ptable, panicked, history>>

\* The kernel stack, the page table and the one page of the first process.
userinit == /\ Booting("userinit") /\ BootStep
            /\ LET d == freelist[2]
                   s == SubSeq(freelist, 2, Len(freelist))
               IN  /\ dir' = [dir EXCEPT ![d] = [Kvm(s) EXCEPT !.pte[0] = s[NKTAB + 2], !.tab[0] = s[NKTAB + 3]]]
                   /\ freelist' = SubSeq(s, NKTAB + 4, Len(s))
                   /\ proc' = [proc EXCEPT ![1] = [state |-> "run", kstack |-> Head(freelist), pgdir |-> d, sz |-> PGSIZE, parent |-> 0]]
                   /\ cr3' = [cr3 EXCEPT ![1] = [d |-> d, tlb |-> {}]]
            /\ UNCHANGED <<use_lock, job, ptable, cpus, panicked, history>>

-----------------------------------------------------------------------------
(* Calls *)

\* A process whose first page is gone cannot execute another instruction.
CanCall(p) == proc[p].state = "run" /\ job[p].pc = "user" /\ panicked = "no" /\ dir[proc[p].pgdir].pte[0] # 0
Counted == calls < MaxCalls /\ calls' = calls + 1
Pages(d) == Range(dir[d].pte) \ {0}
\* The process may have touched all its pages before the call.
Called(p) == /\ before' = [before EXCEPT ![p] = dir[proc[p].pgdir].pte]
             /\ cr3' = [cr3 EXCEPT ![p].tlb = @ \cup Pages(proc[p].pgdir)]

\* ptable.lock
acquire(p) == ptable = 0 /\ ptable' = p
\* Mutant of release: the lock is kept.
releaseNot(p) == UNCHANGED ptable
release(p) == ptable' = IF ptable = p THEN 0 ELSE ptable

\* switchuvm() loads the directory, which empties the TLB.
switchuvm(p, d) == cr3' = [cr3 EXCEPT ![p] = [d |-> d, tlb |-> {}]]

\* exec() of a program; its arguments fit on the stack page or they do not.
Exec(p, segs, fits) ==
    /\ CanCall(p) /\ Counted /\ Called(p)
    /\ job' = [job EXCEPT ![p] = [NoJob EXCEPT !.op = "exec", !.pc = "dir", !.segs = segs, !.fits = fits]]
    /\ UNCHANGED <<freelist, dir, proc, ptable, bootVars, panicked, leaked>>

\* sbrk() and growproc(), not of init: where the new size, an unsigned number, is not below
\* the old one deallocuvm() does nothing.
Sbrk(p, n) ==
    LET sz == proc[p].sz
        d == proc[p].pgdir
    IN  /\ CanCall(p) /\ p # 1 /\ Counted /\ Called(p)
        /\ CASE n > 0 /\ sz + n < KERNBASE ->
                  Go(p, [NoJob EXCEPT !.op = "grow", !.pc = "page", !.d = d, !.from = sz, !.to = sz + n,
                                      !.a = PGROUNDUP(sz), !.next = "grown"])
             [] n > 0 /\ sz + n >= KERNBASE -> UNCHANGED job
             [] n < 0 /\ sz + n >= 0 ->
                  Go(p, [NoJob EXCEPT !.op = "grow", !.pc = "dealloc", !.d = d, !.from = sz + n, !.to = sz,
                                      !.a = PGROUNDUP(sz + n), !.next = "shrunk"])
             [] OTHER -> UNCHANGED job
        /\ UNCHANGED <<freelist, dir, proc, ptable, bootVars, panicked, leaked>>

\* fork() takes a slot and a kernel stack.
Fork(p, q) ==
    /\ CanCall(p) /\ Counted /\ Called(p) /\ q = Min({x \in Pid : proc[x].state = "unused"} \cup {NPROC + 1})
    /\ IF freelist = <<>> THEN ptable = 0 /\ UNCHANGED <<freelist, proc, job, ptable>>
       ELSE /\ acquire(p) /\ kalloc
            /\ proc' = [proc EXCEPT ![q] = [NoProc EXCEPT !.state = "embryo", !.kstack = Head(freelist)]]
            /\ job' = [job EXCEPT ![p] = [NoJob EXCEPT !.op = "fork", !.pc = "dir", !.q = q]]
    /\ UNCHANGED <<dir, bootVars, panicked, leaked>>

\* exit(): another process runs; the address space stays until wait().
Exit(p) == /\ proc[p].state = "run" /\ job[p].pc = "user" /\ panicked = "no" /\ p # 1 /\ ptable = 0
           /\ proc' = [q \in Pid |-> IF q = p THEN [proc[q] EXCEPT !.state = "zombie"]
                                     ELSE IF proc[q].parent = p THEN [proc[q] EXCEPT !.parent = 1] ELSE proc[q]]
           /\ cr3' = [cr3 EXCEPT ![p] = NoSpace]
           /\ UNCHANGED <<freelist, dir, job, ptable, bootVars, panicked, history>>

\* wait() frees the kernel stack, then the address space.
Wait(p, q) == /\ CanCall(p) /\ proc[q].parent = p /\ proc[q].state = "zombie" /\ acquire(p)
              /\ kfree(proc[q].kstack)
              /\ proc' = [proc EXCEPT ![q].kstack = 0]
              /\ job' = [job EXCEPT ![p] = [NoJob EXCEPT !.op = "wait", !.q = q, !.pc = "dealloc", !.d = proc[q].pgdir,
                                            !.to = KERNBASE, !.next = "tables"]]
              /\ UNCHANGED <<dir, cr3, bootVars, panicked, history>>

\* The scheduler loads the directory of a process when its turn comes again.
yield(p) == /\ proc[p].state = "run" /\ panicked = "no" /\ switchuvm(p, proc[p].pgdir)
            /\ UNCHANGED <<freelist, dir, proc, job, ptable, bootVars, panicked, history>>

-----------------------------------------------------------------------------
(* setupkvm() *)

\* A failed exec() or copyuvm() that has no page directory yet.
Failed(p) == IF job[p].op = "exec" THEN Go(p, NoJob) ELSE Go(p, [job[p] EXCEPT !.pc = "unfork", !.d = 0])

NewDir(p) == /\ At(p, "dir")
             /\ IF freelist = <<>> THEN Failed(p) /\ UNCHANGED <<freelist, dir>>
                ELSE /\ kalloc /\ dir' = [dir EXCEPT ![Head(freelist)] = NoDir]
                     /\ Go(p, [job[p] EXCEPT !.pc = "kern", !.d = Head(freelist)])
             /\ UNCHANGED <<proc, cr3, ptable, bootVars, panicked, history>>

\* One table of the kernel's addresses; without memory for it setupkvm() returns
\* 0, and the directory and its tables are lost.
Kern(p) ==
    LET j == job[p]
        d == j.d
        k == dir[d].kern
    IN  /\ At(p, "kern")
        /\ CASE Len(k) = NKTAB ->
                  /\ Go(p, IF j.op = "exec" THEN [j EXCEPT !.pc = "seg"] ELSE [j EXCEPT !.pc = "copy", !.a = 0])
                  /\ UNCHANGED <<freelist, dir, leaked>>
             [] Len(k) < NKTAB /\ freelist # <<>> ->
                  kalloc /\ dir' = [dir EXCEPT ![d].kern = Append(k, Head(freelist))] /\ UNCHANGED <<job, leaked>>
             [] OTHER -> /\ leaked' = leaked \cup {d} \cup Range(k) /\ dir' = [dir EXCEPT ![d] = NoDir]
                         /\ Failed(p) /\ UNCHANGED freelist
        /\ UNCHANGED <<proc, cr3, ptable, bootVars, panicked, calls, before>>

-----------------------------------------------------------------------------
(* allocuvm() *)

\* mappages() of one page that is not mapped yet, into a table that is there.
mappages(d, a, mem) == dir' = [dir EXCEPT ![d].pte[a \div PGSIZE] = mem]
Mapped(d, a) == dir[d].pte[a \div PGSIZE] # 0
HasTable(d, a) == dir[d].tab[PDX(a)] # 0
remap(d, a) == panicked' = IF Mapped(d, a) THEN "remap" ELSE "no"

\* Mutant of Undo: all pages are taken back, not only the new ones.
UndoAll(p) == Go(p, [job[p] EXCEPT !.pc = "dealloc", !.a = 0, !.next = "undone"])
\* Out of memory: what was allocated is taken back before the page in hand is freed.
Undo(p) == Go(p, [job[p] EXCEPT !.pc = "dealloc", !.a = PGROUNDUP(job[p].from), !.next = "undone"])

NewPage(p) ==
    LET j == job[p]
        mem == Head(freelist)
    IN  /\ At(p, "page")
        /\ CASE j.a >= j.to -> Go(p, [j EXCEPT !.pc = j.next]) /\ UNCHANGED <<freelist, dir, panicked>>
             [] j.a < j.to /\ freelist = <<>> -> Undo(p) /\ UNCHANGED <<freelist, dir, panicked>>
             [] j.a < j.to /\ freelist # <<>> /\ HasTable(j.d, j.a) ->
                  kalloc /\ mappages(j.d, j.a, mem) /\ remap(j.d, j.a) /\ Go(p, [j EXCEPT !.a = j.a + PGSIZE])
             [] OTHER -> kalloc /\ Go(p, [j EXCEPT !.pc = "table", !.mem = mem]) /\ UNCHANGED <<dir, panicked>>
        /\ UNCHANGED <<proc, cr3, ptable, bootVars, history>>

\* walkpgdir() allocates the table, then the page is mapped.
NewTable(p) ==
    LET j == job[p]
    IN  /\ At(p, "table")
        /\ IF freelist = <<>> THEN Undo(p) /\ UNCHANGED <<freelist, dir>>
           ELSE /\ kalloc
                /\ dir' = [dir EXCEPT ![j.d].tab[PDX(j.a)] = Head(freelist), ![j.d].pte[j.a \div PGSIZE] = j.mem]
                /\ Go(p, [j EXCEPT !.pc = "page", !.a = j.a + PGSIZE, !.mem = 0])
        /\ UNCHANGED <<proc, cr3, ptable, bootVars, panicked, history>>

\* Mutant of Undone: the page in hand is not freed.
UndoneKeeps(p) == /\ At(p, "undone") /\ Go(p, IF job[p].op = "grow" THEN NoJob ELSE [job[p] EXCEPT !.pc = "bad", !.mem = 0])
                  /\ UNCHANGED <<freelist, dir, proc, cr3, ptable, bootVars, panicked, history>>
Undone(p) == /\ At(p, "undone")
             /\ IF job[p].mem = 0 THEN UNCHANGED freelist ELSE kfree(job[p].mem)
             /\ Go(p, IF job[p].op = "grow" THEN NoJob ELSE [job[p] EXCEPT !.pc = "bad", !.mem = 0])
             /\ UNCHANGED <<dir, proc, cr3, ptable, bootVars, panicked, history>>

-----------------------------------------------------------------------------
(* deallocuvm() and freevm() *)

\* Mutant of Skip: the loop does not go on.
SkipNot(a) == a
\* Where a table is missing the loop goes on NPTENTRIES pages further.
Skip(a) == a + (NPTENTRIES - 1) * PGSIZE + PGSIZE
Dealloc(p) ==
    LET j == job[p]
        f == dir[j.d].pte[j.a \div PGSIZE]
    IN  /\ At(p, "dealloc")
        /\ CASE j.a >= j.to -> Go(p, [j EXCEPT !.pc = j.next]) /\ UNCHANGED <<freelist, dir>>
             [] j.a < j.to /\ ~HasTable(j.d, j.a) -> Go(p, [j EXCEPT !.a = Skip(j.a)]) /\ UNCHANGED <<freelist, dir>>
             [] j.a < j.to /\ HasTable(j.d, j.a) /\ f = 0 -> Go(p, [j EXCEPT !.a = j.a + PGSIZE]) /\ UNCHANGED <<freelist, dir>>
             [] OTHER -> /\ kfree(f) /\ dir' = [dir EXCEPT ![j.d].pte[j.a \div PGSIZE] = 0]
                         /\ Go(p, [j EXCEPT !.a = j.a + PGSIZE])
        /\ UNCHANGED <<proc, cr3, ptable, bootVars, panicked, history>>

\* freevm() goes on with the tables in the order of their addresses, those of the
\* kernel's last, and then the directory.
freevm(p) ==
    LET j == job[p]
        d == j.d
        used == {t \in DOMAIN dir[d].tab : dir[d].tab[t] # 0}
        t == Min(used)
    IN  /\ At(p, "tables")
        /\ CASE used # {} -> kfree(dir[d].tab[t]) /\ dir' = [dir EXCEPT ![d].tab[t] = 0] /\ UNCHANGED job
             [] used = {} /\ dir[d].kern # <<>> ->
                  kfree(Head(dir[d].kern)) /\ dir' = [dir EXCEPT ![d].kern = Tail(@)] /\ UNCHANGED job
             [] OTHER -> /\ kfree(d) /\ dir' = [dir EXCEPT ![d] = NoDir]
                         /\ Go(p, CASE j.op \in {"exec", "old"} -> NoJob
                                     [] j.op = "fork" -> [j EXCEPT !.pc = "unfork", !.d = 0]
                                     [] j.op = "wait" -> [j EXCEPT !.pc = "reaped", !.d = 0])
        /\ UNCHANGED <<proc, cr3, ptable, bootVars, panicked, history>>

-----------------------------------------------------------------------------
(* The rest of exec() *)

Bad(j) == [j EXCEPT !.pc = "dealloc", !.a = 0, !.to = KERNBASE, !.next = "tables", !.mem = 0]

\* The next segment, then two pages for the stack.  from holds the size so far.
Segment(p) ==
    LET j == job[p]
        seg == Head(j.segs)
        top == PGROUNDUP(j.from) + 2 * PGSIZE
    IN  /\ At(p, "seg")
        /\ Go(p, CASE j.segs = <<>> /\ top < KERNBASE ->
                          [j EXCEPT !.pc = "page", !.from = PGROUNDUP(@), !.a = PGROUNDUP(j.from), !.to = top, !.next = "stack"]
                   [] j.segs = <<>> /\ top >= KERNBASE -> Bad(j)
                   [] j.segs # <<>> /\ (seg.fault = "header" \/ seg.end >= KERNBASE) -> Bad(j)
                   [] j.segs # <<>> /\ seg.fault # "header" /\ seg.end < j.from -> [j EXCEPT !.pc = "loaded", !.to = j.from]
                   [] OTHER -> [j EXCEPT !.pc = "page", !.a = PGROUNDUP(j.from), !.to = seg.end, !.next = "loaded"])
        /\ UNCHANGED <<freelist, dir, proc, cr3, ptable, bootVars, panicked, history>>

\* A segment at an odd address, or that the file is too short for, fails only now.
Loaded(p) == /\ At(p, "loaded")
             /\ Go(p, IF Head(job[p].segs).fault = "load" \/ job[p].to = 0 THEN Bad(job[p])
                      ELSE [job[p] EXCEPT !.pc = "seg", !.from = job[p].to, !.segs = Tail(job[p].segs)])
             /\ UNCHANGED <<freelist, dir, proc, cr3, ptable, bootVars, panicked, history>>
ExecFails(p) == /\ At(p, "bad") /\ Go(p, Bad(job[p]))
                /\ UNCHANGED <<freelist, dir, proc, cr3, ptable, bootVars, panicked, history>>

\* The guard page is made inaccessible: arguments that do not fit run into it.
Stack(p) == /\ At(p, "stack")
            /\ dir' = [dir EXCEPT ![job[p].d].guard = {job[p].to \div PGSIZE - 2}]
            /\ Go(p, IF job[p].fits THEN [job[p] EXCEPT !.pc = "commit"] ELSE Bad(job[p]))
            /\ UNCHANGED <<freelist, proc, cr3, ptable, bootVars, panicked, history>>

\* Mutant of NewImage: the new directory is not loaded.
NewImageUnloaded(p, d) == UNCHANGED cr3
\* The new image is loaded before the old one is freed.
NewImage(p, d) == switchuvm(p, d)
Commit(p) == LET j == job[p]
             IN  /\ At(p, "commit")
                 /\ proc' = [proc EXCEPT ![p].pgdir = j.d, ![p].sz = j.to]
                 /\ NewImage(p, j.d)
                 /\ Go(p, Bad([j EXCEPT !.op = "old", !.d = proc[p].pgdir]))
                 /\ UNCHANGED <<freelist, dir, ptable, bootVars, panicked, history>>

-----------------------------------------------------------------------------
(* The rest of growproc(), fork() and wait() *)

Grown(p) == /\ At(p, "grown") /\ proc' = [proc EXCEPT ![p].sz = job[p].to] /\ switchuvm(p, proc[p].pgdir)
            /\ Go(p, NoJob)
            /\ UNCHANGED <<freelist, dir, ptable, bootVars, panicked, history>>

\* A size of 0 is taken for an error.
Shrunk(p) == /\ At(p, "shrunk")
             /\ IF job[p].from = 0 THEN UNCHANGED <<proc, cr3>>
                ELSE proc' = [proc EXCEPT ![p].sz = job[p].from] /\ switchuvm(p, proc[p].pgdir)
             /\ Go(p, NoJob)
             /\ UNCHANGED <<freelist, dir, ptable, bootVars, panicked, history>>

\* copyuvm() of one page; the page is lost where no table can be had for it.
Copy(p) ==
    LET j == job[p]
        parent == dir[proc[p].pgdir]
        mem == Head(freelist)
    IN  /\ At(p, "copy")
        /\ CASE j.a >= proc[p].sz -> Go(p, [j EXCEPT !.pc = "born"]) /\ UNCHANGED <<freelist, dir, panicked>>
             [] j.a < proc[p].sz /\ parent.pte[j.a \div PGSIZE] = 0 -> panicked' = "copyuvm" /\ UNCHANGED <<freelist, dir, job>>
             [] j.a < proc[p].sz /\ parent.pte[j.a \div PGSIZE] # 0 /\ freelist = <<>> ->
                  Go(p, Bad(j)) /\ UNCHANGED <<freelist, dir, panicked>>
             [] OTHER -> /\ kalloc /\ UNCHANGED panicked
                         /\ IF HasTable(j.d, j.a) THEN mappages(j.d, j.a, mem) /\ Go(p, [j EXCEPT !.a = j.a + PGSIZE])
                            ELSE Go(p, [j EXCEPT !.pc = "copy_table", !.mem = mem]) /\ UNCHANGED dir
        /\ UNCHANGED <<proc, cr3, ptable, bootVars, history>>
CopyTable(p) ==
    LET j == job[p]
    IN  /\ At(p, "copy_table")
        /\ IF freelist = <<>> THEN Go(p, Bad(j)) /\ leaked' = leaked \cup {j.mem} /\ UNCHANGED <<freelist, dir>>
           ELSE /\ kalloc /\ UNCHANGED leaked
                /\ dir' = [dir EXCEPT ![j.d].tab[PDX(j.a)] = Head(freelist), ![j.d].pte[j.a \div PGSIZE] = j.mem]
                /\ Go(p, [j EXCEPT !.pc = "copy", !.a = j.a + PGSIZE, !.mem = 0])
        /\ UNCHANGED <<proc, cr3, ptable, bootVars, panicked, calls, before>>

\* The child has its own page table; a child that could not get one gives its
\* kernel stack back.
Born(p) == LET q == job[p].q
           IN  /\ At(p, "born") /\ release(p)
               /\ proc' = [proc EXCEPT ![q] = [@ EXCEPT !.state = "run", !.pgdir = job[p].d, !.sz = proc[p].sz, !.parent = p]]
               /\ switchuvm(q, job[p].d)
               /\ Go(p, NoJob)
               /\ UNCHANGED <<freelist, dir, bootVars, panicked, history>>
Unfork(p) == LET q == job[p].q
             IN  /\ At(p, "unfork") /\ release(p)
                 /\ kfree(proc[q].kstack) /\ proc' = [proc EXCEPT ![q] = NoProc]
                 /\ Go(p, NoJob)
                 /\ UNCHANGED <<dir, cr3, bootVars, panicked, history>>
Reaped(p) == /\ At(p, "reaped") /\ release(p)
             /\ proc' = [proc EXCEPT ![job[p].q] = NoProc]
             /\ Go(p, NoJob)
             /\ UNCHANGED <<freelist, dir, cr3, bootVars, panicked, history>>

-----------------------------------------------------------------------------

Boot == kinit1 \/ kinit2 \/ kvmalloc \/ startothers \/ userinit
Step(p) == \/ NewDir(p) \/ Kern(p) \/ NewPage(p) \/ NewTable(p) \/ Undone(p) \/ Dealloc(p) \/ freevm(p) \/ Segment(p) \/ Loaded(p)
           \/ ExecFails(p) \/ Stack(p) \/ Commit(p) \/ Grown(p) \/ Shrunk(p) \/ Copy(p) \/ CopyTable(p) \/ Born(p) \/ Unfork(p) \/ Reaped(p)

Next == \/ Boot
        \/ \E p \in Pid : \/ Step(p) \/ Exit(p)
                          \/ \E segs \in Programs, fits \in BOOLEAN : Exec(p, segs, fits)
                          \/ \E n \in Grow : Sbrk(p, n)
                          \/ \E q \in Pid : Fork(p, q) \/ Wait(p, q)
                          \/ yield(p)

\* A process that runs in the kernel goes on.
Spec == Init /\ [][Next]_vars /\ WF_vars(Boot) /\ \A p \in Pid : WF_vars(Step(p))

-----------------------------------------------------------------------------
(* Properties *)

TypeOK == /\ Range(freelist) \subseteq Frame /\ panicked \in {"no", "remap", "copyuvm"}
          /\ \A p \in Pid : /\ proc[p].state \in {"unused", "embryo", "run", "zombie"}
                            /\ proc[p].sz \in 0..KERNBASE /\ job[p].a \in 0..(KERNBASE + NPTENTRIES * PGSIZE)
          /\ ptable # 0 => job[ptable].op \in {"fork", "wait"}

\* Where a page is: on the free list, a stack, a page directory that some one
\* has, a table or a user page of it, in the hand of a call, or lost.
Dirs == {d \in Frame : dir[d] # NoDir} \cup {job[p].d : p \in {q \in Pid : job[q].d # 0}}
Places == {<<"free", k, freelist[k]>> : k \in DOMAIN freelist}
          \cup {<<"cpu", k, cpus[k]>> : k \in DOMAIN cpus}
          \cup {<<"kstack", p, proc[p].kstack>> : p \in {q \in Pid : proc[q].kstack # 0}}
          \cup {<<"dir", 0, d>> : d \in Dirs}
          \cup (UNION {{<<"kern", <<d, k>>, dir[d].kern[k]>> : k \in DOMAIN dir[d].kern} : d \in Dirs})
          \cup (UNION {{<<"tab", <<d, t>>, dir[d].tab[t]>> : t \in {x \in DOMAIN dir[d].tab : dir[d].tab[x] # 0}} : d \in Dirs})
          \cup (UNION {{<<"page", <<d, g>>, dir[d].pte[g]>> : g \in {x \in Page : dir[d].pte[x] # 0}} : d \in Dirs})
          \cup {<<"hand", p, job[p].mem>> : p \in {q \in Pid : job[q].mem # 0}}
          \cup {<<"lost", 0, f>> : f \in leaked}

\* Every page is in exactly one place: none is in two address spaces, mapped and
\* free, or freed twice, and none is lost but those of a setupkvm() that failed
\* half-way and the one of copyuvm(), whatever calls run out of memory together.
OneUse == /\ Cardinality({x[3] : x \in Places}) = Cardinality(Places)
          /\ boot = <<>> => {x[3] : x \in Places} = Frame

\* Outside of calls exactly the pages below the size of a process are mapped:
\* what copyuvm() and mappages() panic about cannot happen.  A process that
\* gave back all its memory is an exception; it does not get to another call.
SizeMapped == /\ panicked = "no"
              /\ \A p \in Pid : CanCall(p) =>
                    \A g \in Page : dir[proc[p].pgdir].pte[g] # 0 <=> g * PGSIZE < proc[p].sz

\* While a process runs, its page directory is loaded, and in user mode neither the
\* directory nor what the TLB knows has been given to another.
LoadedOwn == \A p \in Pid : proc[p].state = "run" =>
               /\ cr3[p].d \notin Range(freelist) \cup leaked
               /\ CanCall(p) => cr3[p].d = proc[p].pgdir /\ cr3[p].tlb \subseteq Pages(proc[p].pgdir)

\* A call that fails leaves the image of its process as it was, page for page.
FailedKeeps == [][\A p \in Pid : job[p].pc \in {"tables", "undone", "dir", "kern"} /\ job'[p].pc = "user" /\ job[p].op # "old"
                    => dir'[proc'[p].pgdir].pte = before[p] /\ proc'[p].sz = proc[p].sz]_vars

\* The other CPUs come up on pages that their first page table maps, and no
\* process runs while the allocator works without its lock.
BootSafe == /\ Range(cpus) \subseteq 1..NLOW
            /\ (\E p \in Pid : proc[p].state # "unused") => use_lock

\* Every exec(), sbrk(), fork() and wait() comes to an end.
CallsEnd == \A p \in Pid : job[p].pc # "user" ~> job[p].pc = "user" \/ panicked # "no"

\* Pages, mappings and what the CPUs have loaded agree, from the first page
\* that the boot code frees on.
PagesInv == TypeOK /\ OneUse /\ SizeMapped /\ LoadedOwn /\ BootSafe
=============================================================================
