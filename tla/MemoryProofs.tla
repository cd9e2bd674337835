---------------------------- MODULE MemoryProofs ----------------------------
(***************************************************************************)
(* Proofs about Memory, for any number of processes, CPUs and pages, and   *)
(* any programs: pages have one use, sizes and mappings agree, what is     *)
(* loaded is not given away, and calls that fail change nothing.           *)
(***************************************************************************)
EXTENDS Memory, FiniteSetTheorems, SequenceTheorems, WellFoundedInduction, TLAPS

-----------------------------------------------------------------------------
(* Types *)

Table == 0 .. (NTAB - 1)
Link == 0 .. NFRAME
Address == 0 .. (KERNBASE + NPTENTRIES * PGSIZE)
Labels == {"user", "dir", "kern", "seg", "page", "table", "dealloc", "undone", "bad", "loaded", "stack", "commit",
           "tables", "grown", "shrunk", "copy", "copy_table", "born", "unfork", "reaped"}
Ops == {"", "exec", "old", "grow", "fork", "wait"}
Nexts == {"", "grown", "shrunk", "undone", "tables", "stack", "loaded"}
Segs == [end : Nat, fault : STRING]
JobT == [pc : Labels, op : Ops, d : Link, q : 0 .. NPROC, a : Address, from : Nat, to : Nat, segs : Seq(Segs),
         fits : BOOLEAN, mem : Link, next : Nexts]
DirT == [kern : Seq(Frame), tab : [Table -> Link], pte : [Page -> Link], guard : SUBSET Int]
ProcT == [state : {"unused", "embryo", "run", "zombie"}, kstack : Link, pgdir : Link, sz : 0 .. KERNBASE, parent : 0 .. NPROC]
SpaceT == [d : Link, tlb : SUBSET Frame]

Types == /\ freelist \in Seq(Frame) /\ use_lock \in BOOLEAN /\ dir \in [Frame -> DirT] /\ proc \in [Pid -> ProcT]
         /\ cr3 \in [Pid -> SpaceT] /\ job \in [Pid -> JobT] /\ ptable \in 0 .. NPROC /\ cpus \in Seq(1 .. NLOW)
         /\ panicked = "no" /\ leaked \subseteq Frame /\ before \in [Pid -> [Page -> Link]]

-----------------------------------------------------------------------------
(* The invariant *)

\* The use of each page.  A process in wait() has taken over the directory of
\* the zombie, whose kernel stack is gone.
Kstacks == [p \in Pid |-> proc[p].kstack]
Pgdirs == [p \in Pid |-> IF proc[p].kstack = 0 THEN 0 ELSE proc[p].pgdir]
Taken == [p \in Pid |-> IF job[p].op = "grow" THEN 0 ELSE job[p].d]
Hands == [p \in Pid |-> job[p].mem]
Unfreed == {f \in Frame : boot = main \/ (~use_lock /\ f > NLOW)}

Uses == {<<s, 0, 0>> : s \in {"none", "free", "cpu", "lost", "kvm"}}
        \cup {<<s, p, 0>> : s \in {"kstack", "pgdir", "newdir", "hand"}, p \in Pid}
        \cup {<<"kern", d, 0>> : d \in Frame}
        \cup {<<"tab", d, t>> : d \in Frame, t \in Table} \cup {<<"page", d, g>> : d \in Frame, g \in Page}
Once(s) == \A i, k \in DOMAIN s : s[i] = s[k] => i = k

OfSet(own, s, S) == \A f \in Frame : own[f] = <<s, 0, 0>> <=> f \in S
OfProc(own, s, h) == \A f \in Frame, p \in Pid : own[f] = <<s, p, 0>> <=> h[p] = f
OfKern(own, D) == \A f, d \in Frame : own[f] = <<"kern", d, 0>> <=> f \in Range(D[d].kern)
OfTab(own, D) == \A f, d \in Frame : \A t \in Table : own[f] = <<"tab", d, t>> <=> D[d].tab[t] = f
OfPage(own, D) == \A f, d \in Frame : \A g \in Page : own[f] = <<"page", d, g>> <=> D[d].pte[g] = f
DirUses(own, D) == /\ \A f \in Frame : D[f] # NoDir => own[f][1] \in {"kvm", "pgdir", "newdir"}
                   /\ \A f \in Frame : own[f] = <<"kvm", 0, 0>> => D[f] # NoDir
                   /\ \A d \in Frame : Once(D[d].kern)
Owns(own, F, C, L, N, ks, pd, nd, hd, D) ==
    /\ own \in [Frame -> Uses] /\ Once(F) /\ Once(C)
    /\ OfSet(own, "free", Range(F)) /\ OfSet(own, "cpu", Range(C)) /\ OfSet(own, "lost", L) /\ OfSet(own, "none", N)
    /\ OfProc(own, "kstack", ks) /\ OfProc(own, "pgdir", pd) /\ OfProc(own, "newdir", nd) /\ OfProc(own, "hand", hd)
    /\ OfKern(own, D) /\ OfTab(own, D) /\ OfPage(own, D) /\ DirUses(own, D)
OwnsNow(F, C, L, N, ks, pd, nd, hd, D) == \E own : Owns(own, F, C, L, N, ks, pd, nd, hd, D)
Owned == OwnsNow(freelist, cpus, leaked, Unfreed, Kstacks, Pgdirs, Taken, Hands, dir)

\* The pages that hold n bytes, and the directories.
Up(n) == (n + PGSIZE - 1) \div PGSIZE
Below(D, n) == \A g \in Page : D.pte[g] # 0 <=> g < n
Gap(D, lo, k, m) == \A g \in Page : D.pte[g] # 0 <=> (g < lo \/ (k <= g /\ g < m))
Full(D) == Len(D.kern) = NKTAB
Row(g) == g \div NPTENTRIES
Tabled(D) == \A g \in Page : D.pte[g] # 0 => D.tab[Row(g)] # 0
Dir(d) == IF d = 0 THEN NoDir ELSE dir[d]

\* Where a call is.
Shrinks(j) == j.op = "grow" /\ j.next = "shrunk"
Flow(j) ==
    /\ j.op = "" => j = NoJob
    /\ j.op = "exec" => j.pc \in {"dir", "kern", "seg", "page", "table", "dealloc", "undone", "bad", "loaded", "stack",
                                  "commit", "tables"}
    /\ j.op = "old" => j.pc \in {"dealloc", "tables"}
    /\ j.op = "grow" => \/ j.pc \in {"page", "table", "grown"} /\ j.next = "grown"
                        \/ j.pc \in {"dealloc", "undone"} /\ j.next = "undone"
                        \/ j.pc \in {"dealloc", "shrunk"} /\ j.next = "shrunk"
    /\ j.op = "fork" => j.pc \in {"dir", "kern", "copy", "copy_table", "born", "dealloc", "tables", "unfork"}
    /\ j.op = "wait" => j.pc \in {"dealloc", "tables", "reaped"}
    /\ j.op = "exec" /\ j.pc \in {"page", "table"} => j.next \in {"stack", "loaded"}
    /\ j.op = "exec" /\ j.pc = "dealloc" => j.next \in {"undone", "tables"}
    /\ j.op \in {"old", "fork", "wait"} /\ j.pc = "dealloc" => j.next = "tables"
    /\ (j.pc \in {"page", "table"} /\ j.next = "loaded") \/ j.pc = "loaded" => j.segs # <<>>
Where(j, k, D, sz) ==
    LET lo == IF j.next = "tables" THEN 0 ELSE Up(j.from)
    IN  /\ j.d = 0 <=> j.pc \in {"user", "dir", "unfork", "reaped"}
        /\ j.mem # 0 => j.pc \in {"table", "copy_table", "undone"} \/ (j.pc = "dealloc" /\ j.next = "undone")
        /\ j.pc \notin {"user", "dir", "kern", "tables", "unfork", "reaped"} => Full(D)
        /\ j.pc = "kern" => Len(D.kern) <= NKTAB /\ Below(D, 0) /\ (\A t \in Table : D.tab[t] = 0) /\ j.from = 0
        /\ j.pc = "dir" => j.from = 0
        /\ j.pc \in {"page", "table"} => j.from <= j.to /\ j.to < KERNBASE /\ Up(j.from) <= k /\ k <= Up(j.to) /\ Below(D, k)
        /\ j.pc \in {"table", "copy_table"} => j.mem # 0 /\ D.tab[Row(k)] = 0
        /\ j.pc = "table" => k < Up(j.to)
        /\ j.pc = "dealloc" => j.to <= KERNBASE /\ lo <= k /\ \E m \in 0 .. Up(j.to) : Gap(D, lo, k, m)
        /\ j.pc = "dealloc" /\ j.next # "tables" => j.from < KERNBASE
        /\ j.pc \in {"seg", "bad", "undone", "shrunk"} => Below(D, Up(j.from)) /\ j.from < KERNBASE
        /\ j.pc \in {"loaded", "stack", "commit", "grown"} => Below(D, Up(j.to)) /\ j.to < KERNBASE
        /\ j.pc = "tables" => Below(D, 0)
        /\ j.pc \in {"copy", "copy_table"} => k <= Up(sz) /\ Below(D, k)
        /\ j.pc = "copy_table" => k < Up(sz)
        /\ j.pc = "born" => Below(D, Up(sz))
Stage(j, D, sz) == j.a = (j.a \div PGSIZE) * PGSIZE /\ Where(j, j.a \div PGSIZE, D, sz)

\* A process and its image.
Cached(sp, P, n) == \A f \in sp.tlb : \E g \in Page : g < n /\ P.pte[g] = f
Image(pr, j, P, sp, b) ==
    /\ pr.state # "run" => j = NoJob
    /\ pr.state = "unused" => pr = NoProc
    /\ pr.state = "embryo" => pr.pgdir = 0 /\ pr.kstack # 0
    /\ pr.state = "zombie" /\ pr.kstack # 0 => pr.pgdir # 0 /\ Full(P) /\ \E n \in 0 .. NPAGE : Below(P, n)
    /\ pr.state = "run" => pr.kstack # 0 /\ pr.pgdir # 0 /\ Full(P) /\ sp.d = pr.pgdir
    /\ pr.state = "run" /\ j.op = "" => Below(P, 0) \/ (Below(P, Up(pr.sz)) /\ Cached(sp, P, Up(pr.sz)))
    /\ j.op \in {"exec", "fork", "wait", "old"} => Below(P, Up(pr.sz)) /\ Cached(sp, P, Up(pr.sz))
    /\ j.op = "exec" => b = P.pte
    /\ j.op = "grow" => j.d = pr.pgdir
    /\ Shrinks(j) => j.to = pr.sz /\ j.from < pr.sz
    /\ j.op = "grow" /\ ~Shrinks(j) => /\ j.from = pr.sz /\ Cached(sp, P, Up(pr.sz))
                                       /\ b = [g \in Page |-> IF g < Up(pr.sz) THEN P.pte[g] ELSE 0]
Thread(p) == /\ Flow(job[p]) /\ Stage(job[p], Dir(job[p].d), proc[p].sz)
             /\ Image(proc[p], job[p], Dir(Pgdirs[p]), cr3[p], before[p])

\* ptable.lock and the process that a call makes or frees.
Helps(op, x) == ptable # 0 /\ job[ptable].op = op /\ job[ptable].q = x
Locks == /\ \A p \in Pid : ptable = p <=> job[p].op \in {"fork", "wait"}
         /\ \A p \in Pid : job[p].op = "fork" => job[p].q \in Pid /\ proc[job[p].q].state = "embryo"
         /\ \A p \in Pid : job[p].op = "wait" => job[p].q \in Pid /\ proc[job[p].q].state = "zombie" /\ proc[job[p].q].kstack = 0
         /\ \A x \in Pid : proc[x].state = "embryo" => Helps("fork", x)
         /\ \A x \in Pid : proc[x].state = "zombie" /\ proc[x].kstack = 0 => Helps("wait", x)

\* The machine starts.
Booted == /\ \/ boot = main /\ freelist = <<>>
             \/ boot = <<"kvmalloc", "startothers", "kinit2", "userinit">> /\ Len(freelist) = NLOW
             \/ boot = <<"startothers", "kinit2", "userinit">> /\ Len(freelist) + Len(cpus) = NLOW - NKTAB - 1 /\ Len(cpus) < NCPU
             \/ boot = <<"kinit2", "userinit">> /\ Len(freelist) = NLOW - NKTAB - NCPU
             \/ boot = <<"userinit">> /\ Len(freelist) = NFRAME - NKTAB - NCPU
             \/ boot = <<>>
          /\ boot \notin {<<"startothers", "kinit2", "userinit">>, <<"kinit2", "userinit">>, <<"userinit">>, <<>>} => cpus = <<>>
          /\ use_lock <=> boot \in {<<"userinit">>, <<>>}
          /\ ~use_lock => Range(freelist) \subseteq 1 .. NLOW
          /\ boot # <<>> => /\ ptable = 0 /\ proc = [p \in Pid |-> NoProc] /\ job = [p \in Pid |-> NoJob]
                            /\ \A f \in Frame : Below(dir[f], 0)

Inv == Types /\ Owned /\ Booted /\ Locks /\ (\A p \in Pid : Thread(p)) /\ (\A d \in Frame : Tabled(dir[d]))

-----------------------------------------------------------------------------
(* Pages and bytes *)

\* What the proofs use of the constants.
LEMMA Sizes ==
    /\ NPROC \in Nat \ {0} /\ NCPU \in Nat \ {0} /\ NLOW \in Nat /\ NFRAME \in Nat /\ NLOW <= NFRAME
    /\ PGSIZE \in Nat \ {0} /\ NPTENTRIES \in Nat \ {0} /\ NKTAB \in Nat \ {0} /\ KERNBASE \in Nat \ {0}
    /\ NKTAB + NCPU <= NLOW /\ NKTAB + NCPU + NKTAB + 4 <= NFRAME
BY MemoryAssumption

USE Sizes
LEMMA Times == \A x \in Nat, y \in Nat \ {0} : x * y \in Nat /\ (x * y) \div y = x
OBVIOUS

LEMMA TimesOrder == \A x, y \in Nat, n \in Nat \ {0} : /\ x < y <=> x * n < y * n
                                                      /\ (x + 1) * n = x * n + n
OBVIOUS

LEMMA Division == \A x \in Nat, y \in Nat \ {0} : /\ x \div y \in Nat /\ (x \div y) * y <= x
                                                 /\ x < (x \div y) * y + y
OBVIOUS

\* The space for processes is whole page tables.
LEMMA Space == /\ NPAGE \in Nat \ {0} /\ KERNBASE = NPAGE * PGSIZE /\ NTAB \in Nat \ {0}
               /\ \A k \in Page : k \div NPTENTRIES \in Table
<1>1. PICK n \in Nat : KERNBASE = n * (PGSIZE * NPTENTRIES)
  <2> DEFINE m == PGSIZE * NPTENTRIES
  <2>1. m \in Nat \ {0} /\ KERNBASE % m = 0
    BY MemoryAssumption
  <2> HIDE DEF m
  <2>2. \A x \in Nat, y \in Nat \ {0} : x % y = 0 => x = (x \div y) * y
    OBVIOUS
  <2>3. KERNBASE \div m \in Nat /\ KERNBASE = (KERNBASE \div m) * m
    BY <2>1, <2>2, Division
  <2> QED BY <2>3 DEF m
<1>2. n * (PGSIZE * NPTENTRIES) = (n * NPTENTRIES) * PGSIZE /\ n * NPTENTRIES \in Nat
  BY <1>1
<1> DEFINE m == n * NPTENTRIES
<1>3. m \in Nat /\ KERNBASE = m * PGSIZE
  BY <1>1, <1>2
<1>4. NPAGE = m
  <2> HIDE DEF m
  <2> QED BY <1>3, Times DEF NPAGE
<1>5. NTAB = n
  BY <1>4, Times DEF NTAB
<1>6. n # 0
  BY <1>1
<1>7. m # 0
  <2>1. n = 0 \/ n * NPTENTRIES > 0
    OBVIOUS
  <2> QED BY <1>6, <2>1
<1>8. ASSUME NEW k \in Page PROVE k \div NPTENTRIES \in Table
  <2>1. k \in Nat /\ k < n * NPTENTRIES
    BY <1>4, <1>7 DEF Page
  <2>2. k \div NPTENTRIES \in Nat /\ (k \div NPTENTRIES) * NPTENTRIES < n * NPTENTRIES
    BY <2>1, Division
  <2>3. k \div NPTENTRIES < n
    BY <2>2, TimesOrder
  <2> QED BY <1>5, <2>2, <2>3 DEF Table
<1> QED BY <1>3, <1>4, <1>5, <1>6, <1>7, <1>8

LEMMA UpIs ==
    ASSUME NEW n \in Nat
    PROVE  /\ Up(n) \in Nat /\ PGROUNDUP(n) = Up(n) * PGSIZE /\ PGROUNDUP(n) \div PGSIZE = Up(n)
           /\ n <= Up(n) * PGSIZE /\ Up(n) * PGSIZE < n + PGSIZE
<1>1. n + PGSIZE - 1 \in Nat
  OBVIOUS
<1> DEFINE x == n + PGSIZE - 1
           u == x \div PGSIZE
<1>2. x \in Nat /\ x + 1 = n + PGSIZE
  OBVIOUS
<1>3. u \in Nat /\ u * PGSIZE <= x /\ x < u * PGSIZE + PGSIZE
  BY <1>2, Division
<1>4. u * PGSIZE \in Nat /\ (u * PGSIZE) \div PGSIZE = u
  BY <1>3, Times
<1>5. Up(n) = u /\ PGROUNDUP(n) = u * PGSIZE
  BY DEF Up, PGROUNDUP
<1> HIDE DEF x, u
<1> QED BY <1>2, <1>3, <1>4, <1>5

\* A page begins below n bytes just if it is one of the pages that hold them.
LEMMA UpIn ==
    ASSUME NEW n \in Nat, NEW k \in Nat
    PROVE  k * PGSIZE < n <=> k < Up(n)
<1>1. /\ Up(n) \in Nat /\ n <= Up(n) * PGSIZE /\ Up(n) * PGSIZE < n + PGSIZE
  BY UpIs
<1>2. k * PGSIZE \in Nat /\ (k + 1) * PGSIZE = k * PGSIZE + PGSIZE /\ Up(n) * PGSIZE \in Nat
  BY <1>1, TimesOrder, Times
<1>3. /\ k < Up(n) <=> k * PGSIZE < Up(n) * PGSIZE
      /\ Up(n) < k + 1 <=> Up(n) * PGSIZE < (k + 1) * PGSIZE
  BY <1>1, TimesOrder
<1> DEFINE a == k * PGSIZE
           b == Up(n) * PGSIZE
           c == (k + 1) * PGSIZE
<1>4. /\ k < Up(n) <=> a < b
      /\ Up(n) < k + 1 <=> b < c
      /\ c = a + PGSIZE /\ n <= b /\ b < n + PGSIZE /\ a \in Nat /\ b \in Nat
      /\ Up(n) \in Nat
  BY <1>1, <1>2, <1>3
<1> HIDE DEF a, b, c
<1>5. k < Up(n) <=> a < n
  BY <1>4
<1> QED BY <1>5 DEF a

LEMMA UpOrder ==
    /\ Up(0) = 0 /\ Up(KERNBASE) = NPAGE /\ Up(PGSIZE) = 1
    /\ \A m, n \in Nat : m <= n => Up(m) <= Up(n)
    /\ \A n \in Nat : Up(n * PGSIZE) = n /\ (n > 0 => Up(n) > 0)
<1>1. ASSUME NEW n \in Nat PROVE Up(n * PGSIZE) = n
  <2>1. n * PGSIZE \in Nat
    BY Times
  <2> DEFINE a == n * PGSIZE
  <2>2. a \in Nat /\ Up(a) \in Nat
    BY <2>1, UpIs
  <2>3. ~(n * PGSIZE < a) /\ (n > 0 => (n - 1) * PGSIZE < a)
    <3>1. n > 0 => n - 1 \in Nat /\ n - 1 < n
      OBVIOUS
    <3> QED BY <3>1, TimesOrder
  <2> HIDE DEF a
  <2>4. ~(n < Up(a))
    BY <2>2, <2>3, UpIn
  <2>5. n > 0 => n - 1 < Up(a)
    <3>1. CASE n > 0
      <4>1. n - 1 \in Nat
        BY <3>1
      <4> QED BY <2>2, <2>3, <3>1, <4>1, UpIn
    <3> QED BY <3>1
  <2>6. Up(a) = n
    BY <2>2, <2>4, <2>5
  <2> QED BY <2>6 DEF a
<1>2. ASSUME NEW m \in Nat, NEW n \in Nat, m <= n PROVE Up(m) <= Up(n)
  <2>1. Up(m) \in Nat /\ Up(n) \in Nat
    BY UpIs
  <2>2. CASE Up(n) < Up(m)
    <3>1. Up(n) * PGSIZE < m
      BY <2>1, <2>2, UpIn
    <3>2. Up(n) * PGSIZE \in Nat /\ Up(n) * PGSIZE < n
      BY <1>2, <2>1, <3>1, Times
    <3>3. Up(n) < Up(n)
      BY <2>1, <3>2, UpIn
    <3> QED BY <2>1, <3>3
  <2> QED BY <2>1, <2>2
<1>3. ASSUME NEW n \in Nat, n > 0 PROVE Up(n) > 0
  <2>1. 0 * PGSIZE < n
    BY <1>3
  <2>2. 0 < Up(n)
    BY <2>1, UpIn
  <2> QED BY <2>2, UpIs
<1>4. 0 * PGSIZE = 0 /\ 1 * PGSIZE = PGSIZE /\ KERNBASE = NPAGE * PGSIZE /\ NPAGE \in Nat
  BY Space
<1>5. Up(0) = 0
  <2>1. PICK n \in Nat : n = 0
    OBVIOUS
  <2>2. n * PGSIZE = 0 /\ Up(n * PGSIZE) = n
    BY <1>1, <2>1
  <2> QED BY <2>1, <2>2
<1>6. Up(PGSIZE) = 1
  <2>1. PICK n \in Nat : n = 1
    OBVIOUS
  <2>2. n * PGSIZE = PGSIZE /\ Up(n * PGSIZE) = n
    BY <1>1, <2>1
  <2> QED BY <2>1, <2>2
<1>7. Up(KERNBASE) = NPAGE
  BY <1>1, <1>4
<1> QED BY <1>1, <1>2, <1>3, <1>5, <1>6, <1>7

\* Addresses of pages.
LEMMA NextPage ==
    ASSUME NEW a \in Nat, a = (a \div PGSIZE) * PGSIZE
    PROVE  /\ a \div PGSIZE \in Nat
           /\ a + PGSIZE = ((a + PGSIZE) \div PGSIZE) * PGSIZE /\ (a + PGSIZE) \div PGSIZE = a \div PGSIZE + 1
           /\ Skip(a) = a + NPTENTRIES * PGSIZE
           /\ Skip(a) = (Skip(a) \div PGSIZE) * PGSIZE /\ Skip(a) \div PGSIZE = a \div PGSIZE + NPTENTRIES
<1> DEFINE k == a \div PGSIZE
<1>1. k \in Nat /\ a = k * PGSIZE
  BY Division
<1> HIDE DEF k
<1>2. a + PGSIZE = (k + 1) * PGSIZE /\ k + 1 \in Nat
  BY <1>1, TimesOrder
<1>3. ((k + 1) * PGSIZE) \div PGSIZE = k + 1
  BY <1>2, Times
<1>4. Skip(a) = a + NPTENTRIES * PGSIZE
  <2>1. NPTENTRIES - 1 \in Nat /\ NPTENTRIES = (NPTENTRIES - 1) + 1
    OBVIOUS
  <2>2. NPTENTRIES * PGSIZE = (NPTENTRIES - 1) * PGSIZE + PGSIZE
    BY <2>1, TimesOrder
  <2>3. (NPTENTRIES - 1) * PGSIZE \in Nat
    BY <2>1, Times
  <2> QED BY <1>1, <2>2, <2>3 DEF Skip
<1>5. k * PGSIZE + NPTENTRIES * PGSIZE = (k + NPTENTRIES) * PGSIZE
  BY <1>1
<1>6. ((k + NPTENTRIES) * PGSIZE) \div PGSIZE = k + NPTENTRIES
  BY <1>1, Times
<1> QED BY <1>1, <1>2, <1>3, <1>4, <1>5, <1>6 DEF k

LEMMA PageOf ==
    ASSUME NEW a \in Nat, a = (a \div PGSIZE) * PGSIZE, NEW n \in Nat
    PROVE  /\ a < n <=> a \div PGSIZE < Up(n)
           /\ a < n /\ n <= KERNBASE => /\ a \div PGSIZE \in Page /\ PDX(a) \in Table
                                        /\ PDX(a) = (a \div PGSIZE) \div NPTENTRIES
                                        /\ a + PGSIZE \in Address /\ Skip(a) \in Address
<1>1. a \div PGSIZE \in Nat
  BY Division
<1>2. a < n <=> a \div PGSIZE < Up(n)
  BY <1>1, UpIn
<1>3. ASSUME a < n, n <= KERNBASE
      PROVE  /\ a \div PGSIZE \in Page /\ PDX(a) \in Table
             /\ PDX(a) = (a \div PGSIZE) \div NPTENTRIES
             /\ a + PGSIZE \in Address /\ Skip(a) \in Address
  <2>1. a < KERNBASE /\ KERNBASE \in Nat
    BY <1>3
  <2>2. a \div PGSIZE < NPAGE
    BY <1>1, <2>1, UpIn, UpOrder
  <2>3. a \div PGSIZE \in Page
    BY <1>1, <2>2, Space DEF Page
  <2>4. NPTENTRIES * PGSIZE \in Nat /\ PGSIZE <= NPTENTRIES * PGSIZE
    OBVIOUS
  <2> DEFINE r == NPTENTRIES * PGSIZE
  <2>5. r \in Nat /\ PGSIZE <= r /\ Skip(a) = a + r /\ Address = 0 .. KERNBASE + r
    BY <2>4, NextPage DEF Address
  <2> HIDE DEF r
  <2>6. a + PGSIZE \in Address /\ Skip(a) \in Address
    BY <2>1, <2>5
  <2> QED BY <2>3, <2>6, Space DEF PDX
<1> QED BY <1>2, <1>3

-----------------------------------------------------------------------------
(* Sequences in which every page occurs once *)

LEMMA TailOnce ==
    ASSUME NEW S, NEW s \in Seq(S), s # <<>>, Once(s)
    PROVE  /\ Head(s) \in S /\ Head(s) \in Range(s) /\ Tail(s) \in Seq(S) /\ Once(Tail(s))
           /\ Range(Tail(s)) = Range(s) \ {Head(s)} /\ Len(Tail(s)) = Len(s) - 1
<1>1. /\ Len(s) \in Nat /\ Len(s) > 0 /\ DOMAIN s = 1 .. Len(s) /\ Head(s) = s[1] /\ \A i \in 1 .. Len(s) : s[i] \in S
      /\ Tail(s) \in Seq(S) /\ Len(Tail(s)) = Len(s) - 1 /\ DOMAIN Tail(s) = 1 .. (Len(s) - 1)
      /\ \A i \in 1 .. (Len(s) - 1) : Tail(s)[i] = s[i + 1]
  OBVIOUS
<1> DEFINE t == Tail(s)
           n == Len(s)
<1>2. /\ n \in Nat /\ n > 0 /\ DOMAIN s = 1 .. n /\ Head(s) = s[1] /\ \A i \in 1 .. n : s[i] \in S
      /\ t \in Seq(S) /\ Len(t) = n - 1 /\ DOMAIN t = 1 .. (n - 1) /\ \A i \in 1 .. (n - 1) : t[i] = s[i + 1]
  BY <1>1
<1> HIDE DEF t, n
<1>3. \A i, k \in 1 .. n : s[i] = s[k] => i = k
  BY <1>2 DEF Once
<1>4. Once(t)
  <2> SUFFICES ASSUME NEW i \in 1 .. (n - 1), NEW k \in 1 .. (n - 1), t[i] = t[k] PROVE i = k
    BY <1>2 DEF Once
  <2>1. i + 1 \in 1 .. n /\ k + 1 \in 1 .. n /\ s[i + 1] = s[k + 1]
    BY <1>2
  <2> QED BY <1>2, <1>3, <2>1
<1>5. ASSUME NEW x PROVE x \in Range(t) <=> x \in Range(s) \ {Head(s)}
  <2>1. ASSUME x \in Range(t) PROVE x \in Range(s) \ {Head(s)}
    <3>1. PICK i \in 1 .. (n - 1) : x = t[i]
      BY <1>2, <2>1 DEF Range
    <3>2. i + 1 \in 1 .. n /\ 1 \in 1 .. n /\ i + 1 # 1 /\ x = s[i + 1]
      BY <1>2, <3>1
    <3> QED BY <1>2, <1>3, <3>2 DEF Range
  <2>2. ASSUME x \in Range(s) \ {Head(s)} PROVE x \in Range(t)
    <3>1. PICK i \in 1 .. n : x = s[i]
      BY <1>2, <2>2 DEF Range
    <3>2. i # 1
      BY <1>2, <2>2, <3>1
    <3>3. i - 1 \in 1 .. (n - 1) /\ (i - 1) + 1 = i
      BY <1>2, <3>2
    <3>4. t[i - 1] = x
      BY <1>2, <3>1, <3>3
    <3> QED BY <1>2, <3>3, <3>4 DEF Range
  <2> QED BY <2>1, <2>2
<1>6. Head(s) \in Range(s)
  BY <1>2 DEF Range
<1>7. Range(t) = Range(s) \ {Head(s)}
  BY <1>5
<1> QED BY <1>2, <1>4, <1>6, <1>7 DEF t, n

LEMMA PushOnce ==
    ASSUME NEW S, NEW s \in Seq(S), NEW x \in S, x \notin Range(s), Once(s)
    PROVE  <<x>> \o s \in Seq(S) /\ Once(<<x>> \o s) /\ Range(<<x>> \o s) = Range(s) \cup {x}
<1> DEFINE t == <<x>> \o s
           n == Len(s)
<1>1. /\ t \in Seq(S) /\ n \in Nat /\ DOMAIN s = 1 .. n /\ DOMAIN t = 1 .. (n + 1)
      /\ t[1] = x /\ \A i \in 1 .. n : t[i + 1] = s[i]
  OBVIOUS
<1> HIDE DEF t, n
<1>2. \A i \in 1 .. (n + 1) : i # 1 => i - 1 \in 1 .. n /\ t[i] = s[i - 1]
  <2> TAKE i \in 1 .. (n + 1)
  <2>1. CASE i # 1
    <3>1. i - 1 \in 1 .. n /\ (i - 1) + 1 = i
      BY <1>1, <2>1
    <3>2. t[(i - 1) + 1] = s[i - 1]
      BY <1>1, <3>1
    <3> QED BY <3>1, <3>2
  <2> QED BY <2>1
<1>3. \A i, k \in 1 .. n : s[i] = s[k] => i = k
  BY <1>1 DEF Once
<1>4. \A i \in 1 .. n : s[i] # x
  BY <1>1 DEF Range
<1>5. Once(t)
  <2> SUFFICES ASSUME NEW i \in 1 .. (n + 1), NEW k \in 1 .. (n + 1), t[i] = t[k] PROVE i = k
    BY <1>1 DEF Once
  <2>1. CASE i = 1
    BY <1>1, <1>2, <1>4, <2>1
  <2>2. CASE k = 1
    BY <1>1, <1>2, <1>4, <2>2
  <2>3. CASE i # 1 /\ k # 1
    <3>1. i - 1 \in 1 .. n /\ k - 1 \in 1 .. n /\ s[i - 1] = s[k - 1]
      BY <1>2, <2>3
    <3>2. i - 1 = k - 1
      BY <1>3, <3>1
    <3> QED BY <3>2
  <2> QED BY <2>1, <2>2, <2>3
<1>7. ASSUME NEW y PROVE y \in Range(t) <=> y \in Range(s) \cup {x}
  <2>1. ASSUME y \in Range(s) \cup {x} PROVE y \in Range(t)
    <3>1. 1 \in 1 .. (n + 1)
      BY <1>1
    <3>2. CASE y = x
      BY <1>1, <3>1, <3>2 DEF Range
    <3>3. CASE y \in Range(s)
      <4>1. PICK i \in 1 .. n : y = s[i]
        BY <1>1, <3>3 DEF Range
      <4>2. i + 1 \in 1 .. (n + 1)
        BY <1>1
      <4>3. y = t[i + 1]
        BY <1>1, <4>1
      <4> QED BY <1>1, <4>2, <4>3 DEF Range
    <3> QED BY <2>1, <3>2, <3>3
  <2>2. ASSUME y \in Range(t) PROVE y \in Range(s) \cup {x}
    <3>1. PICK i \in 1 .. (n + 1) : y = t[i]
      BY <1>1, <2>2 DEF Range
    <3> QED BY <1>1, <1>2, <3>1, ZenonT(40) DEF Range
  <2> QED BY <2>1, <2>2
<1>8. Range(t) = Range(s) \cup {x}
  BY <1>7
<1> QED BY <1>1, <1>5, <1>8 DEF t

LEMMA AppendOnce ==
    ASSUME NEW S, NEW s \in Seq(S), NEW x \in S, x \notin Range(s), Once(s)
    PROVE  /\ Append(s, x) \in Seq(S) /\ Once(Append(s, x)) /\ Range(Append(s, x)) = Range(s) \cup {x}
           /\ Len(Append(s, x)) = Len(s) + 1
<1> DEFINE u == Append(s, x)
           n == Len(s)
<1>1. /\ u \in Seq(S) /\ n \in Nat /\ DOMAIN s = 1 .. n /\ DOMAIN u = 1 .. (n + 1)
      /\ u[n + 1] = x /\ Len(u) = n + 1 /\ \A i \in 1 .. n : u[i] = s[i]
  OBVIOUS
<1> HIDE DEF u, n
<1>3. \A i, k \in 1 .. n : s[i] = s[k] => i = k
  BY <1>1 DEF Once
<1>4. \A i \in 1 .. n : s[i] # x
  BY <1>1 DEF Range
<1>6. Once(u)
  <2> SUFFICES ASSUME NEW i \in 1 .. (n + 1), NEW k \in 1 .. (n + 1), u[i] = u[k] PROVE i = k
    BY <1>1 DEF Once
  <2>1. (i = n + 1 \/ i \in 1 .. n) /\ (k = n + 1 \/ k \in 1 .. n)
    BY <1>1
  <2> QED BY <1>1, <1>3, <1>4, <2>1
<1>7. ASSUME NEW y PROVE y \in Range(u) <=> y \in Range(s) \cup {x}
  <2>1. ASSUME y \in Range(s) \cup {x} PROVE y \in Range(u)
    <3>1. n + 1 \in 1 .. (n + 1)
      BY <1>1
    <3>2. CASE y = x
      BY <1>1, <3>1, <3>2 DEF Range
    <3>3. CASE y \in Range(s)
      <4>1. PICK i \in 1 .. n : y = s[i]
        BY <1>1, <3>3 DEF Range
      <4>2. i \in 1 .. (n + 1) /\ y = u[i]
        BY <1>1, <4>1
      <4> QED BY <1>1, <4>2 DEF Range
    <3> QED BY <2>1, <3>2, <3>3
  <2>3. ASSUME y \in Range(u) PROVE y \in Range(s) \cup {x}
    <3>1. PICK i \in 1 .. (n + 1) : y = u[i]
      BY <1>1, <2>3 DEF Range
    <3>2. i = n + 1 \/ i \in 1 .. n
      BY <1>1
    <3> QED BY <1>1, <3>1, <3>2 DEF Range
  <2> QED BY <2>1, <2>3
<1>8. Range(u) = Range(s) \cup {x}
  BY <1>7
<1> QED BY <1>1, <1>6, <1>8 DEF u, n

-----------------------------------------------------------------------------
(* A page changes its use *)

LEMMA Changed ==
    ASSUME NEW own \in [Frame -> Uses], NEW f \in Frame, NEW x \in Uses
    PROVE  /\ [own EXCEPT ![f] = x] \in [Frame -> Uses] /\ [own EXCEPT ![f] = x][f] = x
           /\ \A h \in Frame : h # f => [own EXCEPT ![f] = x][h] = own[h]
OBVIOUS

\* own2 is own after page f has come to the use x.
Move(own, own2, f, x) == /\ f \in Frame /\ own2[f] = x /\ \A h \in Frame : h # f => own2[h] = own[h]

LEMMA SetKept ==
    ASSUME NEW own, NEW own2, NEW f, NEW x, Move(own, own2, f, x), NEW s, NEW S, OfSet(own, s, S),
           own[f] # <<s, 0, 0>>, x # <<s, 0, 0>>
    PROVE  OfSet(own2, s, S)
BY DEF Move, OfSet

LEMMA SetLeft ==
    ASSUME NEW own, NEW own2, NEW f, NEW x, Move(own, own2, f, x), NEW s, NEW S, OfSet(own, s, S), x # <<s, 0, 0>>
    PROVE  OfSet(own2, s, S \ {f})
BY DEF Move, OfSet

LEMMA SetJoined ==
    ASSUME NEW own, NEW own2, NEW f, NEW s, NEW x, Move(own, own2, f, x), x = <<s, 0, 0>>, NEW S, OfSet(own, s, S)
    PROVE  OfSet(own2, s, S \cup {f})
BY DEF Move, OfSet

LEMMA ProcKept ==
    ASSUME NEW own, NEW own2, NEW f, NEW x, Move(own, own2, f, x), NEW s, NEW h \in [Pid -> Link], OfProc(own, s, h),
           \A p \in Pid : own[f] # <<s, p, 0>> /\ x # <<s, p, 0>>
    PROVE  OfProc(own2, s, h)
BY SMTT(30) DEF Move, OfProc

LEMMA ProcLeft ==
    ASSUME NEW own, NEW own2, NEW f, NEW x, Move(own, own2, f, x), NEW s, NEW h \in [Pid -> Link], OfProc(own, s, h),
           NEW p \in Pid, h[p] = f, \A q \in Pid : x # <<s, q, 0>>
    PROVE  OfProc(own2, s, [h EXCEPT ![p] = 0])
<1>1. h[p] = f /\ (\A q \in Pid : x # <<s, q, 0>>)
  OBVIOUS
<1>2. \A e \in Frame, q \in Pid : own[e] = <<s, q, 0>> <=> h[q] = e
  BY DEF OfProc
<1>3. own[f] = <<s, p, 0>>
  BY <1>1, <1>2 DEF Move
<1>4. \A q \in Pid : q # p => h[q] # f
  BY <1>2, <1>3 DEF Move
<1>5. \A q \in Pid : [h EXCEPT ![p] = 0][q] = IF q = p THEN 0 ELSE h[q]
  OBVIOUS
<1> SUFFICES ASSUME NEW e \in Frame, NEW q \in Pid
             PROVE  own2[e] = <<s, q, 0>> <=> [h EXCEPT ![p] = 0][q] = e
  BY DEF OfProc
<1>6. CASE e = f
  <2>0. own2[e] = x /\ x # <<s, q, 0>>
    BY <1>1, <1>6 DEF Move
  <2>1. own2[e] # <<s, q, 0>> /\ e # 0
    BY <2>0 DEF Frame
  <2> QED BY <1>4, <1>5, <1>6, <2>1
<1>7. CASE e # f
  BY <1>1, <1>2, <1>5, <1>7 DEF Move, Frame
<1> QED BY <1>6, <1>7

LEMMA ProcJoined ==
    ASSUME NEW own, NEW own2, NEW f, NEW s, NEW p \in Pid, NEW x, Move(own, own2, f, x), x = <<s, p, 0>>, NEW h \in [Pid -> Link],
           OfProc(own, s, h), h[p] = 0, \A q \in Pid : own[f] # <<s, q, 0>>
    PROVE  OfProc(own2, s, [h EXCEPT ![p] = f])
<1>1. x = <<s, p, 0>> /\ h[p] = 0 /\ (\A q \in Pid : own[f] # <<s, q, 0>>)
  OBVIOUS
<1>2. \A e \in Frame, q \in Pid : own[e] = <<s, q, 0>> <=> h[q] = e
  BY DEF OfProc
<1>3. \A q \in Pid : [h EXCEPT ![p] = f][q] = IF q = p THEN f ELSE h[q]
  OBVIOUS
<1> SUFFICES ASSUME NEW e \in Frame, NEW q \in Pid
             PROVE  own2[e] = <<s, q, 0>> <=> [h EXCEPT ![p] = f][q] = e
  BY DEF OfProc
<1>4. CASE e = f
  <2>1. h[q] # f
    BY <1>1, <1>2 DEF Move
  <2> QED BY <1>1, <1>3, <1>4, <2>1 DEF Move
<1>5. CASE e # f
  <2>1. h[p] # e
    BY <1>1 DEF Frame
  <2> QED BY <1>2, <1>3, <1>5, <2>1 DEF Move
<1> QED BY <1>4, <1>5

LEMMA KernKept ==
    ASSUME NEW own, NEW own2, NEW f, NEW x, Move(own, own2, f, x), NEW D \in [Frame -> DirT], OfKern(own, D),
           \A d \in Frame : own[f] # <<"kern", d, 0>> /\ x # <<"kern", d, 0>>
    PROVE  OfKern(own2, D)
BY DEF Move, OfKern

LEMMA KernJoined ==
    ASSUME NEW own, NEW own2, NEW f, NEW d \in Frame, NEW x, Move(own, own2, f, x), x = <<"kern", d, 0>>, NEW D \in [Frame -> DirT],
           OfKern(own, D), \A c \in Frame : own[f] # <<"kern", c, 0>>, Once(D[d].kern)
    PROVE  OfKern(own2, [D EXCEPT ![d].kern = Append(D[d].kern, f)])
<1>a. \A e, c \in Frame : own[e] = <<"kern", c, 0>> <=> e \in Range(D[c].kern)
  BY DEF OfKern
<1>1. x = <<"kern", d, 0>> /\ (\A c \in Frame : own[f] # <<"kern", c, 0>>) /\ Once(D[d].kern)
  OBVIOUS
<1>2. f \notin Range(D[d].kern)
  BY <1>1, <1>a DEF Move
<1>3. Range(Append(D[d].kern, f)) = Range(D[d].kern) \cup {f}
  <2>1. D[d].kern \in Seq(Frame) /\ f \in Frame
    BY DEF Move, DirT
  <2> DEFINE k == D[d].kern
  <2>2. k \in Seq(Frame) /\ f \in Frame /\ f \notin Range(k) /\ Once(k)
    BY <1>1, <1>2, <2>1
  <2> HIDE DEF k
  <2>3. Range(Append(k, f)) = Range(k) \cup {f}
    BY <2>2, AppendOnce
  <2> QED BY <2>3 DEF k
<1>4. \A c \in Frame : [D EXCEPT ![d].kern = Append(D[d].kern, f)][c].kern
                          = IF c = d THEN Append(D[d].kern, f) ELSE D[c].kern
  BY DEF DirT
<1> HIDE DEF Move
<1> SUFFICES ASSUME NEW e \in Frame, NEW c \in Frame
             PROVE  own2[e] = <<"kern", c, 0>> <=> e \in Range([D EXCEPT ![d].kern = Append(D[d].kern, f)][c].kern)
  BY DEF OfKern
<1>5. CASE c = d
  BY <1>1, <1>a, <1>3, <1>4, <1>5 DEF Move
<1>6. CASE c # d
  BY <1>1, <1>a, <1>4, <1>6 DEF Move
<1> QED BY <1>5, <1>6

LEMMA KernLeft ==
    ASSUME NEW own, NEW own2, NEW f, NEW x, Move(own, own2, f, x), NEW D \in [Frame -> DirT], OfKern(own, D),
           NEW d \in Frame, own[f] = <<"kern", d, 0>>, \A c \in Frame : x # <<"kern", c, 0>>, Once(D[d].kern),
           D[d].kern # <<>>, f = Head(D[d].kern)
    PROVE  OfKern(own2, [D EXCEPT ![d].kern = Tail(D[d].kern)])
<1>a. \A e, c \in Frame : own[e] = <<"kern", c, 0>> <=> e \in Range(D[c].kern)
  BY DEF OfKern
<1>1. own[f] = <<"kern", d, 0>> /\ (\A c \in Frame : x # <<"kern", c, 0>>) /\ Once(D[d].kern) /\ D[d].kern # <<>> /\ f = Head(D[d].kern)
  OBVIOUS
<1>2. Range(Tail(D[d].kern)) = Range(D[d].kern) \ {f}
  BY <1>1, TailOnce DEF DirT
<1>3. \A c \in Frame : [D EXCEPT ![d].kern = Tail(D[d].kern)][c].kern = IF c = d THEN Tail(D[d].kern) ELSE D[c].kern
  BY DEF DirT
<1> SUFFICES ASSUME NEW e \in Frame, NEW c \in Frame
             PROVE  own2[e] = <<"kern", c, 0>> <=> e \in Range([D EXCEPT ![d].kern = Tail(D[d].kern)][c].kern)
  BY DEF OfKern
<1>4. CASE c = d
  BY <1>1, <1>a, <1>2, <1>3, <1>4, ZenonT(40) DEF Move
<1>5. CASE c # d
  <2>1. e = f => own[e] # <<"kern", c, 0>> /\ own2[e] # <<"kern", c, 0>>
    <3>1. own2[f] # <<"kern", c, 0>>
      BY <1>1 DEF Move
    <3> QED BY <1>1, <1>5, <3>1
  <2> QED BY <1>a, <1>3, <1>5, <2>1 DEF Move
<1> QED BY <1>4, <1>5

LEMMA TabKept ==
    ASSUME NEW own, NEW own2, NEW f, NEW x, Move(own, own2, f, x), NEW D \in [Frame -> DirT], OfTab(own, D),
           \A d \in Frame, t \in Table : own[f] # <<"tab", d, t>> /\ x # <<"tab", d, t>>
    PROVE  OfTab(own2, D)
<1>a. \A e, c \in Frame : \A i \in Table : own[e] = <<"tab", c, i>> <=> D[c].tab[i] = e
  BY DEF OfTab
<1>c. f \in Frame /\ 0 \notin Frame /\ own2[f] = x /\ \A h \in Frame : h # f => own2[h] = own[h]
  BY DEF Move, Frame
<1>1. \A d \in Frame, t \in Table : own[f] # <<"tab", d, t>> /\ x # <<"tab", d, t>>
  OBVIOUS
<1> SUFFICES ASSUME NEW e \in Frame, NEW c \in Frame, NEW i \in Table
             PROVE  own2[e] = <<"tab", c, i>> <=> D[c].tab[i] = e
  BY DEF OfTab
<1>2. own[e] = <<"tab", c, i>> <=> D[c].tab[i] = e
  BY <1>a
<1>3. e = f => own[e] # <<"tab", c, i>> /\ own2[e] # <<"tab", c, i>>
  BY <1>1, <1>c
<1> QED BY <1>c, <1>2, <1>3

LEMMA TabJoined ==
    ASSUME NEW own, NEW own2, NEW f, NEW d \in Frame, NEW t \in Table, NEW x, Move(own, own2, f, x), x = <<"tab", d, t>>,
           NEW D \in [Frame -> DirT], OfTab(own, D), \A c \in Frame, i \in Table : own[f] # <<"tab", c, i>>, D[d].tab[t] = 0
    PROVE  OfTab(own2, [D EXCEPT ![d].tab[t] = f])
<1>a. \A e, c \in Frame : \A i \in Table : own[e] = <<"tab", c, i>> <=> D[c].tab[i] = e
  BY DEF OfTab
<1>c. f \in Frame /\ 0 \notin Frame /\ own2[f] = x /\ \A h \in Frame : h # f => own2[h] = own[h]
  BY DEF Move, Frame
<1>1. x = <<"tab", d, t>> /\ (\A c \in Frame, i \in Table : own[f] # <<"tab", c, i>>) /\ D[d].tab[t] = 0
  OBVIOUS
<1> DEFINE D2 == [D EXCEPT ![d].tab[t] = f]
<1>2. \A c \in Frame, i \in Table : D2[c].tab[i] = IF c = d /\ i = t THEN f ELSE D[c].tab[i]
  BY DEF DirT
<1> HIDE DEF D2
<1>3. ASSUME NEW e \in Frame, NEW c \in Frame, NEW i \in Table PROVE own2[e] = <<"tab", c, i>> <=> D2[c].tab[i] = e
  <2>1. D2[c].tab[i] = IF c = d /\ i = t THEN f ELSE D[c].tab[i]
    BY <1>2
  <2>2. own[e] = <<"tab", c, i>> <=> D[c].tab[i] = e
    BY <1>a
  <2>3. CASE e = f
    <3>1. own[e] # <<"tab", c, i>>
      BY <1>1, <2>3
    <3>2. own2[e] = <<"tab", c, i>> <=> c = d /\ i = t
      BY <1>1, <1>c, <2>3
    <3> QED BY <2>1, <2>2, <2>3, <3>1, <3>2
  <2>4. CASE e # f
    <3>1. own2[e] = own[e]
      BY <1>c, <2>4
    <3>2. c = d /\ i = t => D[c].tab[i] # e
      BY <1>1, <1>c
    <3> QED BY <2>1, <2>2, <2>4, <3>1, <3>2
  <2> QED BY <2>3, <2>4
<1>4. OfTab(own2, D2)
  BY <1>3 DEF OfTab
<1> QED BY <1>4 DEF D2

LEMMA TabLeft ==
    ASSUME NEW own, NEW own2, NEW f, NEW x, Move(own, own2, f, x), NEW D \in [Frame -> DirT], OfTab(own, D),
           NEW d \in Frame, NEW t \in Table, D[d].tab[t] = f, \A c \in Frame, i \in Table : x # <<"tab", c, i>>
    PROVE  OfTab(own2, [D EXCEPT ![d].tab[t] = 0])
<1>a. \A e, c \in Frame : \A i \in Table : own[e] = <<"tab", c, i>> <=> D[c].tab[i] = e
  BY DEF OfTab
<1>c. f \in Frame /\ 0 \notin Frame /\ own2[f] = x /\ \A h \in Frame : h # f => own2[h] = own[h]
  BY DEF Move, Frame
<1>1. D[d].tab[t] = f /\ (\A c \in Frame, i \in Table : x # <<"tab", c, i>>)
  OBVIOUS
<1> DEFINE D2 == [D EXCEPT ![d].tab[t] = 0]
<1>2. \A c \in Frame, i \in Table : D2[c].tab[i] = IF c = d /\ i = t THEN 0 ELSE D[c].tab[i]
  BY DEF DirT
<1> HIDE DEF D2
<1>3. ASSUME NEW e \in Frame, NEW c \in Frame, NEW i \in Table PROVE own2[e] = <<"tab", c, i>> <=> D2[c].tab[i] = e
  <2>1. D2[c].tab[i] = IF c = d /\ i = t THEN 0 ELSE D[c].tab[i]
    BY <1>2
  <2>2. own[e] = <<"tab", c, i>> <=> D[c].tab[i] = e
    BY <1>a
  <2>3. CASE e = f
    <3>1. own[e] = <<"tab", d, t>>
      BY <1>1, <1>a, <2>3
    <3>2. own2[e] # <<"tab", c, i>>
      BY <1>1, <1>c, <2>3
    <3>3. D2[c].tab[i] # e
      <4>1. CASE c = d /\ i = t
        BY <1>c, <2>1, <2>3, <4>1
      <4>2. CASE ~(c = d /\ i = t)
        <5>1. own[e] # <<"tab", c, i>>
          BY <3>1, <4>2
        <5> QED BY <2>1, <2>2, <4>2, <5>1
      <4> QED BY <4>1, <4>2
    <3> QED BY <3>2, <3>3
  <2>4. CASE e # f
    <3>1. own2[e] = own[e] /\ e # 0
      BY <1>c, <2>4
    <3>2. c = d /\ i = t => D[c].tab[i] # e
      BY <1>1, <2>4
    <3> QED BY <2>1, <2>2, <2>4, <3>1, <3>2
  <2> QED BY <2>3, <2>4
<1>4. OfTab(own2, D2)
  BY <1>3 DEF OfTab
<1> QED BY <1>4 DEF D2

LEMMA PageKept ==
    ASSUME NEW own, NEW own2, NEW f, NEW x, Move(own, own2, f, x), NEW D \in [Frame -> DirT], OfPage(own, D),
           \A d \in Frame, g \in Page : own[f] # <<"page", d, g>> /\ x # <<"page", d, g>>
    PROVE  OfPage(own2, D)
<1>a. \A e, c \in Frame : \A i \in Page : own[e] = <<"page", c, i>> <=> D[c].pte[i] = e
  BY DEF OfPage
<1>c. f \in Frame /\ 0 \notin Frame /\ own2[f] = x /\ \A h \in Frame : h # f => own2[h] = own[h]
  BY DEF Move, Frame
<1>1. \A d \in Frame, g \in Page : own[f] # <<"page", d, g>> /\ x # <<"page", d, g>>
  OBVIOUS
<1> SUFFICES ASSUME NEW e \in Frame, NEW c \in Frame, NEW i \in Page
             PROVE  own2[e] = <<"page", c, i>> <=> D[c].pte[i] = e
  BY DEF OfPage
<1>2. own[e] = <<"page", c, i>> <=> D[c].pte[i] = e
  BY <1>a
<1>3. e = f => own[e] # <<"page", c, i>> /\ own2[e] # <<"page", c, i>>
  BY <1>1, <1>c
<1> QED BY <1>c, <1>2, <1>3

LEMMA PageJoined ==
    ASSUME NEW own, NEW own2, NEW f, NEW d \in Frame, NEW g \in Page, NEW x, Move(own, own2, f, x), x = <<"page", d, g>>,
           NEW D \in [Frame -> DirT], OfPage(own, D), \A c \in Frame, i \in Page : own[f] # <<"page", c, i>>, D[d].pte[g] = 0
    PROVE  OfPage(own2, [D EXCEPT ![d].pte[g] = f])
<1>a. \A e, c \in Frame : \A i \in Page : own[e] = <<"page", c, i>> <=> D[c].pte[i] = e
  BY DEF OfPage
<1>c. f \in Frame /\ 0 \notin Frame /\ own2[f] = x /\ \A h \in Frame : h # f => own2[h] = own[h]
  BY DEF Move, Frame
<1>1. x = <<"page", d, g>> /\ (\A c \in Frame, i \in Page : own[f] # <<"page", c, i>>) /\ D[d].pte[g] = 0
  OBVIOUS
<1> DEFINE D2 == [D EXCEPT ![d].pte[g] = f]
<1>2. \A c \in Frame, i \in Page : D2[c].pte[i] = IF c = d /\ i = g THEN f ELSE D[c].pte[i]
  BY DEF DirT
<1> HIDE DEF D2
<1>3. ASSUME NEW e \in Frame, NEW c \in Frame, NEW i \in Page PROVE own2[e] = <<"page", c, i>> <=> D2[c].pte[i] = e
  <2>1. D2[c].pte[i] = IF c = d /\ i = g THEN f ELSE D[c].pte[i]
    BY <1>2
  <2>2. own[e] = <<"page", c, i>> <=> D[c].pte[i] = e
    BY <1>a
  <2>3. CASE e = f
    <3>1. own[e] # <<"page", c, i>>
      BY <1>1, <2>3
    <3>2. own2[e] = <<"page", c, i>> <=> c = d /\ i = g
      BY <1>1, <1>c, <2>3
    <3> QED BY <2>1, <2>2, <2>3, <3>1, <3>2
  <2>4. CASE e # f
    <3>1. own2[e] = own[e]
      BY <1>c, <2>4
    <3>2. c = d /\ i = g => D[c].pte[i] # e
      BY <1>1, <1>c
    <3> QED BY <2>1, <2>2, <2>4, <3>1, <3>2
  <2> QED BY <2>3, <2>4
<1>4. OfPage(own2, D2)
  BY <1>3 DEF OfPage
<1> QED BY <1>4 DEF D2

LEMMA PageLeft ==
    ASSUME NEW own, NEW own2, NEW f, NEW x, Move(own, own2, f, x), NEW D \in [Frame -> DirT], OfPage(own, D),
           NEW d \in Frame, NEW g \in Page, D[d].pte[g] = f, \A c \in Frame, i \in Page : x # <<"page", c, i>>
    PROVE  OfPage(own2, [D EXCEPT ![d].pte[g] = 0])
<1>a. \A e, c \in Frame : \A i \in Page : own[e] = <<"page", c, i>> <=> D[c].pte[i] = e
  BY DEF OfPage
<1>c. f \in Frame /\ 0 \notin Frame /\ own2[f] = x /\ \A h \in Frame : h # f => own2[h] = own[h]
  BY DEF Move, Frame
<1>1. D[d].pte[g] = f /\ (\A c \in Frame, i \in Page : x # <<"page", c, i>>)
  OBVIOUS
<1> DEFINE D2 == [D EXCEPT ![d].pte[g] = 0]
<1>2. \A c \in Frame, i \in Page : D2[c].pte[i] = IF c = d /\ i = g THEN 0 ELSE D[c].pte[i]
  BY DEF DirT
<1> HIDE DEF D2
<1>3. ASSUME NEW e \in Frame, NEW c \in Frame, NEW i \in Page PROVE own2[e] = <<"page", c, i>> <=> D2[c].pte[i] = e
  <2>1. D2[c].pte[i] = IF c = d /\ i = g THEN 0 ELSE D[c].pte[i]
    BY <1>2
  <2>2. own[e] = <<"page", c, i>> <=> D[c].pte[i] = e
    BY <1>a
  <2>3. CASE e = f
    <3>1. own[e] = <<"page", d, g>>
      BY <1>1, <1>a, <2>3
    <3>2. own2[e] # <<"page", c, i>>
      BY <1>1, <1>c, <2>3
    <3>3. D2[c].pte[i] # e
      <4>1. CASE c = d /\ i = g
        BY <1>c, <2>1, <2>3, <4>1
      <4>2. CASE ~(c = d /\ i = g)
        <5>1. own[e] # <<"page", c, i>>
          BY <3>1, <4>2
        <5> QED BY <2>1, <2>2, <4>2, <5>1
      <4> QED BY <4>1, <4>2
    <3> QED BY <3>2, <3>3
  <2>4. CASE e # f
    <3>1. own2[e] = own[e] /\ e # 0
      BY <1>c, <2>4
    <3>2. c = d /\ i = g => D[c].pte[i] # e
      BY <1>1, <2>4
    <3> QED BY <2>1, <2>2, <2>4, <3>1, <3>2
  <2> QED BY <2>3, <2>4
<1>4. OfPage(own2, D2)
  BY <1>3 DEF OfPage
<1> QED BY <1>4 DEF D2

-----------------------------------------------------------------------------
(* Pages are taken and given back *)

Typed(F, C, L, ks, pd, nd, hd, D) ==
    /\ F \in Seq(Frame) /\ C \in Seq(Frame) /\ L \subseteq Frame /\ ks \in [Pid -> Link] /\ pd \in [Pid -> Link]
    /\ nd \in [Pid -> Link] /\ hd \in [Pid -> Link] /\ D \in [Frame -> DirT]
DirKinds == {"kvm", "pgdir", "newdir"}

\* Where the page is not, nor comes to, nothing changes.
LEMMA Others ==
    ASSUME NEW own, NEW F, NEW C, NEW L, NEW N, NEW ks, NEW pd, NEW nd, NEW hd, NEW D, Typed(F, C, L, ks, pd, nd, hd, D),
           Owns(own, F, C, L, N, ks, pd, nd, hd, D), NEW own2, NEW f, NEW x, Move(own, own2, f, x)
    PROVE  /\ own[f][1] # "free" /\ x[1] # "free" => OfSet(own2, "free", Range(F))
           /\ own[f][1] # "cpu" /\ x[1] # "cpu" => OfSet(own2, "cpu", Range(C))
           /\ own[f][1] # "lost" /\ x[1] # "lost" => OfSet(own2, "lost", L)
           /\ own[f][1] # "none" /\ x[1] # "none" => OfSet(own2, "none", N)
           /\ own[f][1] # "kstack" /\ x[1] # "kstack" => OfProc(own2, "kstack", ks)
           /\ own[f][1] # "pgdir" /\ x[1] # "pgdir" => OfProc(own2, "pgdir", pd)
           /\ own[f][1] # "newdir" /\ x[1] # "newdir" => OfProc(own2, "newdir", nd)
           /\ own[f][1] # "hand" /\ x[1] # "hand" => OfProc(own2, "hand", hd)
           /\ own[f][1] # "kern" /\ x[1] # "kern" => OfKern(own2, D)
           /\ own[f][1] # "tab" /\ x[1] # "tab" => OfTab(own2, D)
           /\ own[f][1] # "page" /\ x[1] # "page" => OfPage(own2, D)
           /\ own[f][1] \notin DirKinds /\ x[1] \notin DirKinds => DirUses(own2, D)
<1>1. /\ ks \in [Pid -> Link] /\ pd \in [Pid -> Link] /\ nd \in [Pid -> Link] /\ hd \in [Pid -> Link] /\ D \in [Frame -> DirT]
  BY DEF Typed
<1>2. \A s, y, z : \A u : u[1] # s => u # <<s, y, z>>
  OBVIOUS
<1>3. own[f][1] # "free" /\ x[1] # "free" => OfSet(own2, "free", Range(F))
  BY <1>2, SetKept DEF Owns
<1>4. own[f][1] # "cpu" /\ x[1] # "cpu" => OfSet(own2, "cpu", Range(C))
  BY <1>2, SetKept DEF Owns
<1>5. own[f][1] # "lost" /\ x[1] # "lost" => OfSet(own2, "lost", L)
  BY <1>2, SetKept DEF Owns
<1>6. own[f][1] # "none" /\ x[1] # "none" => OfSet(own2, "none", N)
  BY <1>2, SetKept DEF Owns
<1>7. own[f][1] # "kstack" /\ x[1] # "kstack" => OfProc(own2, "kstack", ks)
  BY <1>1, <1>2, ProcKept DEF Owns
<1>8. own[f][1] # "pgdir" /\ x[1] # "pgdir" => OfProc(own2, "pgdir", pd)
  BY <1>1, <1>2, ProcKept DEF Owns
<1>9. own[f][1] # "newdir" /\ x[1] # "newdir" => OfProc(own2, "newdir", nd)
  BY <1>1, <1>2, ProcKept DEF Owns
<1>10. own[f][1] # "hand" /\ x[1] # "hand" => OfProc(own2, "hand", hd)
  BY <1>1, <1>2, ProcKept DEF Owns
<1>11. own[f][1] # "kern" /\ x[1] # "kern" => OfKern(own2, D)
  BY <1>1, <1>2, KernKept DEF Owns
<1>12. own[f][1] # "tab" /\ x[1] # "tab" => OfTab(own2, D)
  BY <1>1, <1>2, TabKept DEF Owns
<1>13. own[f][1] # "page" /\ x[1] # "page" => OfPage(own2, D)
  BY <1>1, <1>2, PageKept DEF Owns
<1>14. ASSUME own[f][1] \notin DirKinds, x[1] \notin DirKinds PROVE DirUses(own2, D)
  <2>1. DirUses(own, D) /\ f \in Frame /\ own2[f] = x /\ \A h \in Frame : h # f => own2[h] = own[h]
    BY DEF Owns, Move
  <2>2. ASSUME NEW h \in Frame, D[h] # NoDir PROVE own2[h][1] \in {"kvm", "pgdir", "newdir"}
    BY <1>14, <2>1, <2>2 DEF DirUses, DirKinds
  <2>3. ASSUME NEW h \in Frame, own2[h] = <<"kvm", 0, 0>> PROVE D[h] # NoDir
    <3>1. h # f
      BY <1>14, <2>1, <2>3 DEF DirKinds
    <3> QED BY <2>1, <2>3, <3>1 DEF DirUses
  <2> QED BY <2>1, <2>2, <2>3 DEF DirUses
<1> QED BY <1>3, <1>4, <1>5, <1>6, <1>7, <1>8, <1>9, <1>10, <1>11, <1>12, <1>13, <1>14

\* The page that kalloc() takes is free, and no page directory.
LEMMA FirstFree ==
    ASSUME NEW own, NEW F, NEW C, NEW L, NEW N, NEW ks, NEW pd, NEW nd, NEW hd, NEW D, Typed(F, C, L, ks, pd, nd, hd, D),
           Owns(own, F, C, L, N, ks, pd, nd, hd, D), F # <<>>
    PROVE  /\ Head(F) \in Frame /\ own[Head(F)] = <<"free", 0, 0>> /\ own[Head(F)][1] = "free" /\ D[Head(F)] = NoDir
           /\ Tail(F) \in Seq(Frame) /\ Once(Tail(F))
           /\ \A own2, x : Move(own, own2, Head(F), x) /\ x[1] # "free" => OfSet(own2, "free", Range(Tail(F)))
<1>1. F \in Seq(Frame) /\ Once(F) /\ OfSet(own, "free", Range(F)) /\ DirUses(own, D)
  BY DEF Typed, Owns
<1>2. /\ Head(F) \in Frame /\ Head(F) \in Range(F) /\ Tail(F) \in Seq(Frame) /\ Once(Tail(F))
      /\ Range(Tail(F)) = Range(F) \ {Head(F)}
  BY <1>1, TailOnce
<1>3. own[Head(F)] = <<"free", 0, 0>>
  BY <1>1, <1>2 DEF OfSet
<1>4. own[Head(F)][1] = "free"
  BY <1>3
<1>5. D[Head(F)] = NoDir
  BY <1>1, <1>2, <1>4 DEF DirUses
<1>6. ASSUME NEW own2, NEW x, Move(own, own2, Head(F), x), x[1] # "free" PROVE OfSet(own2, "free", Range(Tail(F)))
  <2>1. x # <<"free", 0, 0>>
    BY <1>6
  <2> QED BY <1>1, <1>2, <1>6, <2>1, SetLeft
<1> QED BY <1>2, <1>3, <1>4, <1>5, <1>6

\* The page that kfree() puts back.
LEMMA BackToFree ==
    ASSUME NEW own, NEW F, NEW C, NEW L, NEW N, NEW ks, NEW pd, NEW nd, NEW hd, NEW D, Typed(F, C, L, ks, pd, nd, hd, D),
           Owns(own, F, C, L, N, ks, pd, nd, hd, D), NEW f \in Frame, own[f][1] # "free", NEW own2, Move(own, own2, f, <<"free", 0, 0>>)
    PROVE  <<f>> \o F \in Seq(Frame) /\ Once(<<f>> \o F) /\ OfSet(own2, "free", Range(<<f>> \o F))
<1>1. F \in Seq(Frame) /\ Once(F) /\ OfSet(own, "free", Range(F))
  BY DEF Typed, Owns
<1>2. own[f] # <<"free", 0, 0>>
  OBVIOUS
<1>3. f \notin Range(F)
  BY <1>1, <1>2 DEF OfSet
<1>4. <<f>> \o F \in Seq(Frame) /\ Once(<<f>> \o F) /\ Range(<<f>> \o F) = Range(F) \cup {f}
  BY <1>1, <1>3, PushOnce
<1>5. OfSet(own2, "free", Range(F) \cup {f})
  BY <1>1, SetJoined
<1> QED BY <1>4, <1>5

LEMMA WhoseDir ==
    ASSUME NEW own, NEW F, NEW C, NEW L, NEW N, NEW ks, NEW pd, NEW nd, NEW hd, NEW D,
           Owns(own, F, C, L, N, ks, pd, nd, hd, D), NEW d \in Frame, \E p \in Pid : nd[p] = d \/ pd[p] = d
    PROVE  own[d][1] \in {"pgdir", "newdir"} /\ own[d] # <<"kvm", 0, 0>>
<1>1. PICK p \in Pid : nd[p] = d \/ pd[p] = d
  OBVIOUS
<1>2. own[d] = <<"newdir", p, 0>> \/ own[d] = <<"pgdir", p, 0>>
  BY <1>1 DEF Owns, OfProc
<1> QED BY <1>2

LEMMA DirChanged ==
    ASSUME NEW own, NEW D, NEW D2, NEW d \in Frame, DirUses(own, D), own[d][1] \in {"pgdir", "newdir"},
           \A c \in Frame : c # d => D2[c] = D[c], Once(D2[d].kern)
    PROVE  DirUses(own, D2)
BY DEF DirUses

LEMMA DirPassed ==
    ASSUME NEW own, NEW own2, NEW f, NEW x, Move(own, own2, f, x), NEW D, DirUses(own, D), x[1] \in {"pgdir", "newdir"}
    PROVE  DirUses(own2, D)
<1>1. /\ f \in Frame /\ own2[f] = x /\ \A h \in Frame : h # f => own2[h] = own[h]
      /\ \A h \in Frame : D[h] # NoDir => own[h][1] \in {"kvm", "pgdir", "newdir"}
      /\ \A h \in Frame : own[h] = <<"kvm", 0, 0>> => D[h] # NoDir
      /\ \A h \in Frame : Once(D[h].kern)
  BY DEF Move, DirUses
<1>2. own2[f] # <<"kvm", 0, 0>>
  BY <1>1
<1>3. ASSUME NEW h \in Frame PROVE (D[h] # NoDir => own2[h][1] \in {"kvm", "pgdir", "newdir"}) /\ (own2[h] = <<"kvm", 0, 0>> => D[h] # NoDir)
  <2>1. CASE h = f
    BY <1>1, <1>2, <2>1
  <2>2. CASE h # f
    BY <1>1, <2>2
  <2> QED BY <2>1, <2>2
<1> QED BY <1>1, <1>3 DEF DirUses

LEMMA SameKern ==
    ASSUME NEW own, NEW D, NEW D2, OfKern(own, D), \A c \in Frame : D2[c].kern = D[c].kern PROVE OfKern(own, D2)
BY DEF OfKern

LEMMA SameTab ==
    ASSUME NEW own, NEW D, NEW D2, OfTab(own, D), \A c \in Frame : D2[c].tab = D[c].tab PROVE OfTab(own, D2)
BY DEF OfTab

LEMMA SamePage ==
    ASSUME NEW own, NEW D, NEW D2, OfPage(own, D), \A c \in Frame : D2[c].pte = D[c].pte PROVE OfPage(own, D2)
BY DEF OfPage

\* Into the hand of a call.
LEMMA TakeHand ==
    ASSUME NEW F, NEW C, NEW L, NEW N, NEW ks, NEW pd, NEW nd, NEW hd, NEW D, Typed(F, C, L, ks, pd, nd, hd, D),
           OwnsNow(F, C, L, N, ks, pd, nd, hd, D), F # <<>>, NEW p \in Pid, hd[p] = 0
    PROVE  OwnsNow(Tail(F), C, L, N, ks, pd, nd, [hd EXCEPT ![p] = Head(F)], D)
<1>1. PICK own : Owns(own, F, C, L, N, ks, pd, nd, hd, D)
  BY DEF OwnsNow
<1> DEFINE f == Head(F)
           x == <<"hand", p, 0>>
           own2 == [own EXCEPT ![f] = x]
<1>2. f \in Frame /\ own[f][1] = "free" /\ Once(Tail(F)) /\ D[f] = NoDir
  BY <1>1, FirstFree
<1>3. own2 \in [Frame -> Uses] /\ Move(own, own2, f, x) /\ x[1] = "hand"
  <2>1. x \in Uses /\ own \in [Frame -> Uses]
    BY <1>1 DEF Uses, Owns
  <2> QED BY <1>2, <2>1 DEF Move
<1> HIDE DEF own2, f
<1>4. OfSet(own2, "free", Range(Tail(F)))
  BY <1>1, <1>3, FirstFree DEF f
<1>5. OfProc(own2, "hand", [hd EXCEPT ![p] = f])
  <2>1. \A q \in Pid : own[f] # <<"hand", q, 0>>
    BY <1>2
  <2> QED BY <1>1, <1>3, <2>1, ProcJoined DEF Owns, Typed
<1>6. Owns(own2, Tail(F), C, L, N, ks, pd, nd, [hd EXCEPT ![p] = f], D)
  <2> HIDE DEF x
  <2>1. /\ own[f][1] = "free" /\ x[1] = "hand" /\ Once(C) /\ Once(Tail(F)) /\ own2 \in [Frame -> Uses]
    BY <1>1, <1>2, <1>3 DEF Owns
  <2>2. /\ OfSet(own2, "cpu", Range(C)) /\ OfSet(own2, "lost", L) /\ OfSet(own2, "none", N)
        /\ OfProc(own2, "kstack", ks) /\ OfProc(own2, "pgdir", pd) /\ OfProc(own2, "newdir", nd)
        /\ OfKern(own2, D) /\ OfTab(own2, D) /\ OfPage(own2, D) /\ DirUses(own2, D)
    BY <1>1, <1>3, <2>1, Others DEF DirKinds
  <2> QED BY <1>4, <1>5, <2>1, <2>2 DEF Owns
<1> QED BY <1>6 DEF OwnsNow, f

\* For the kernel stack of a process.
LEMMA TakeKstack ==
    ASSUME NEW F, NEW C, NEW L, NEW N, NEW ks, NEW pd, NEW nd, NEW hd, NEW D, Typed(F, C, L, ks, pd, nd, hd, D),
           OwnsNow(F, C, L, N, ks, pd, nd, hd, D), F # <<>>, NEW p \in Pid, ks[p] = 0
    PROVE  OwnsNow(Tail(F), C, L, N, [ks EXCEPT ![p] = Head(F)], pd, nd, hd, D)
<1>1. PICK own : Owns(own, F, C, L, N, ks, pd, nd, hd, D)
  BY DEF OwnsNow
<1> DEFINE f == Head(F)
           x == <<"kstack", p, 0>>
           own2 == [own EXCEPT ![f] = x]
<1>2. f \in Frame /\ own[f][1] = "free" /\ Once(Tail(F)) /\ D[f] = NoDir
  BY <1>1, FirstFree
<1>3. own2 \in [Frame -> Uses] /\ Move(own, own2, f, x) /\ x[1] = "kstack"
  <2>1. x \in Uses /\ own \in [Frame -> Uses]
    BY <1>1 DEF Uses, Owns
  <2> QED BY <1>2, <2>1 DEF Move
<1> HIDE DEF own2, f
<1>4. OfSet(own2, "free", Range(Tail(F)))
  BY <1>1, <1>3, FirstFree DEF f
<1>5. OfProc(own2, "kstack", [ks EXCEPT ![p] = f])
  <2>1. \A q \in Pid : own[f] # <<"kstack", q, 0>>
    BY <1>2
  <2> QED BY <1>1, <1>3, <2>1, ProcJoined DEF Owns, Typed
<1>6. Owns(own2, Tail(F), C, L, N, [ks EXCEPT ![p] = f], pd, nd, hd, D)
  <2> HIDE DEF x
  <2>1. own[f][1] = "free" /\ x[1] = "kstack" /\ Once(C) /\ Once(Tail(F)) /\ own2 \in [Frame -> Uses]
    BY <1>1, <1>2, <1>3 DEF Owns
  <2>2. /\ OfSet(own2, "cpu", Range(C)) /\ OfSet(own2, "lost", L) /\ OfSet(own2, "none", N)
        /\ OfProc(own2, "pgdir", pd) /\ OfProc(own2, "newdir", nd) /\ OfProc(own2, "hand", hd)
        /\ OfKern(own2, D) /\ OfTab(own2, D) /\ OfPage(own2, D)
        /\ DirUses(own2, D)
    BY <1>1, <1>3, <2>1, Others DEF DirKinds
  <2> QED BY <1>4, <1>5, <2>1, <2>2 DEF Owns
<1> QED BY <1>6 DEF OwnsNow, f

\* For a page directory.
LEMMA TakeDir ==
    ASSUME NEW F, NEW C, NEW L, NEW N, NEW ks, NEW pd, NEW nd, NEW hd, NEW D, Typed(F, C, L, ks, pd, nd, hd, D),
           OwnsNow(F, C, L, N, ks, pd, nd, hd, D), F # <<>>, NEW p \in Pid, nd[p] = 0
    PROVE  OwnsNow(Tail(F), C, L, N, ks, pd, [nd EXCEPT ![p] = Head(F)], hd, D)
<1>1. PICK own : Owns(own, F, C, L, N, ks, pd, nd, hd, D)
  BY DEF OwnsNow
<1> DEFINE f == Head(F)
           x == <<"newdir", p, 0>>
           own2 == [own EXCEPT ![f] = x]
<1>2. f \in Frame /\ own[f][1] = "free" /\ Once(Tail(F)) /\ D[f] = NoDir
  BY <1>1, FirstFree
<1>3. own2 \in [Frame -> Uses] /\ Move(own, own2, f, x) /\ x[1] = "newdir"
  <2>1. x \in Uses /\ own \in [Frame -> Uses]
    BY <1>1 DEF Uses, Owns
  <2> QED BY <1>2, <2>1 DEF Move
<1> HIDE DEF own2, f
<1>4. OfSet(own2, "free", Range(Tail(F)))
  BY <1>1, <1>3, FirstFree DEF f
<1>5. OfProc(own2, "newdir", [nd EXCEPT ![p] = f])
  <2>1. \A q \in Pid : own[f] # <<"newdir", q, 0>>
    BY <1>2
  <2> QED BY <1>1, <1>3, <2>1, ProcJoined DEF Owns, Typed
<1>6. DirUses(own2, D)
  BY <1>1, <1>3, DirPassed DEF Owns
<1>7. Owns(own2, Tail(F), C, L, N, ks, pd, [nd EXCEPT ![p] = f], hd, D)
  <2> HIDE DEF x
  <2>1. own[f][1] = "free" /\ x[1] = "newdir" /\ Once(C) /\ Once(Tail(F)) /\ own2 \in [Frame -> Uses]
    BY <1>1, <1>2, <1>3 DEF Owns
  <2>2. /\ OfSet(own2, "cpu", Range(C)) /\ OfSet(own2, "lost", L) /\ OfSet(own2, "none", N)
        /\ OfProc(own2, "kstack", ks) /\ OfProc(own2, "pgdir", pd) /\ OfProc(own2, "hand", hd)
        /\ OfKern(own2, D) /\ OfTab(own2, D) /\ OfPage(own2, D)
    BY <1>1, <1>3, <2>1, Others DEF DirKinds
  <2> QED BY <1>4, <1>5, <1>6, <2>1, <2>2 DEF Owns
<1> QED BY <1>7 DEF OwnsNow, f

\* For the stack of another CPU.
LEMMA TakeCpu ==
    ASSUME NEW F, NEW C, NEW L, NEW N, NEW ks, NEW pd, NEW nd, NEW hd, NEW D, Typed(F, C, L, ks, pd, nd, hd, D),
           OwnsNow(F, C, L, N, ks, pd, nd, hd, D), F # <<>>
    PROVE  OwnsNow(Tail(F), Append(C, Head(F)), L, N, ks, pd, nd, hd, D)
<1>1. PICK own : Owns(own, F, C, L, N, ks, pd, nd, hd, D)
  BY DEF OwnsNow
<1> DEFINE f == Head(F)
           x == <<"cpu", 0, 0>>
           own2 == [own EXCEPT ![f] = x]
<1>2. f \in Frame /\ own[f][1] = "free" /\ Once(Tail(F)) /\ D[f] = NoDir
  BY <1>1, FirstFree
<1>3. own2 \in [Frame -> Uses] /\ Move(own, own2, f, x) /\ x[1] = "cpu"
  <2>1. x \in Uses /\ own \in [Frame -> Uses]
    BY <1>1 DEF Uses, Owns
  <2> QED BY <1>2, <2>1 DEF Move
<1> HIDE DEF own2, f
<1>4. OfSet(own2, "free", Range(Tail(F)))
  BY <1>1, <1>3, FirstFree DEF f
<1>5. Once(Append(C, f)) /\ OfSet(own2, "cpu", Range(Append(C, f)))
  <2>1. OfSet(own, "cpu", Range(C)) /\ Once(C) /\ C \in Seq(Frame)
    BY <1>1 DEF Owns, Typed
  <2>2. own[f] # <<"cpu", 0, 0>>
    BY <1>2
  <2>3. f \notin Range(C)
    BY <1>2, <2>1, <2>2 DEF OfSet
  <2>4. Once(Append(C, f)) /\ Range(Append(C, f)) = Range(C) \cup {f}
    BY <1>2, <2>1, <2>3, AppendOnce
  <2>5. OfSet(own2, "cpu", Range(C) \cup {f})
    BY <1>3, <2>1, SetJoined
  <2> QED BY <2>4, <2>5
<1>6. Owns(own2, Tail(F), Append(C, f), L, N, ks, pd, nd, hd, D)
  <2> HIDE DEF x
  <2>1. own[f][1] = "free" /\ x[1] = "cpu" /\ Once(Tail(F)) /\ own2 \in [Frame -> Uses]
    BY <1>1, <1>2, <1>3 DEF Owns
  <2>2. /\ OfSet(own2, "lost", L) /\ OfSet(own2, "none", N) /\ OfProc(own2, "kstack", ks)
        /\ OfProc(own2, "pgdir", pd) /\ OfProc(own2, "newdir", nd) /\ OfProc(own2, "hand", hd)
        /\ OfKern(own2, D) /\ OfTab(own2, D) /\ OfPage(own2, D)
        /\ DirUses(own2, D)
    BY <1>1, <1>3, <2>1, Others DEF DirKinds
  <2> QED BY <1>4, <1>5, <2>1, <2>2 DEF Owns
<1> QED BY <1>6 DEF OwnsNow, f

\* For a page table of the kernel.
LEMMA TakeKern ==
    ASSUME NEW F, NEW C, NEW L, NEW N, NEW ks, NEW pd, NEW nd, NEW hd, NEW D, Typed(F, C, L, ks, pd, nd, hd, D),
           OwnsNow(F, C, L, N, ks, pd, nd, hd, D), F # <<>>, NEW d \in Frame, \E p \in Pid : nd[p] = d \/ pd[p] = d
    PROVE  OwnsNow(Tail(F), C, L, N, ks, pd, nd, hd, [D EXCEPT ![d].kern = Append(D[d].kern, Head(F))])
<1>1. PICK own : Owns(own, F, C, L, N, ks, pd, nd, hd, D)
  BY DEF OwnsNow
<1> DEFINE f == Head(F)
           x == <<"kern", d, 0>>
           own2 == [own EXCEPT ![f] = x]
<1>2. f \in Frame /\ own[f][1] = "free" /\ Once(Tail(F)) /\ D[f] = NoDir
  BY <1>1, FirstFree
<1>3. own2 \in [Frame -> Uses] /\ Move(own, own2, f, x) /\ x[1] = "kern"
  <2>1. x \in Uses /\ own \in [Frame -> Uses]
    BY <1>1 DEF Uses, Owns
  <2> QED BY <1>2, <2>1 DEF Move
<1> HIDE DEF own2, f
<1>4. OfSet(own2, "free", Range(Tail(F)))
  BY <1>1, <1>3, FirstFree DEF f
<1>5. OfKern(own2, [D EXCEPT ![d].kern = Append(D[d].kern, f)])
  <2>1. \A c \in Frame : own[f] # <<"kern", c, 0>>
    BY <1>2
  <2>2. OfKern(own, D) /\ D \in [Frame -> DirT] /\ Once(D[d].kern)
    BY <1>1 DEF Owns, Typed, DirUses
  <2> QED BY <1>3, <2>1, <2>2, KernJoined
<1>6. Owns(own2, Tail(F), C, L, N, ks, pd, nd, hd, [D EXCEPT ![d].kern = Append(D[d].kern, f)])
  <2> HIDE DEF x
  <2>1. own[f][1] = "free" /\ x[1] = "kern" /\ Once(C) /\ Once(Tail(F)) /\ own2 \in [Frame -> Uses]
    BY <1>1, <1>2, <1>3 DEF Owns
  <2>2. /\ OfSet(own2, "cpu", Range(C)) /\ OfSet(own2, "lost", L) /\ OfSet(own2, "none", N)
        /\ OfProc(own2, "kstack", ks) /\ OfProc(own2, "pgdir", pd) /\ OfProc(own2, "newdir", nd)
        /\ OfProc(own2, "hand", hd) /\ OfTab(own2, D) /\ OfPage(own2, D)
    BY <1>1, <1>3, <2>1, Others DEF DirKinds
  <2> DEFINE D2 == [D EXCEPT ![d].kern = Append(D[d].kern, f)]
  <2>3. /\ \A c \in Frame : D2[c].tab = D[c].tab /\ D2[c].pte = D[c].pte
        /\ \A c \in Frame : c # d => D2[c] = D[c]
        /\ Once(D2[d].kern)
    <3>1. /\ \A c \in Frame : D2[c].tab = D[c].tab /\ D2[c].pte = D[c].pte
          /\ \A c \in Frame : c # d => D2[c] = D[c]
          /\ D2[d].kern = Append(D[d].kern, f)
      BY DEF Typed, DirT
    <3>2. /\ \A e \in Frame : own[e] = <<"kern", d, 0>> <=> e \in Range(D[d].kern)
          /\ Once(D[d].kern)
      BY <1>1 DEF Owns, OfKern, DirUses
    <3>3. f \in Frame /\ f \notin Range(D[d].kern)
      <4>1. own[f] # <<"kern", d, 0>>
        BY <1>2
      <4> QED BY <1>2, <3>2, <4>1
    <3>4. D[d].kern \in Seq(Frame)
      BY DEF Typed, DirT
    <3>5. Once(Append(D[d].kern, f))
      BY <3>2, <3>3, <3>4, AppendOnce
    <3> HIDE DEF D2
    <3> QED BY <3>1, <3>5
  <2> HIDE DEF D2
  <2>4. own2[d][1] \in {"pgdir", "newdir"}
    <3>1. own[d][1] \in {"pgdir", "newdir"}
      BY <1>1, WhoseDir
    <3>2. d # f
      BY <1>2, <3>1
    <3> QED BY <1>3, <3>1, <3>2 DEF Move
  <2>6. DirUses(own2, D)
    BY <1>1, <1>3, <2>1, Others DEF DirKinds
  <2>10. (\A c \in Frame : c # d => D2[c] = D[c]) /\ Once(D2[d].kern)
    BY <2>3
  <2>7. DirUses(own2, D2)
    BY <2>4, <2>6, <2>10, DirChanged
  <2>8. OfTab(own2, D2)
    BY <2>2, <2>3, SameTab
  <2>9. OfPage(own2, D2)
    BY <2>2, <2>3, SamePage
  <2>5. OfTab(own2, [D EXCEPT ![d].kern = Append(D[d].kern, f)]) /\ OfPage(own2, [D EXCEPT ![d].kern = Append(D[d].kern, f)]) /\ DirUses(own2, [D EXCEPT ![d].kern = Append(D[d].kern, f)])
    BY <2>7, <2>8, <2>9 DEF D2
  <2> QED BY <1>4, <1>5, <2>1, <2>2, <2>5 DEF Owns
<1> QED BY <1>6 DEF OwnsNow, f

\* For a page table of a process.
LEMMA TakeTab ==
    ASSUME NEW F, NEW C, NEW L, NEW N, NEW ks, NEW pd, NEW nd, NEW hd, NEW D, Typed(F, C, L, ks, pd, nd, hd, D),
           OwnsNow(F, C, L, N, ks, pd, nd, hd, D), F # <<>>, NEW d \in Frame, \E p \in Pid : nd[p] = d \/ pd[p] = d,
           NEW t \in Table, D[d].tab[t] = 0
    PROVE  OwnsNow(Tail(F), C, L, N, ks, pd, nd, hd, [D EXCEPT ![d].tab[t] = Head(F)])
<1>1. PICK own : Owns(own, F, C, L, N, ks, pd, nd, hd, D)
  BY DEF OwnsNow
<1> DEFINE f == Head(F)
           x == <<"tab", d, t>>
           own2 == [own EXCEPT ![f] = x]
<1>2. f \in Frame /\ own[f][1] = "free" /\ Once(Tail(F)) /\ D[f] = NoDir
  BY <1>1, FirstFree
<1>3. own2 \in [Frame -> Uses] /\ Move(own, own2, f, x) /\ x[1] = "tab"
  <2>1. x \in Uses /\ own \in [Frame -> Uses]
    BY <1>1 DEF Uses, Owns
  <2> QED BY <1>2, <2>1 DEF Move
<1> HIDE DEF own2, f
<1>4. OfSet(own2, "free", Range(Tail(F)))
  BY <1>1, <1>3, FirstFree DEF f
<1>5. OfTab(own2, [D EXCEPT ![d].tab[t] = f])
  <2>1. \A c \in Frame, i \in Table : own[f] # <<"tab", c, i>>
    BY <1>2
  <2>2. OfTab(own, D) /\ D \in [Frame -> DirT]
    BY <1>1 DEF Owns, Typed
  <2> QED BY <1>3, <2>1, <2>2, TabJoined
<1>6. Owns(own2, Tail(F), C, L, N, ks, pd, nd, hd, [D EXCEPT ![d].tab[t] = f])
  <2> HIDE DEF x
  <2>1. own[f][1] = "free" /\ x[1] = "tab" /\ Once(C) /\ Once(Tail(F)) /\ own2 \in [Frame -> Uses]
    BY <1>1, <1>2, <1>3 DEF Owns
  <2>2. /\ OfSet(own2, "cpu", Range(C)) /\ OfSet(own2, "lost", L) /\ OfSet(own2, "none", N)
        /\ OfProc(own2, "kstack", ks) /\ OfProc(own2, "pgdir", pd) /\ OfProc(own2, "newdir", nd)
        /\ OfProc(own2, "hand", hd) /\ OfKern(own2, D) /\ OfPage(own2, D)
    BY <1>1, <1>3, <2>1, Others DEF DirKinds
  <2> DEFINE D2 == [D EXCEPT ![d].tab[t] = f]
  <2>3. /\ \A c \in Frame : D2[c].kern = D[c].kern /\ D2[c].pte = D[c].pte
        /\ \A c \in Frame : c # d => D2[c] = D[c]
        /\ Once(D2[d].kern)
    <3>1. /\ \A c \in Frame : D2[c].kern = D[c].kern /\ D2[c].pte = D[c].pte
          /\ \A c \in Frame : c # d => D2[c] = D[c]
      BY DEF Typed, DirT
    <3>2. Once(D[d].kern)
      BY <1>1 DEF Owns, DirUses
    <3> HIDE DEF D2
    <3> QED BY <3>1, <3>2
  <2> HIDE DEF D2
  <2>4. own2[d][1] \in {"pgdir", "newdir"}
    <3>1. own[d][1] \in {"pgdir", "newdir"}
      BY <1>1, WhoseDir
    <3>2. d # f
      BY <1>2, <3>1
    <3> QED BY <1>3, <3>1, <3>2 DEF Move
  <2>6. DirUses(own2, D)
    BY <1>1, <1>3, <2>1, Others DEF DirKinds
  <2>10. (\A c \in Frame : c # d => D2[c] = D[c]) /\ Once(D2[d].kern)
    BY <2>3
  <2>7. DirUses(own2, D2)
    BY <2>4, <2>6, <2>10, DirChanged
  <2>8. OfKern(own2, D2)
    BY <2>2, <2>3, SameKern
  <2>9. OfPage(own2, D2)
    BY <2>2, <2>3, SamePage
  <2>5. OfKern(own2, [D EXCEPT ![d].tab[t] = f]) /\ OfPage(own2, [D EXCEPT ![d].tab[t] = f]) /\ DirUses(own2, [D EXCEPT ![d].tab[t] = f])
    BY <2>7, <2>8, <2>9 DEF D2
  <2> QED BY <1>4, <1>5, <2>1, <2>2, <2>5 DEF Owns
<1> QED BY <1>6 DEF OwnsNow, f

\* For a page of a process.
LEMMA TakePage ==
    ASSUME NEW F, NEW C, NEW L, NEW N, NEW ks, NEW pd, NEW nd, NEW hd, NEW D, Typed(F, C, L, ks, pd, nd, hd, D),
           OwnsNow(F, C, L, N, ks, pd, nd, hd, D), F # <<>>, NEW d \in Frame, \E p \in Pid : nd[p] = d \/ pd[p] = d,
           NEW g \in Page, D[d].pte[g] = 0
    PROVE  OwnsNow(Tail(F), C, L, N, ks, pd, nd, hd, [D EXCEPT ![d].pte[g] = Head(F)])
<1>1. PICK own : Owns(own, F, C, L, N, ks, pd, nd, hd, D)
  BY DEF OwnsNow
<1> DEFINE f == Head(F)
           x == <<"page", d, g>>
           own2 == [own EXCEPT ![f] = x]
<1>2. f \in Frame /\ own[f][1] = "free" /\ Once(Tail(F)) /\ D[f] = NoDir
  BY <1>1, FirstFree
<1>3. own2 \in [Frame -> Uses] /\ Move(own, own2, f, x) /\ x[1] = "page"
  <2>1. x \in Uses /\ own \in [Frame -> Uses]
    BY <1>1 DEF Uses, Owns
  <2> QED BY <1>2, <2>1 DEF Move
<1> HIDE DEF own2, f
<1>4. OfSet(own2, "free", Range(Tail(F)))
  BY <1>1, <1>3, FirstFree DEF f
<1>5. OfPage(own2, [D EXCEPT ![d].pte[g] = f])
  <2>1. \A c \in Frame, i \in Page : own[f] # <<"page", c, i>>
    BY <1>2
  <2>2. OfPage(own, D) /\ D \in [Frame -> DirT]
    BY <1>1 DEF Owns, Typed
  <2> QED BY <1>3, <2>1, <2>2, PageJoined
<1>6. Owns(own2, Tail(F), C, L, N, ks, pd, nd, hd, [D EXCEPT ![d].pte[g] = f])
  <2> HIDE DEF x
  <2>1. own[f][1] = "free" /\ x[1] = "page" /\ Once(C) /\ Once(Tail(F)) /\ own2 \in [Frame -> Uses]
    BY <1>1, <1>2, <1>3 DEF Owns
  <2>2. /\ OfSet(own2, "cpu", Range(C)) /\ OfSet(own2, "lost", L) /\ OfSet(own2, "none", N)
        /\ OfProc(own2, "kstack", ks) /\ OfProc(own2, "pgdir", pd) /\ OfProc(own2, "newdir", nd)
        /\ OfProc(own2, "hand", hd) /\ OfKern(own2, D) /\ OfTab(own2, D)
    BY <1>1, <1>3, <2>1, Others DEF DirKinds
  <2> DEFINE D2 == [D EXCEPT ![d].pte[g] = f]
  <2>3. /\ \A c \in Frame : D2[c].kern = D[c].kern /\ D2[c].tab = D[c].tab
        /\ \A c \in Frame : c # d => D2[c] = D[c]
        /\ Once(D2[d].kern)
    <3>1. /\ \A c \in Frame : D2[c].kern = D[c].kern /\ D2[c].tab = D[c].tab
          /\ \A c \in Frame : c # d => D2[c] = D[c]
      BY DEF Typed, DirT
    <3>2. Once(D[d].kern)
      BY <1>1 DEF Owns, DirUses
    <3> HIDE DEF D2
    <3> QED BY <3>1, <3>2
  <2> HIDE DEF D2
  <2>4. own2[d][1] \in {"pgdir", "newdir"}
    <3>1. own[d][1] \in {"pgdir", "newdir"}
      BY <1>1, WhoseDir
    <3>2. d # f
      BY <1>2, <3>1
    <3> QED BY <1>3, <3>1, <3>2 DEF Move
  <2>6. DirUses(own2, D)
    BY <1>1, <1>3, <2>1, Others DEF DirKinds
  <2>10. (\A c \in Frame : c # d => D2[c] = D[c]) /\ Once(D2[d].kern)
    BY <2>3
  <2>7. DirUses(own2, D2)
    BY <2>4, <2>6, <2>10, DirChanged
  <2>8. OfKern(own2, D2)
    BY <2>2, <2>3, SameKern
  <2>9. OfTab(own2, D2)
    BY <2>2, <2>3, SameTab
  <2>5. OfKern(own2, [D EXCEPT ![d].pte[g] = f]) /\ OfTab(own2, [D EXCEPT ![d].pte[g] = f]) /\ DirUses(own2, [D EXCEPT ![d].pte[g] = f])
    BY <2>7, <2>8, <2>9 DEF D2
  <2> QED BY <1>4, <1>5, <2>1, <2>2, <2>5 DEF Owns
<1> QED BY <1>6 DEF OwnsNow, f

\* The page in hand is mapped.
LEMMA HandToPage ==
    ASSUME NEW F, NEW C, NEW L, NEW N, NEW ks, NEW pd, NEW nd, NEW hd, NEW D, Typed(F, C, L, ks, pd, nd, hd, D),
           OwnsNow(F, C, L, N, ks, pd, nd, hd, D), NEW d \in Frame, \E q \in Pid : nd[q] = d \/ pd[q] = d,
           NEW g \in Page, D[d].pte[g] = 0, NEW p \in Pid, hd[p] # 0
    PROVE  OwnsNow(F, C, L, N, ks, pd, nd, [hd EXCEPT ![p] = 0], [D EXCEPT ![d].pte[g] = hd[p]])
<1>1. PICK own : Owns(own, F, C, L, N, ks, pd, nd, hd, D)
  BY DEF OwnsNow
<1> DEFINE f == hd[p]
           x == <<"page", d, g>>
           own2 == [own EXCEPT ![f] = x]
<1>2. f \in Frame /\ own[f][1] = "hand"
  <2>1. f \in Frame
    BY DEF Typed, Link, Frame
  <2>2. own[f] = <<"hand", p, 0>>
    BY <1>1, <2>1 DEF Owns, OfProc
  <2> QED BY <2>1, <2>2
<1>3. own2 \in [Frame -> Uses] /\ Move(own, own2, f, x) /\ x[1] = "page"
  <2>1. x \in Uses /\ own \in [Frame -> Uses]
    BY <1>1 DEF Uses, Owns
  <2> QED BY <1>2, <2>1 DEF Move
<1> HIDE DEF own2, f
<1>5. OfPage(own2, [D EXCEPT ![d].pte[g] = f])
  <2>1. \A c \in Frame, i \in Page : own[f] # <<"page", c, i>>
    BY <1>2
  <2>2. OfPage(own, D) /\ D \in [Frame -> DirT]
    BY <1>1 DEF Owns, Typed
  <2> QED BY <1>3, <2>1, <2>2, PageJoined
<1>6. OfProc(own2, "hand", [hd EXCEPT ![p] = 0])
  <2>1. \A q \in Pid : x # <<"hand", q, 0>>
    OBVIOUS
  <2>2. hd \in [Pid -> Link] /\ hd[p] = f /\ OfProc(own, "hand", hd)
    BY <1>1 DEF Owns, Typed, f
  <2> QED BY <1>3, <2>1, <2>2, ProcLeft
<1>7. Owns(own2, F, C, L, N, ks, pd, nd, [hd EXCEPT ![p] = 0], [D EXCEPT ![d].pte[g] = f])
  <2> HIDE DEF x
  <2>1. own[f][1] = "hand" /\ x[1] = "page" /\ Once(C) /\ Once(F) /\ own2 \in [Frame -> Uses]
    BY <1>1, <1>2, <1>3 DEF Owns
  <2>2. /\ OfSet(own2, "cpu", Range(C)) /\ OfSet(own2, "lost", L) /\ OfSet(own2, "none", N)
        /\ OfSet(own2, "free", Range(F)) /\ OfProc(own2, "kstack", ks) /\ OfProc(own2, "pgdir", pd)
        /\ OfProc(own2, "newdir", nd) /\ OfKern(own2, D) /\ OfTab(own2, D)
    BY <1>1, <1>3, <2>1, Others DEF DirKinds
  <2> DEFINE D2 == [D EXCEPT ![d].pte[g] = f]
  <2>3. /\ \A c \in Frame : D2[c].kern = D[c].kern /\ D2[c].tab = D[c].tab
        /\ \A c \in Frame : c # d => D2[c] = D[c]
        /\ Once(D2[d].kern)
    <3>1. /\ \A c \in Frame : D2[c].kern = D[c].kern /\ D2[c].tab = D[c].tab
          /\ \A c \in Frame : c # d => D2[c] = D[c]
      BY DEF Typed, DirT
    <3>2. Once(D[d].kern)
      BY <1>1 DEF Owns, DirUses
    <3> HIDE DEF D2
    <3> QED BY <3>1, <3>2
  <2> HIDE DEF D2
  <2>4. own2[d][1] \in {"pgdir", "newdir"}
    <3>1. own[d][1] \in {"pgdir", "newdir"}
      BY <1>1, WhoseDir
    <3>2. d # f
      BY <1>2, <3>1
    <3> QED BY <1>3, <3>1, <3>2 DEF Move
  <2>6. DirUses(own2, D)
    BY <1>1, <1>3, <2>1, Others DEF DirKinds
  <2>10. (\A c \in Frame : c # d => D2[c] = D[c]) /\ Once(D2[d].kern)
    BY <2>3
  <2>7. DirUses(own2, D2)
    BY <2>4, <2>6, <2>10, DirChanged
  <2>8. OfKern(own2, D2)
    BY <2>2, <2>3, SameKern
  <2>9. OfTab(own2, D2)
    BY <2>2, <2>3, SameTab
  <2>5. OfKern(own2, [D EXCEPT ![d].pte[g] = f]) /\ OfTab(own2, [D EXCEPT ![d].pte[g] = f]) /\ DirUses(own2, [D EXCEPT ![d].pte[g] = f])
    BY <2>7, <2>8, <2>9 DEF D2
  <2> QED BY <1>5, <1>6, <2>1, <2>2, <2>5 DEF Owns
<1> QED BY <1>7 DEF OwnsNow, f

\* The page in hand is lost.
LEMMA HandLost ==
    ASSUME NEW F, NEW C, NEW L, NEW N, NEW ks, NEW pd, NEW nd, NEW hd, NEW D, Typed(F, C, L, ks, pd, nd, hd, D),
           OwnsNow(F, C, L, N, ks, pd, nd, hd, D), NEW p \in Pid, hd[p] # 0
    PROVE  OwnsNow(F, C, L \cup {hd[p]}, N, ks, pd, nd, [hd EXCEPT ![p] = 0], D)
<1>1. PICK own : Owns(own, F, C, L, N, ks, pd, nd, hd, D)
  BY DEF OwnsNow
<1> DEFINE f == hd[p]
           x == <<"lost", 0, 0>>
           own2 == [own EXCEPT ![f] = x]
<1>2. f \in Frame /\ own[f][1] = "hand"
  <2>1. f \in Frame
    BY DEF Typed, Link, Frame
  <2>2. own[f] = <<"hand", p, 0>>
    BY <1>1, <2>1 DEF Owns, OfProc
  <2> QED BY <2>1, <2>2
<1>3. own2 \in [Frame -> Uses] /\ Move(own, own2, f, x) /\ x[1] = "lost"
  <2>1. x \in Uses /\ own \in [Frame -> Uses]
    BY <1>1 DEF Uses, Owns
  <2> QED BY <1>2, <2>1 DEF Move
<1> HIDE DEF own2, f
<1>5. OfProc(own2, "hand", [hd EXCEPT ![p] = 0])
  <2>1. \A q \in Pid : x # <<"hand", q, 0>>
    OBVIOUS
  <2>2. hd \in [Pid -> Link] /\ hd[p] = f /\ OfProc(own, "hand", hd)
    BY <1>1 DEF Owns, Typed, f
  <2> QED BY <1>3, <2>1, <2>2, ProcLeft
<1>6. OfSet(own2, "lost", L \cup {f})
  BY <1>1, <1>3, SetJoined DEF Owns
<1>7. Owns(own2, F, C, L \cup {f}, N, ks, pd, nd, [hd EXCEPT ![p] = 0], D)
  <2> HIDE DEF x
  <2>1. own[f][1] = "hand" /\ x[1] = "lost" /\ Once(C) /\ Once(F) /\ own2 \in [Frame -> Uses]
    BY <1>1, <1>2, <1>3 DEF Owns
  <2>2. /\ OfSet(own2, "cpu", Range(C)) /\ OfSet(own2, "none", N) /\ OfSet(own2, "free", Range(F))
        /\ OfProc(own2, "kstack", ks) /\ OfProc(own2, "pgdir", pd) /\ OfProc(own2, "newdir", nd)
        /\ OfKern(own2, D) /\ OfTab(own2, D) /\ OfPage(own2, D)
        /\ DirUses(own2, D)
    BY <1>1, <1>3, <2>1, Others DEF DirKinds
  <2> QED BY <1>5, <1>6, <2>1, <2>2 DEF Owns
<1> QED BY <1>7 DEF OwnsNow, f

\* The page in hand is freed.
LEMMA HandToFree ==
    ASSUME NEW F, NEW C, NEW L, NEW N, NEW ks, NEW pd, NEW nd, NEW hd, NEW D, Typed(F, C, L, ks, pd, nd, hd, D),
           OwnsNow(F, C, L, N, ks, pd, nd, hd, D), NEW p \in Pid, hd[p] # 0
    PROVE  OwnsNow(<<hd[p]>> \o F, C, L, N, ks, pd, nd, [hd EXCEPT ![p] = 0], D)
<1>1. PICK own : Owns(own, F, C, L, N, ks, pd, nd, hd, D)
  BY DEF OwnsNow
<1> DEFINE f == hd[p]
           x == <<"free", 0, 0>>
           own2 == [own EXCEPT ![f] = x]
<1>2. f \in Frame /\ own[f][1] = "hand"
  <2>1. f \in Frame
    BY DEF Typed, Link, Frame
  <2>2. own[f] = <<"hand", p, 0>>
    BY <1>1, <2>1 DEF Owns, OfProc
  <2> QED BY <2>1, <2>2
<1>3. own2 \in [Frame -> Uses] /\ Move(own, own2, f, x) /\ x[1] = "free"
  <2>1. x \in Uses /\ own \in [Frame -> Uses]
    BY <1>1 DEF Uses, Owns
  <2> QED BY <1>2, <2>1 DEF Move
<1> HIDE DEF own2, f
<1>5. Once(<<f>> \o F) /\ OfSet(own2, "free", Range(<<f>> \o F))
  <2>1. own[f][1] # "free"
    BY <1>2
  <2> QED BY <1>1, <1>2, <1>3, <2>1, BackToFree
<1>6. OfProc(own2, "hand", [hd EXCEPT ![p] = 0])
  <2>1. \A q \in Pid : x # <<"hand", q, 0>>
    OBVIOUS
  <2>2. hd \in [Pid -> Link] /\ hd[p] = f /\ OfProc(own, "hand", hd)
    BY <1>1 DEF Owns, Typed, f
  <2> QED BY <1>3, <2>1, <2>2, ProcLeft
<1>7. Owns(own2, <<f>> \o F, C, L, N, ks, pd, nd, [hd EXCEPT ![p] = 0], D)
  <2> HIDE DEF x
  <2>1. own[f][1] = "hand" /\ x[1] = "free" /\ Once(C) /\ own2 \in [Frame -> Uses]
    BY <1>1, <1>2, <1>3 DEF Owns
  <2>2. /\ OfSet(own2, "cpu", Range(C)) /\ OfSet(own2, "lost", L) /\ OfSet(own2, "none", N)
        /\ OfProc(own2, "kstack", ks) /\ OfProc(own2, "pgdir", pd) /\ OfProc(own2, "newdir", nd)
        /\ OfKern(own2, D) /\ OfTab(own2, D) /\ OfPage(own2, D)
        /\ DirUses(own2, D)
    BY <1>1, <1>3, <2>1, Others DEF DirKinds
  <2> QED BY <1>5, <1>6, <2>1, <2>2 DEF Owns
<1> QED BY <1>7 DEF OwnsNow, f

\* A kernel stack is freed.
LEMMA KstackToFree ==
    ASSUME NEW F, NEW C, NEW L, NEW N, NEW ks, NEW pd, NEW nd, NEW hd, NEW D, Typed(F, C, L, ks, pd, nd, hd, D),
           OwnsNow(F, C, L, N, ks, pd, nd, hd, D), NEW p \in Pid, ks[p] # 0
    PROVE  OwnsNow(<<ks[p]>> \o F, C, L, N, [ks EXCEPT ![p] = 0], pd, nd, hd, D)
<1>1. PICK own : Owns(own, F, C, L, N, ks, pd, nd, hd, D)
  BY DEF OwnsNow
<1> DEFINE f == ks[p]
           x == <<"free", 0, 0>>
           own2 == [own EXCEPT ![f] = x]
<1>2. f \in Frame /\ own[f][1] = "kstack"
  <2>1. f \in Frame
    BY DEF Typed, Link, Frame
  <2>2. own[f] = <<"kstack", p, 0>>
    BY <1>1, <2>1 DEF Owns, OfProc
  <2> QED BY <2>1, <2>2
<1>3. own2 \in [Frame -> Uses] /\ Move(own, own2, f, x) /\ x[1] = "free"
  <2>1. x \in Uses /\ own \in [Frame -> Uses]
    BY <1>1 DEF Uses, Owns
  <2> QED BY <1>2, <2>1 DEF Move
<1> HIDE DEF own2, f
<1>5. Once(<<f>> \o F) /\ OfSet(own2, "free", Range(<<f>> \o F))
  <2>1. own[f][1] # "free"
    BY <1>2
  <2> QED BY <1>1, <1>2, <1>3, <2>1, BackToFree
<1>6. OfProc(own2, "kstack", [ks EXCEPT ![p] = 0])
  <2>1. \A q \in Pid : x # <<"kstack", q, 0>>
    OBVIOUS
  <2>2. ks \in [Pid -> Link] /\ ks[p] = f /\ OfProc(own, "kstack", ks)
    BY <1>1 DEF Owns, Typed, f
  <2> QED BY <1>3, <2>1, <2>2, ProcLeft
<1>7. Owns(own2, <<f>> \o F, C, L, N, [ks EXCEPT ![p] = 0], pd, nd, hd, D)
  <2> HIDE DEF x
  <2>1. own[f][1] = "kstack" /\ x[1] = "free" /\ Once(C) /\ own2 \in [Frame -> Uses]
    BY <1>1, <1>2, <1>3 DEF Owns
  <2>2. /\ OfSet(own2, "cpu", Range(C)) /\ OfSet(own2, "lost", L) /\ OfSet(own2, "none", N)
        /\ OfProc(own2, "pgdir", pd) /\ OfProc(own2, "newdir", nd) /\ OfProc(own2, "hand", hd)
        /\ OfKern(own2, D) /\ OfTab(own2, D) /\ OfPage(own2, D)
        /\ DirUses(own2, D)
    BY <1>1, <1>3, <2>1, Others DEF DirKinds
  <2> QED BY <1>5, <1>6, <2>1, <2>2 DEF Owns
<1> QED BY <1>7 DEF OwnsNow, f

\* A page of a process is freed.
LEMMA PageToFree ==
    ASSUME NEW F, NEW C, NEW L, NEW N, NEW ks, NEW pd, NEW nd, NEW hd, NEW D, Typed(F, C, L, ks, pd, nd, hd, D),
           OwnsNow(F, C, L, N, ks, pd, nd, hd, D), NEW d \in Frame, \E p \in Pid : nd[p] = d \/ pd[p] = d,
           NEW g \in Page, D[d].pte[g] # 0
    PROVE  OwnsNow(<<D[d].pte[g]>> \o F, C, L, N, ks, pd, nd, hd, [D EXCEPT ![d].pte[g] = 0])
<1>1. PICK own : Owns(own, F, C, L, N, ks, pd, nd, hd, D)
  BY DEF OwnsNow
<1> DEFINE f == D[d].pte[g]
           x == <<"free", 0, 0>>
           own2 == [own EXCEPT ![f] = x]
<1>2. f \in Frame /\ own[f][1] = "page"
  <2>1. f \in Frame
    BY DEF Typed, DirT, Link, Frame
  <2>2. own[f] = <<"page", d, g>>
    BY <1>1, <2>1 DEF Owns, OfPage
  <2> QED BY <2>1, <2>2
<1>3. own2 \in [Frame -> Uses] /\ Move(own, own2, f, x) /\ x[1] = "free"
  <2>1. x \in Uses /\ own \in [Frame -> Uses]
    BY <1>1 DEF Uses, Owns
  <2> QED BY <1>2, <2>1 DEF Move
<1> HIDE DEF own2, f
<1>5. Once(<<f>> \o F) /\ OfSet(own2, "free", Range(<<f>> \o F))
  <2>1. own[f][1] # "free"
    BY <1>2
  <2> QED BY <1>1, <1>2, <1>3, <2>1, BackToFree
<1>6. OfPage(own2, [D EXCEPT ![d].pte[g] = 0])
  <2>1. \A c \in Frame, i \in Page : x # <<"page", c, i>>
    OBVIOUS
  <2>2. OfPage(own, D) /\ D \in [Frame -> DirT]
    BY <1>1 DEF Owns, Typed
  <2>3. D[d].pte[g] = f
    BY <1>2 DEF f
  <2> QED BY <1>3, <2>1, <2>2, <2>3, PageLeft
<1>7. Owns(own2, <<f>> \o F, C, L, N, ks, pd, nd, hd, [D EXCEPT ![d].pte[g] = 0])
  <2> HIDE DEF x
  <2>1. own[f][1] = "page" /\ x[1] = "free" /\ Once(C) /\ own2 \in [Frame -> Uses]
    BY <1>1, <1>2, <1>3 DEF Owns
  <2>2. /\ OfSet(own2, "cpu", Range(C)) /\ OfSet(own2, "lost", L) /\ OfSet(own2, "none", N)
        /\ OfProc(own2, "kstack", ks) /\ OfProc(own2, "pgdir", pd) /\ OfProc(own2, "newdir", nd)
        /\ OfProc(own2, "hand", hd) /\ OfKern(own2, D) /\ OfTab(own2, D)
    BY <1>1, <1>3, <2>1, Others DEF DirKinds
  <2> DEFINE D2 == [D EXCEPT ![d].pte[g] = 0]
  <2>3. /\ \A c \in Frame : D2[c].kern = D[c].kern /\ D2[c].tab = D[c].tab
        /\ \A c \in Frame : c # d => D2[c] = D[c]
        /\ Once(D2[d].kern)
    <3>1. /\ \A c \in Frame : D2[c].kern = D[c].kern /\ D2[c].tab = D[c].tab
          /\ \A c \in Frame : c # d => D2[c] = D[c]
      BY DEF Typed, DirT
    <3>2. Once(D[d].kern)
      BY <1>1 DEF Owns, DirUses
    <3> HIDE DEF D2
    <3> QED BY <3>1, <3>2
  <2> HIDE DEF D2
  <2>4. own2[d][1] \in {"pgdir", "newdir"}
    <3>1. own[d][1] \in {"pgdir", "newdir"}
      BY <1>1, WhoseDir
    <3>2. d # f
      BY <1>2, <3>1
    <3> QED BY <1>3, <3>1, <3>2 DEF Move
  <2>6. DirUses(own2, D)
    BY <1>1, <1>3, <2>1, Others DEF DirKinds
  <2>10. (\A c \in Frame : c # d => D2[c] = D[c]) /\ Once(D2[d].kern)
    BY <2>3
  <2>7. DirUses(own2, D2)
    BY <2>4, <2>6, <2>10, DirChanged
  <2>8. OfKern(own2, D2)
    BY <2>2, <2>3, SameKern
  <2>9. OfTab(own2, D2)
    BY <2>2, <2>3, SameTab
  <2>5. OfKern(own2, [D EXCEPT ![d].pte[g] = 0]) /\ OfTab(own2, [D EXCEPT ![d].pte[g] = 0]) /\ DirUses(own2, [D EXCEPT ![d].pte[g] = 0])
    BY <2>7, <2>8, <2>9 DEF D2
  <2> QED BY <1>5, <1>6, <2>1, <2>2, <2>5 DEF Owns
<1> QED BY <1>7 DEF OwnsNow, f

\* A page table of a process is freed.
LEMMA TabToFree ==
    ASSUME NEW F, NEW C, NEW L, NEW N, NEW ks, NEW pd, NEW nd, NEW hd, NEW D, Typed(F, C, L, ks, pd, nd, hd, D),
           OwnsNow(F, C, L, N, ks, pd, nd, hd, D), NEW d \in Frame, \E p \in Pid : nd[p] = d \/ pd[p] = d,
           NEW t \in Table, D[d].tab[t] # 0
    PROVE  OwnsNow(<<D[d].tab[t]>> \o F, C, L, N, ks, pd, nd, hd, [D EXCEPT ![d].tab[t] = 0])
<1>1. PICK own : Owns(own, F, C, L, N, ks, pd, nd, hd, D)
  BY DEF OwnsNow
<1> DEFINE f == D[d].tab[t]
           x == <<"free", 0, 0>>
           own2 == [own EXCEPT ![f] = x]
<1>2. f \in Frame /\ own[f][1] = "tab"
  <2>1. f \in Frame
    BY DEF Typed, DirT, Link, Frame
  <2>2. own[f] = <<"tab", d, t>>
    BY <1>1, <2>1 DEF Owns, OfTab
  <2> QED BY <2>1, <2>2
<1>3. own2 \in [Frame -> Uses] /\ Move(own, own2, f, x) /\ x[1] = "free"
  <2>1. x \in Uses /\ own \in [Frame -> Uses]
    BY <1>1 DEF Uses, Owns
  <2> QED BY <1>2, <2>1 DEF Move
<1> HIDE DEF own2, f
<1>5. Once(<<f>> \o F) /\ OfSet(own2, "free", Range(<<f>> \o F))
  <2>1. own[f][1] # "free"
    BY <1>2
  <2> QED BY <1>1, <1>2, <1>3, <2>1, BackToFree
<1>6. OfTab(own2, [D EXCEPT ![d].tab[t] = 0])
  <2>1. \A c \in Frame, i \in Table : x # <<"tab", c, i>>
    OBVIOUS
  <2>2. OfTab(own, D) /\ D \in [Frame -> DirT]
    BY <1>1 DEF Owns, Typed
  <2>3. D[d].tab[t] = f
    BY <1>2 DEF f
  <2> QED BY <1>3, <2>1, <2>2, <2>3, TabLeft
<1>7. Owns(own2, <<f>> \o F, C, L, N, ks, pd, nd, hd, [D EXCEPT ![d].tab[t] = 0])
  <2> HIDE DEF x
  <2>1. own[f][1] = "tab" /\ x[1] = "free" /\ Once(C) /\ own2 \in [Frame -> Uses]
    BY <1>1, <1>2, <1>3 DEF Owns
  <2>2. /\ OfSet(own2, "cpu", Range(C)) /\ OfSet(own2, "lost", L) /\ OfSet(own2, "none", N)
        /\ OfProc(own2, "kstack", ks) /\ OfProc(own2, "pgdir", pd) /\ OfProc(own2, "newdir", nd)
        /\ OfProc(own2, "hand", hd) /\ OfKern(own2, D) /\ OfPage(own2, D)
    BY <1>1, <1>3, <2>1, Others DEF DirKinds
  <2> DEFINE D2 == [D EXCEPT ![d].tab[t] = 0]
  <2>3. /\ \A c \in Frame : D2[c].kern = D[c].kern /\ D2[c].pte = D[c].pte
        /\ \A c \in Frame : c # d => D2[c] = D[c]
        /\ Once(D2[d].kern)
    <3>1. /\ \A c \in Frame : D2[c].kern = D[c].kern /\ D2[c].pte = D[c].pte
          /\ \A c \in Frame : c # d => D2[c] = D[c]
      BY DEF Typed, DirT
    <3>2. Once(D[d].kern)
      BY <1>1 DEF Owns, DirUses
    <3> HIDE DEF D2
    <3> QED BY <3>1, <3>2
  <2> HIDE DEF D2
  <2>4. own2[d][1] \in {"pgdir", "newdir"}
    <3>1. own[d][1] \in {"pgdir", "newdir"}
      BY <1>1, WhoseDir
    <3>2. d # f
      BY <1>2, <3>1
    <3> QED BY <1>3, <3>1, <3>2 DEF Move
  <2>6. DirUses(own2, D)
    BY <1>1, <1>3, <2>1, Others DEF DirKinds
  <2>10. (\A c \in Frame : c # d => D2[c] = D[c]) /\ Once(D2[d].kern)
    BY <2>3
  <2>7. DirUses(own2, D2)
    BY <2>4, <2>6, <2>10, DirChanged
  <2>8. OfKern(own2, D2)
    BY <2>2, <2>3, SameKern
  <2>9. OfPage(own2, D2)
    BY <2>2, <2>3, SamePage
  <2>5. OfKern(own2, [D EXCEPT ![d].tab[t] = 0]) /\ OfPage(own2, [D EXCEPT ![d].tab[t] = 0]) /\ DirUses(own2, [D EXCEPT ![d].tab[t] = 0])
    BY <2>7, <2>8, <2>9 DEF D2
  <2> QED BY <1>5, <1>6, <2>1, <2>2, <2>5 DEF Owns
<1> QED BY <1>7 DEF OwnsNow, f

\* A page table of the kernel's addresses is freed.
LEMMA KernToFree ==
    ASSUME NEW F, NEW C, NEW L, NEW N, NEW ks, NEW pd, NEW nd, NEW hd, NEW D, Typed(F, C, L, ks, pd, nd, hd, D),
           OwnsNow(F, C, L, N, ks, pd, nd, hd, D), NEW d \in Frame, \E p \in Pid : nd[p] = d \/ pd[p] = d,
           D[d].kern # <<>>
    PROVE  OwnsNow(<<Head(D[d].kern)>> \o F, C, L, N, ks, pd, nd, hd, [D EXCEPT ![d].kern = Tail(D[d].kern)])
<1>1. PICK own : Owns(own, F, C, L, N, ks, pd, nd, hd, D)
  BY DEF OwnsNow
<1> DEFINE f == Head(D[d].kern)
           x == <<"free", 0, 0>>
           own2 == [own EXCEPT ![f] = x]
<1>2. f \in Frame /\ own[f] = <<"kern", d, 0>> /\ own[f][1] = "kern"
  <2>1. D[d].kern \in Seq(Frame) /\ Once(D[d].kern)
    BY <1>1 DEF Typed, DirT, Owns, DirUses
  <2>2. f \in Frame /\ f \in Range(D[d].kern)
    BY <2>1, TailOnce
  <2>3. own[f] = <<"kern", d, 0>>
    BY <1>1, <2>2 DEF Owns, OfKern
  <2> QED BY <2>2, <2>3
<1>3. own2 \in [Frame -> Uses] /\ Move(own, own2, f, x) /\ x[1] = "free"
  <2>1. x \in Uses /\ own \in [Frame -> Uses]
    BY <1>1 DEF Uses, Owns
  <2> QED BY <1>2, <2>1 DEF Move
<1> HIDE DEF own2, f
<1>5. Once(<<f>> \o F) /\ OfSet(own2, "free", Range(<<f>> \o F))
  <2>1. own[f][1] # "free"
    BY <1>2
  <2> QED BY <1>1, <1>2, <1>3, <2>1, BackToFree
<1>6. OfKern(own2, [D EXCEPT ![d].kern = Tail(D[d].kern)])
  <2>1. \A c \in Frame : x # <<"kern", c, 0>>
    OBVIOUS
  <2>2. OfKern(own, D) /\ D \in [Frame -> DirT] /\ Once(D[d].kern)
    BY <1>1 DEF Owns, Typed, DirUses
  <2>3. own[f] = <<"kern", d, 0>> /\ f = Head(D[d].kern) /\ D[d].kern # <<>>
    BY <1>2 DEF f
  <2> QED BY <1>3, <2>1, <2>2, <2>3, KernLeft
<1>7. Owns(own2, <<f>> \o F, C, L, N, ks, pd, nd, hd, [D EXCEPT ![d].kern = Tail(D[d].kern)])
  <2> HIDE DEF x
  <2>1. own[f][1] = "kern" /\ x[1] = "free" /\ Once(C) /\ own2 \in [Frame -> Uses]
    BY <1>1, <1>2, <1>3 DEF Owns
  <2>2. /\ OfSet(own2, "cpu", Range(C)) /\ OfSet(own2, "lost", L) /\ OfSet(own2, "none", N)
        /\ OfProc(own2, "kstack", ks) /\ OfProc(own2, "pgdir", pd) /\ OfProc(own2, "newdir", nd)
        /\ OfProc(own2, "hand", hd) /\ OfTab(own2, D) /\ OfPage(own2, D)
    BY <1>1, <1>3, <2>1, Others DEF DirKinds
  <2> DEFINE D2 == [D EXCEPT ![d].kern = Tail(D[d].kern)]
  <2>3. /\ \A c \in Frame : D2[c].tab = D[c].tab /\ D2[c].pte = D[c].pte
        /\ \A c \in Frame : c # d => D2[c] = D[c]
        /\ Once(D2[d].kern)
    <3>1. /\ \A c \in Frame : D2[c].tab = D[c].tab /\ D2[c].pte = D[c].pte
          /\ \A c \in Frame : c # d => D2[c] = D[c]
          /\ D2[d].kern = Tail(D[d].kern)
      BY DEF Typed, DirT
    <3>2. Once(D[d].kern)
      BY <1>1 DEF Owns, DirUses
    <3>4. D[d].kern \in Seq(Frame)
      BY DEF Typed, DirT
    <3>5. Once(Tail(D[d].kern))
      BY <3>2, <3>4, TailOnce
    <3> HIDE DEF D2
    <3> QED BY <3>1, <3>5
  <2> HIDE DEF D2
  <2>4. own2[d][1] \in {"pgdir", "newdir"}
    <3>1. own[d][1] \in {"pgdir", "newdir"}
      BY <1>1, WhoseDir
    <3>2. d # f
      BY <1>2, <3>1
    <3> QED BY <1>3, <3>1, <3>2 DEF Move
  <2>6. DirUses(own2, D)
    BY <1>1, <1>3, <2>1, Others DEF DirKinds
  <2>10. (\A c \in Frame : c # d => D2[c] = D[c]) /\ Once(D2[d].kern)
    BY <2>3
  <2>7. DirUses(own2, D2)
    BY <2>4, <2>6, <2>10, DirChanged
  <2>8. OfTab(own2, D2)
    BY <2>2, <2>3, SameTab
  <2>9. OfPage(own2, D2)
    BY <2>2, <2>3, SamePage
  <2>5. OfTab(own2, [D EXCEPT ![d].kern = Tail(D[d].kern)]) /\ OfPage(own2, [D EXCEPT ![d].kern = Tail(D[d].kern)]) /\ DirUses(own2, [D EXCEPT ![d].kern = Tail(D[d].kern)])
    BY <2>7, <2>8, <2>9 DEF D2
  <2> QED BY <1>5, <1>6, <2>1, <2>2, <2>5 DEF Owns
<1> QED BY <1>7 DEF OwnsNow, f

\* A child gets its directory.
LEMMA Inherit ==
    ASSUME NEW F, NEW C, NEW L, NEW N, NEW ks, NEW pd, NEW nd, NEW hd, NEW D, Typed(F, C, L, ks, pd, nd, hd, D),
           OwnsNow(F, C, L, N, ks, pd, nd, hd, D), NEW p \in Pid, NEW q \in Pid, nd[p] # 0, pd[q] = 0
    PROVE  OwnsNow(F, C, L, N, ks, [pd EXCEPT ![q] = nd[p]], [nd EXCEPT ![p] = 0], hd, D)
<1>1. PICK own : Owns(own, F, C, L, N, ks, pd, nd, hd, D)
  BY DEF OwnsNow
<1> DEFINE f == nd[p]
           x == <<"pgdir", q, 0>>
           own2 == [own EXCEPT ![f] = x]
<1>2. f \in Frame /\ own[f][1] = "newdir"
  <2>1. f \in Frame
    BY DEF Typed, Link, Frame
  <2>2. own[f] = <<"newdir", p, 0>>
    BY <1>1, <2>1 DEF Owns, OfProc
  <2> QED BY <2>1, <2>2
<1>3. own2 \in [Frame -> Uses] /\ Move(own, own2, f, x) /\ x[1] = "pgdir"
  <2>1. x \in Uses /\ own \in [Frame -> Uses]
    BY <1>1 DEF Uses, Owns
  <2> QED BY <1>2, <2>1 DEF Move
<1> HIDE DEF own2, f
<1>5. OfProc(own2, "newdir", [nd EXCEPT ![p] = 0])
  <2>1. \A r \in Pid : x # <<"newdir", r, 0>>
    OBVIOUS
  <2>2. nd \in [Pid -> Link] /\ nd[p] = f /\ OfProc(own, "newdir", nd)
    BY <1>1 DEF Owns, Typed, f
  <2> QED BY <1>3, <2>1, <2>2, ProcLeft
<1>6. OfProc(own2, "pgdir", [pd EXCEPT ![q] = f])
  <2>1. \A r \in Pid : own[f] # <<"pgdir", r, 0>>
    BY <1>2
  <2> QED BY <1>1, <1>3, <2>1, ProcJoined DEF Owns, Typed
<1>7. DirUses(own2, D)
  BY <1>1, <1>3, DirPassed DEF Owns
<1>8. Owns(own2, F, C, L, N, ks, [pd EXCEPT ![q] = f], [nd EXCEPT ![p] = 0], hd, D)
  <2> HIDE DEF x
  <2>1. own[f][1] = "newdir" /\ x[1] = "pgdir" /\ Once(C) /\ Once(F) /\ own2 \in [Frame -> Uses]
    BY <1>1, <1>2, <1>3 DEF Owns
  <2>2. /\ OfSet(own2, "cpu", Range(C)) /\ OfSet(own2, "lost", L) /\ OfSet(own2, "none", N)
        /\ OfSet(own2, "free", Range(F)) /\ OfProc(own2, "kstack", ks) /\ OfProc(own2, "hand", hd)
        /\ OfKern(own2, D) /\ OfTab(own2, D) /\ OfPage(own2, D)
    BY <1>1, <1>3, <2>1, Others DEF DirKinds
  <2> QED BY <1>5, <1>6, <1>7, <2>1, <2>2 DEF Owns
<1> QED BY <1>8 DEF OwnsNow, f

\* wait() has the directory of a zombie.
LEMMA TakeOver ==
    ASSUME NEW F, NEW C, NEW L, NEW N, NEW ks, NEW pd, NEW nd, NEW hd, NEW D, Typed(F, C, L, ks, pd, nd, hd, D),
           OwnsNow(F, C, L, N, ks, pd, nd, hd, D), NEW p \in Pid, NEW q \in Pid, nd[p] = 0, pd[q] # 0
    PROVE  OwnsNow(F, C, L, N, ks, [pd EXCEPT ![q] = 0], [nd EXCEPT ![p] = pd[q]], hd, D)
<1>1. PICK own : Owns(own, F, C, L, N, ks, pd, nd, hd, D)
  BY DEF OwnsNow
<1> DEFINE f == pd[q]
           x == <<"newdir", p, 0>>
           own2 == [own EXCEPT ![f] = x]
<1>2. f \in Frame /\ own[f][1] = "pgdir"
  <2>1. f \in Frame
    BY DEF Typed, Link, Frame
  <2>2. own[f] = <<"pgdir", q, 0>>
    BY <1>1, <2>1 DEF Owns, OfProc
  <2> QED BY <2>1, <2>2
<1>3. own2 \in [Frame -> Uses] /\ Move(own, own2, f, x) /\ x[1] = "newdir"
  <2>1. x \in Uses /\ own \in [Frame -> Uses]
    BY <1>1 DEF Uses, Owns
  <2> QED BY <1>2, <2>1 DEF Move
<1> HIDE DEF own2, f
<1>5. OfProc(own2, "pgdir", [pd EXCEPT ![q] = 0])
  <2>1. \A r \in Pid : x # <<"pgdir", r, 0>>
    OBVIOUS
  <2>2. pd \in [Pid -> Link] /\ pd[q] = f /\ OfProc(own, "pgdir", pd)
    BY <1>1 DEF Owns, Typed, f
  <2> QED BY <1>3, <2>1, <2>2, ProcLeft
<1>6. OfProc(own2, "newdir", [nd EXCEPT ![p] = f])
  <2>1. \A r \in Pid : own[f] # <<"newdir", r, 0>>
    BY <1>2
  <2> QED BY <1>1, <1>3, <2>1, ProcJoined DEF Owns, Typed
<1>7. DirUses(own2, D)
  BY <1>1, <1>3, DirPassed DEF Owns
<1>8. Owns(own2, F, C, L, N, ks, [pd EXCEPT ![q] = 0], [nd EXCEPT ![p] = f], hd, D)
  <2> HIDE DEF x
  <2>1. own[f][1] = "pgdir" /\ x[1] = "newdir" /\ Once(C) /\ Once(F) /\ own2 \in [Frame -> Uses]
    BY <1>1, <1>2, <1>3 DEF Owns
  <2>2. /\ OfSet(own2, "cpu", Range(C)) /\ OfSet(own2, "lost", L) /\ OfSet(own2, "none", N)
        /\ OfSet(own2, "free", Range(F)) /\ OfProc(own2, "kstack", ks) /\ OfProc(own2, "hand", hd)
        /\ OfKern(own2, D) /\ OfTab(own2, D) /\ OfPage(own2, D)
    BY <1>1, <1>3, <2>1, Others DEF DirKinds
  <2> QED BY <1>5, <1>6, <1>7, <2>1, <2>2 DEF Owns
<1> QED BY <1>8 DEF OwnsNow, f

\* Where no page comes from nor goes to, nothing changes.
LEMMA Alike ==
    ASSUME NEW own, NEW F, NEW C, NEW L, NEW N, NEW ks, NEW pd, NEW nd, NEW hd, NEW D,
           Owns(own, F, C, L, N, ks, pd, nd, hd, D), NEW own2, NEW K,
           \A h \in Frame : own2[h] = own[h] \/ (own[h][1] \in K /\ own2[h][1] \in K)
    PROVE  /\ "free" \notin K => OfSet(own2, "free", Range(F))
           /\ "cpu" \notin K => OfSet(own2, "cpu", Range(C))
           /\ "lost" \notin K => OfSet(own2, "lost", L)
           /\ "none" \notin K => OfSet(own2, "none", N)
           /\ "kstack" \notin K => OfProc(own2, "kstack", ks)
           /\ "pgdir" \notin K => OfProc(own2, "pgdir", pd)
           /\ "newdir" \notin K => OfProc(own2, "newdir", nd)
           /\ "hand" \notin K => OfProc(own2, "hand", hd)
           /\ "kern" \notin K => OfKern(own2, D)
           /\ "tab" \notin K => OfTab(own2, D)
           /\ "page" \notin K => OfPage(own2, D)
<1>1. ASSUME NEW s, s \notin K, NEW h \in Frame, NEW y, NEW z PROVE own2[h] = <<s, y, z>> <=> own[h] = <<s, y, z>>
  <2>1. CASE own2[h] = own[h]
    BY <2>1
  <2>2. CASE own[h][1] \in K /\ own2[h][1] \in K
    <3>1. own[h][1] # s /\ own2[h][1] # s
      BY <1>1, <2>2
    <3> QED BY <3>1
  <2> QED BY <2>1, <2>2
<1>2. ASSUME NEW s, s \notin K, NEW S, OfSet(own, s, S) PROVE OfSet(own2, s, S)
  <2> SUFFICES ASSUME NEW h \in Frame PROVE own2[h] = <<s, 0, 0>> <=> h \in S
    BY DEF OfSet
  <2>1. own2[h] = <<s, 0, 0>> <=> own[h] = <<s, 0, 0>>
    BY <1>1, <1>2
  <2> QED BY <1>2, <2>1 DEF OfSet
<1>3. ASSUME NEW s, s \notin K, NEW g, OfProc(own, s, g) PROVE OfProc(own2, s, g)
  <2> SUFFICES ASSUME NEW h \in Frame, NEW p \in Pid PROVE own2[h] = <<s, p, 0>> <=> g[p] = h
    BY DEF OfProc
  <2>1. own2[h] = <<s, p, 0>> <=> own[h] = <<s, p, 0>>
    BY <1>1, <1>3
  <2> QED BY <1>3, <2>1 DEF OfProc
<1>4. "kern" \notin K => OfKern(own2, D)
  <2> SUFFICES ASSUME "kern" \notin K, NEW h \in Frame, NEW d \in Frame PROVE own2[h] = <<"kern", d, 0>> <=> h \in Range(D[d].kern)
    BY DEF OfKern
  <2>1. own2[h] = <<"kern", d, 0>> <=> own[h] = <<"kern", d, 0>>
    BY <1>1
  <2> QED BY <2>1 DEF Owns, OfKern
<1>5. "tab" \notin K => OfTab(own2, D)
  <2> SUFFICES ASSUME "tab" \notin K, NEW h \in Frame, NEW d \in Frame, NEW t \in Table
               PROVE  own2[h] = <<"tab", d, t>> <=> D[d].tab[t] = h
    BY DEF OfTab
  <2>1. own2[h] = <<"tab", d, t>> <=> own[h] = <<"tab", d, t>>
    BY <1>1
  <2>2. OfTab(own, D)
    BY DEF Owns
  <2> QED BY <2>1, <2>2 DEF OfTab
<1>6. "page" \notin K => OfPage(own2, D)
  <2> SUFFICES ASSUME "page" \notin K, NEW h \in Frame, NEW d \in Frame, NEW g \in Page
               PROVE  own2[h] = <<"page", d, g>> <=> D[d].pte[g] = h
    BY DEF OfPage
  <2>1. own2[h] = <<"page", d, g>> <=> own[h] = <<"page", d, g>>
    BY <1>1
  <2>2. OfPage(own, D)
    BY DEF Owns
  <2> QED BY <2>1, <2>2 DEF OfPage
<1>7. /\ OfSet(own, "free", Range(F)) /\ OfSet(own, "cpu", Range(C)) /\ OfSet(own, "lost", L) /\ OfSet(own, "none", N)
      /\ OfProc(own, "kstack", ks) /\ OfProc(own, "pgdir", pd) /\ OfProc(own, "newdir", nd) /\ OfProc(own, "hand", hd)
  BY DEF Owns
<1>8. /\ "free" \notin K => OfSet(own2, "free", Range(F))
      /\ "cpu" \notin K => OfSet(own2, "cpu", Range(C))
      /\ "lost" \notin K => OfSet(own2, "lost", L)
      /\ "none" \notin K => OfSet(own2, "none", N)
  BY <1>2, <1>7
<1>9. /\ "kstack" \notin K => OfProc(own2, "kstack", ks)
      /\ "pgdir" \notin K => OfProc(own2, "pgdir", pd)
      /\ "newdir" \notin K => OfProc(own2, "newdir", nd)
      /\ "hand" \notin K => OfProc(own2, "hand", hd)
  BY <1>3, <1>7
<1> QED BY <1>4, <1>5, <1>6, <1>8, <1>9

\* exec() goes over to the new directory.
LEMMA Swap ==
    ASSUME NEW F, NEW C, NEW L, NEW N, NEW ks, NEW pd, NEW nd, NEW hd, NEW D, Typed(F, C, L, ks, pd, nd, hd, D),
           OwnsNow(F, C, L, N, ks, pd, nd, hd, D), NEW p \in Pid, nd[p] # 0, pd[p] # 0
    PROVE  OwnsNow(F, C, L, N, ks, [pd EXCEPT ![p] = nd[p]], [nd EXCEPT ![p] = pd[p]], hd, D)
<1>1. PICK own : Owns(own, F, C, L, N, ks, pd, nd, hd, D)
  BY DEF OwnsNow
<1> DEFINE f == nd[p]
           e == pd[p]
           own2 == [h \in Frame |-> IF h = f THEN <<"pgdir", p, 0>> ELSE IF h = e THEN <<"newdir", p, 0>> ELSE own[h]]
<1>2. f \in Frame /\ e \in Frame /\ nd \in [Pid -> Link] /\ pd \in [Pid -> Link]
  BY DEF Typed, Link, Frame
<1>3. /\ \A h \in Frame, q \in Pid : own[h] = <<"newdir", q, 0>> <=> nd[q] = h
      /\ \A h \in Frame, q \in Pid : own[h] = <<"pgdir", q, 0>> <=> pd[q] = h
  BY <1>1 DEF Owns, OfProc
<1>4. own[f] = <<"newdir", p, 0>> /\ own[e] = <<"pgdir", p, 0>> /\ f # e
  <2>1. own[f] = <<"newdir", p, 0>> /\ own[e] = <<"pgdir", p, 0>>
    BY <1>2, <1>3
  <2> QED BY <2>1
<1>5. /\ own2 \in [Frame -> Uses] /\ own2[f] = <<"pgdir", p, 0>> /\ own2[e] = <<"newdir", p, 0>>
      /\ \A h \in Frame : h # f /\ h # e => own2[h] = own[h]
  <2>1. <<"pgdir", p, 0>> \in Uses /\ <<"newdir", p, 0>> \in Uses /\ own \in [Frame -> Uses]
    BY <1>1 DEF Uses, Owns
  <2> QED BY <1>2, <1>4, <2>1
<1> HIDE DEF own2, f, e
<1>6. OfProc(own2, "pgdir", [pd EXCEPT ![p] = f])
  <2>1. \A q \in Pid : [pd EXCEPT ![p] = f][q] = IF q = p THEN f ELSE pd[q]
    BY <1>2
  <2> SUFFICES ASSUME NEW h \in Frame, NEW q \in Pid PROVE own2[h] = <<"pgdir", q, 0>> <=> [pd EXCEPT ![p] = f][q] = h
    BY DEF OfProc
  <2>2. CASE h = f
    <3>1. own2[h] = <<"pgdir", q, 0>> <=> q = p
      BY <1>5, <2>2
    <3>2. pd[q] # f
      <4>1. own[f] # <<"pgdir", q, 0>>
        BY <1>4
      <4> QED BY <1>2, <1>3, <4>1
    <3> QED BY <2>1, <2>2, <3>1, <3>2
  <2>3. CASE h = e
    <3>1. own2[h] # <<"pgdir", q, 0>>
      BY <1>5, <2>3
    <3>2. pd[q] = e => q = p
      BY <1>2, <1>3, <1>4
    <3> QED BY <1>4, <2>1, <2>3, <3>1, <3>2
  <2>4. CASE h # f /\ h # e
    BY <1>3, <1>5, <2>1, <2>4 DEF e
  <2> QED BY <2>2, <2>3, <2>4
<1>7. OfProc(own2, "newdir", [nd EXCEPT ![p] = e])
  <2>1. \A q \in Pid : [nd EXCEPT ![p] = e][q] = IF q = p THEN e ELSE nd[q]
    BY <1>2
  <2> SUFFICES ASSUME NEW h \in Frame, NEW q \in Pid PROVE own2[h] = <<"newdir", q, 0>> <=> [nd EXCEPT ![p] = e][q] = h
    BY DEF OfProc
  <2>2. CASE h = e
    <3>1. own2[h] = <<"newdir", q, 0>> <=> q = p
      BY <1>5, <2>2
    <3>2. nd[q] # e
      <4>1. own[e] # <<"newdir", q, 0>>
        BY <1>4
      <4> QED BY <1>2, <1>3, <4>1
    <3> QED BY <2>1, <2>2, <3>1, <3>2
  <2>3. CASE h = f
    <3>1. own2[h] # <<"newdir", q, 0>>
      BY <1>5, <2>3
    <3>2. nd[q] = f => q = p
      BY <1>2, <1>3, <1>4
    <3> QED BY <1>4, <2>1, <2>3, <3>1, <3>2
  <2>4. CASE h # f /\ h # e
    BY <1>3, <1>5, <2>1, <2>4 DEF f
  <2> QED BY <2>2, <2>3, <2>4
<1>8. \A h \in Frame : own2[h] = own[h] \/ (own[h][1] \in {"pgdir", "newdir"} /\ own2[h][1] \in {"pgdir", "newdir"})
  <2>1. own[f][1] = "newdir" /\ own[e][1] = "pgdir" /\ own2[f][1] = "pgdir" /\ own2[e][1] = "newdir"
    BY <1>4, <1>5
  <2> QED BY <1>5, <2>1
<1>9. DirUses(own2, D)
  <2>1. DirUses(own, D)
    BY <1>1 DEF Owns
  <2>2. \A h \in Frame : own2[h] = <<"kvm", 0, 0>> => own2[h] = own[h]
    <3>1. own2[f] # <<"kvm", 0, 0>> /\ own2[e] # <<"kvm", 0, 0>>
      BY <1>5
    <3> QED BY <1>5, <3>1
  <2>3. \A h \in Frame : D[h] # NoDir => own2[h][1] \in {"kvm", "pgdir", "newdir"}
    BY <1>8, <2>1 DEF DirUses
  <2> QED BY <2>1, <2>2, <2>3 DEF DirUses
<1>10. Owns(own2, F, C, L, N, ks, [pd EXCEPT ![p] = f], [nd EXCEPT ![p] = e], hd, D)
  <2>1. Once(F) /\ Once(C)
    BY <1>1 DEF Owns
  <2> DEFINE K == {"pgdir", "newdir"}
  <2>2. /\ \A h \in Frame : own2[h] = own[h] \/ (own[h][1] \in K /\ own2[h][1] \in K)
        /\ "free" \notin K /\ "cpu" \notin K /\ "lost" \notin K /\ "none" \notin K /\ "kstack" \notin K /\ "hand" \notin K
        /\ "kern" \notin K /\ "tab" \notin K /\ "page" \notin K
    BY <1>8
  <2> HIDE DEF K
  <2>3. /\ OfSet(own2, "free", Range(F)) /\ OfSet(own2, "cpu", Range(C)) /\ OfSet(own2, "lost", L) /\ OfSet(own2, "none", N)
        /\ OfProc(own2, "kstack", ks) /\ OfProc(own2, "hand", hd)
        /\ OfKern(own2, D) /\ OfTab(own2, D) /\ OfPage(own2, D)
    BY <1>1, <2>2, Alike
  <2> QED BY <1>5, <1>6, <1>7, <1>9, <2>1, <2>3 DEF Owns
<1> QED BY <1>10 DEF OwnsNow, f, e

\* A page directory without tables and pages is NoDir, but for the guard page.
LEMMA EmptyDir ==
    ASSUME NEW D \in [Frame -> DirT], NEW d \in Frame, \A t \in Table : D[d].tab[t] = 0, \A g \in Page : D[d].pte[g] = 0
    PROVE  D[d].tab = NoDir.tab /\ D[d].pte = NoDir.pte /\ NoDir.kern = <<>>
<1>1. D[d].tab \in [Table -> Link] /\ D[d].pte \in [Page -> Link]
  BY DEF DirT
<1>2. NoDir.tab = [t \in Table |-> 0] /\ NoDir.pte = [g \in Page |-> 0] /\ NoDir.kern = <<>>
  BY DEF NoDir, Table
<1> QED BY <1>1, <1>2

LEMMA DirLeft ==
    ASSUME NEW own, NEW own2, NEW f, Move(own, own2, f, <<"free", 0, 0>>), NEW h \in [Pid -> Link], OfProc(own, "newdir", h),
           NEW p \in Pid, h[p] = f
    PROVE  OfProc(own2, "newdir", [h EXCEPT ![p] = 0])
<1> DEFINE x == <<"free", 0, 0>>
<1>1. \A q \in Pid : x # <<"newdir", q, 0>>
  OBVIOUS
<1>2. Move(own, own2, f, x)
  OBVIOUS
<1> HIDE DEF x
<1> QED BY <1>1, <1>2, ProcLeft

\* The last page that freevm() frees.
LEMMA DirToFree ==
    ASSUME NEW F, NEW C, NEW L, NEW N, NEW ks, NEW pd, NEW nd, NEW hd, NEW D, Typed(F, C, L, ks, pd, nd, hd, D),
           OwnsNow(F, C, L, N, ks, pd, nd, hd, D), NEW p \in Pid, nd[p] # 0, D[nd[p]].kern = <<>>,
           \A t \in Table : D[nd[p]].tab[t] = 0, \A g \in Page : D[nd[p]].pte[g] = 0
    PROVE  OwnsNow(<<nd[p]>> \o F, C, L, N, ks, pd, [nd EXCEPT ![p] = 0], hd, [D EXCEPT ![nd[p]] = NoDir])
<1>1. PICK own : Owns(own, F, C, L, N, ks, pd, nd, hd, D)
  BY DEF OwnsNow
<1> DEFINE f == nd[p]
           x == <<"free", 0, 0>>
           own2 == [own EXCEPT ![f] = x]
           D2 == [D EXCEPT ![f] = NoDir]
<1>2. f \in Frame /\ own[f][1] = "newdir" /\ own[f] # <<"kvm", 0, 0>>
  <2>1. f \in Frame
    BY DEF Typed, Link, Frame
  <2>2. own[f] = <<"newdir", p, 0>>
    BY <1>1, <2>1 DEF Owns, OfProc
  <2> QED BY <2>1, <2>2
<1>3. own2 \in [Frame -> Uses] /\ Move(own, own2, f, x) /\ x[1] = "free"
  <2>1. x \in Uses /\ own \in [Frame -> Uses]
    BY <1>1 DEF Uses, Owns
  <2> QED BY <1>2, <2>1 DEF Move
<1>4. D2[f] = NoDir /\ \A c \in Frame : c # f => D2[c] = D[c]
  BY <1>2 DEF Typed
<1>5. \A c \in Frame : D2[c].kern = D[c].kern /\ D2[c].tab = D[c].tab /\ D2[c].pte = D[c].pte
  <2>1. D[f].tab = NoDir.tab /\ D[f].pte = NoDir.pte /\ D[f].kern = NoDir.kern
    BY <1>2, EmptyDir DEF Typed
  <2> HIDE DEF D2, f
  <2> QED BY <1>4, <2>1
<1> HIDE DEF own2, f, D2
<1>6. OfProc(own2, "newdir", [nd EXCEPT ![p] = 0])
  <2>1. nd \in [Pid -> Link] /\ nd[p] = f /\ OfProc(own, "newdir", nd)
    BY <1>1 DEF Owns, Typed, f
  <2>2. Move(own, own2, f, <<"free", 0, 0>>)
    BY <1>3
  <2> QED BY <2>1, <2>2, DirLeft
<1>7. Once(<<f>> \o F) /\ OfSet(own2, "free", Range(<<f>> \o F))
  <2>1. own[f][1] # "free"
    BY <1>2
  <2> QED BY <1>1, <1>2, <1>3, <2>1, BackToFree
<1>8. Owns(own2, <<f>> \o F, C, L, N, ks, pd, [nd EXCEPT ![p] = 0], hd, D2)
  <2> HIDE DEF x
  <2>1. /\ own[f][1] = "newdir" /\ x[1] = "free" /\ Once(C) /\ own2 \in [Frame -> Uses] /\ DirUses(own, D)
    BY <1>1, <1>2, <1>3 DEF Owns
  <2>2. /\ OfSet(own2, "cpu", Range(C)) /\ OfSet(own2, "lost", L) /\ OfSet(own2, "none", N)
        /\ OfProc(own2, "kstack", ks) /\ OfProc(own2, "pgdir", pd) /\ OfProc(own2, "hand", hd)
        /\ OfKern(own2, D) /\ OfTab(own2, D) /\ OfPage(own2, D)
    BY <1>1, <1>3, <2>1, Others
  <2>3. OfKern(own2, D2) /\ OfTab(own2, D2) /\ OfPage(own2, D2)
    BY <1>5, <2>2, SameKern, SameTab, SamePage
  <2>4. DirUses(own2, D2)
    <3>1. \A h \in Frame : h # f => own2[h] = own[h]
      BY <1>3 DEF Move
    <3>2. own2[f] # <<"kvm", 0, 0>>
      BY <1>3 DEF Move, x
    <3>3. \A h \in Frame : D2[h] # NoDir => own2[h][1] \in {"kvm", "pgdir", "newdir"}
      BY <1>4, <2>1, <3>1 DEF DirUses
    <3>4. \A h \in Frame : own2[h] = <<"kvm", 0, 0>> => D2[h] # NoDir
      BY <1>4, <2>1, <3>1, <3>2 DEF DirUses
    <3>5. \A h \in Frame : Once(D2[h].kern)
      BY <1>5, <2>1 DEF DirUses
    <3> QED BY <3>3, <3>4, <3>5 DEF DirUses
  <2> QED BY <1>6, <1>7, <2>1, <2>2, <2>3, <2>4 DEF Owns
<1> QED BY <1>8 DEF OwnsNow, f, D2

\* A setupkvm() that fails half-way.
LEMMA DirLost ==
    ASSUME NEW F, NEW C, NEW L, NEW N, NEW ks, NEW pd, NEW nd, NEW hd, NEW D, Typed(F, C, L, ks, pd, nd, hd, D),
           OwnsNow(F, C, L, N, ks, pd, nd, hd, D), NEW p \in Pid, nd[p] # 0,
           \A t \in Table : D[nd[p]].tab[t] = 0, \A g \in Page : D[nd[p]].pte[g] = 0
    PROVE  OwnsNow(F, C, L \cup {nd[p]} \cup Range(D[nd[p]].kern), N, ks, pd, [nd EXCEPT ![p] = 0], hd, [D EXCEPT ![nd[p]] = NoDir])
<1>1. PICK own : Owns(own, F, C, L, N, ks, pd, nd, hd, D)
  BY DEF OwnsNow
<1> DEFINE f == nd[p]
           R == Range(D[f].kern)
           x == <<"lost", 0, 0>>
           own2 == [h \in Frame |-> IF h = f \/ h \in R THEN x ELSE own[h]]
           D2 == [D EXCEPT ![f] = NoDir]
<1>2. f \in Frame /\ own[f] = <<"newdir", p, 0>> /\ own[f][1] = "newdir"
  <2>1. f \in Frame
    BY DEF Typed, Link, Frame
  <2>2. own[f] = <<"newdir", p, 0>>
    BY <1>1, <2>1 DEF Owns, OfProc
  <2> QED BY <2>1, <2>2
<1>3. \A h \in Frame : h \in R <=> own[h] = <<"kern", f, 0>>
  BY <1>1, <1>2 DEF Owns, OfKern
<1>4. D2[f] = NoDir /\ \A c \in Frame : c # f => D2[c] = D[c]
  BY <1>2 DEF Typed
<1>5. \A c \in Frame : D2[c].tab = D[c].tab /\ D2[c].pte = D[c].pte
  <2>1. D[f].tab = NoDir.tab /\ D[f].pte = NoDir.pte
    BY <1>2, EmptyDir DEF Typed
  <2> HIDE DEF D2, f
  <2> QED BY <1>4, <2>1
<1>6. /\ own2 \in [Frame -> Uses] /\ own2[f] = x /\ (\A h \in R : h \in Frame => own2[h] = x)
      /\ \A h \in Frame : h # f /\ h \notin R => own2[h] = own[h]
  <2>1. x \in Uses /\ own \in [Frame -> Uses]
    BY <1>1 DEF Uses, Owns
  <2> HIDE DEF x, R, f
  <2> QED BY <1>2, <2>1
<1>7. \A h \in Frame : own2[h] = own[h] \/ (own[h][1] \in {"newdir", "kern", "lost"} /\ own2[h][1] \in {"newdir", "kern", "lost"})
  <2> SUFFICES ASSUME NEW h \in Frame, h = f \/ h \in R
               PROVE  own[h][1] \in {"newdir", "kern", "lost"} /\ own2[h][1] \in {"newdir", "kern", "lost"}
    BY <1>6
  <2>1. own2[h] = x
    BY <1>6
  <2>2. own[h] = <<"newdir", p, 0>> \/ own[h] = <<"kern", f, 0>>
    BY <1>2, <1>3
  <2> QED BY <2>1, <2>2
<1>8. NoDir.kern = <<>> /\ nd \in [Pid -> Link]
  BY DEF NoDir, Typed
<1> HIDE DEF own2, D2, R
<1>9. OfProc(own2, "newdir", [nd EXCEPT ![p] = 0])
  <2>1. \A q \in Pid : [nd EXCEPT ![p] = 0][q] = IF q = p THEN 0 ELSE nd[q]
    BY <1>8
  <2> SUFFICES ASSUME NEW h \in Frame, NEW q \in Pid PROVE own2[h] = <<"newdir", q, 0>> <=> [nd EXCEPT ![p] = 0][q] = h
    BY DEF OfProc
  <2>2. /\ own[h] = <<"newdir", q, 0>> <=> nd[q] = h
        /\ h # 0
    BY <1>1 DEF Owns, OfProc, Frame
  <2>3. CASE h = f \/ h \in R
    <3>1. own2[h] # <<"newdir", q, 0>>
      BY <1>6, <2>3
    <3>2. nd[q] = h => q = p
      <4>1. own[h] = <<"newdir", p, 0>> \/ own[h] = <<"kern", f, 0>>
        BY <1>2, <1>3, <2>3
      <4> QED BY <2>2, <4>1
    <3> QED BY <2>1, <2>2, <3>1, <3>2
  <2>4. CASE h # f /\ h \notin R
    BY <1>6, <2>1, <2>2, <2>4
  <2> QED BY <2>3, <2>4
<1>10. OfSet(own2, "lost", L \cup {f} \cup R)
  <2> SUFFICES ASSUME NEW h \in Frame PROVE own2[h] = <<"lost", 0, 0>> <=> h \in L \cup {f} \cup R
    BY DEF OfSet
  <2>1. own[h] = <<"lost", 0, 0>> <=> h \in L
    BY <1>1 DEF Owns, OfSet
  <2> QED BY <1>6, <2>1
<1>11. OfKern(own2, D2)
  <2> SUFFICES ASSUME NEW h \in Frame, NEW d \in Frame PROVE own2[h] = <<"kern", d, 0>> <=> h \in Range(D2[d].kern)
    BY DEF OfKern
  <2>1. own[h] = <<"kern", d, 0>> <=> h \in Range(D[d].kern)
    BY <1>1 DEF Owns, OfKern
  <2>2. CASE d = f
    <3>1. h \notin Range(D2[d].kern)
      BY <1>4, <1>8, <2>2 DEF Range
    <3>2. own2[h] # <<"kern", d, 0>>
      <4>1. CASE h = f \/ h \in R
        BY <1>6, <4>1
      <4>2. CASE h # f /\ h \notin R
        BY <1>3, <1>6, <2>2, <4>2
      <4> QED BY <4>1, <4>2
    <3> QED BY <3>1, <3>2
  <2>3. CASE d # f
    <3>1. D2[d] = D[d]
      BY <1>4, <2>3
    <3>2. own2[h] = <<"kern", d, 0>> <=> own[h] = <<"kern", d, 0>>
      <4>1. CASE h = f \/ h \in R
        <5>1. own2[h] # <<"kern", d, 0>>
          BY <1>6, <4>1
        <5>2. own[h] = <<"newdir", p, 0>> \/ own[h] = <<"kern", f, 0>>
          BY <1>2, <1>3, <4>1
        <5> QED BY <2>3, <5>1, <5>2
      <4>2. CASE h # f /\ h \notin R
        BY <1>6, <4>2
      <4> QED BY <4>1, <4>2
    <3> QED BY <2>1, <3>1, <3>2
  <2> QED BY <2>2, <2>3
<1>12. DirUses(own2, D2)
  <2>1. DirUses(own, D)
    BY <1>1 DEF Owns
  <2>2. ASSUME NEW h \in Frame, D2[h] # NoDir PROVE own2[h][1] \in {"kvm", "pgdir", "newdir"}
    <3>1. h # f /\ D[h] # NoDir /\ own[h][1] \in {"kvm", "pgdir", "newdir"}
      BY <1>4, <2>1, <2>2 DEF DirUses
    <3>2. own[h] # <<"kern", f, 0>>
      BY <3>1
    <3> QED BY <1>3, <1>6, <3>1, <3>2
  <2>3. ASSUME NEW h \in Frame, own2[h] = <<"kvm", 0, 0>> PROVE D2[h] # NoDir
    <3>1. h # f /\ h \notin R
      BY <1>6, <2>3
    <3> QED BY <1>4, <1>6, <2>1, <2>3, <3>1 DEF DirUses
  <2>4. ASSUME NEW h \in Frame PROVE Once(D2[h].kern)
    <3>1. CASE h = f
      BY <1>4, <1>8, <3>1 DEF Once
    <3>2. CASE h # f
      BY <1>4, <2>1, <3>2 DEF DirUses
    <3> QED BY <3>1, <3>2
  <2> QED BY <2>2, <2>3, <2>4 DEF DirUses
<1>13. Owns(own2, F, C, L \cup {f} \cup R, N, ks, pd, [nd EXCEPT ![p] = 0], hd, D2)
  <2>1. Once(F) /\ Once(C)
    BY <1>1 DEF Owns
  <2> DEFINE K == {"newdir", "kern", "lost"}
  <2>2. /\ \A h \in Frame : own2[h] = own[h] \/ (own[h][1] \in K /\ own2[h][1] \in K)
        /\ "free" \notin K /\ "cpu" \notin K /\ "none" \notin K /\ "kstack" \notin K /\ "pgdir" \notin K
        /\ "hand" \notin K /\ "tab" \notin K /\ "page" \notin K
    BY <1>7
  <2> HIDE DEF K
  <2>3. /\ OfSet(own2, "free", Range(F)) /\ OfSet(own2, "cpu", Range(C)) /\ OfSet(own2, "none", N)
        /\ OfProc(own2, "kstack", ks) /\ OfProc(own2, "pgdir", pd) /\ OfProc(own2, "hand", hd)
        /\ OfTab(own2, D) /\ OfPage(own2, D)
    BY <1>1, <2>2, Alike
  <2>4. OfTab(own2, D2) /\ OfPage(own2, D2)
    BY <1>5, <2>3, SameTab, SamePage
  <2> HIDE DEF x, f
  <2> QED BY <1>6, <1>9, <1>10, <1>11, <1>12, <2>1, <2>3, <2>4 DEF Owns
<1> QED BY <1>13 DEF OwnsNow, D2, R

-----------------------------------------------------------------------------
(* A call goes on *)

LEMMA Idle == NoJob.pc = "user" /\ NoJob.op = "" /\ NoJob.d = 0 /\ NoJob.mem = 0 /\ NoJob.a = 0 /\ NoJob.from = 0 /\ NoJob.next = ""
BY DEF NoJob

\* A process in a call runs, and the machine has started.
LEMMA Working ==
    ASSUME Inv, NEW p \in Pid, job[p].pc # "user"
    PROVE  /\ boot = <<>> /\ job[p].op # "" /\ job[p] # NoJob /\ proc[p].state = "run" /\ Pgdirs[p] = proc[p].pgdir
           /\ proc[p].pgdir \in Frame /\ proc[p].kstack # 0 /\ job[p] \in JobT /\ proc[p] \in ProcT /\ cr3[p] \in SpaceT
           /\ Flow(job[p]) /\ Stage(job[p], Dir(job[p].d), proc[p].sz)
           /\ Image(proc[p], job[p], dir[proc[p].pgdir], cr3[p], before[p]) /\ Dir(Pgdirs[p]) = dir[proc[p].pgdir]
<1>1. /\ job[p] \in JobT /\ proc[p] \in ProcT /\ cr3[p] \in SpaceT
  BY DEF Inv, Types
<1>2. Thread(p) /\ Booted
  BY DEF Inv
<1>3. job[p] # NoJob
  BY Idle
<1>4. job[p].op # ""
  BY <1>2, <1>3 DEF Thread, Flow
<1>5. proc[p].state = "run" /\ proc[p].kstack # 0 /\ proc[p].pgdir # 0
  BY <1>2, <1>3 DEF Thread, Image
<1>6. proc[p].pgdir \in Frame
  BY <1>1, <1>5 DEF ProcT, Link, Frame
<1>7. Pgdirs[p] = proc[p].pgdir
  BY <1>5 DEF Pgdirs
<1>8. boot = <<>>
  BY <1>2, <1>3 DEF Booted
<1>9. Dir(Pgdirs[p]) = dir[proc[p].pgdir]
  BY <1>5, <1>7 DEF Dir
<1> QED BY <1>1, <1>2, <1>3, <1>4, <1>5, <1>6, <1>7, <1>8, <1>9 DEF Thread

\* The page directory that a call works on is nobody else's.
LEMMA Apart ==
    ASSUME Inv, NEW p \in Pid, job[p].d # 0, job[p].pc # "user"
    PROVE  /\ job[p].d \in Frame /\ Dir(job[p].d) = dir[job[p].d] /\ \E x \in Pid : Taken[x] = job[p].d \/ Pgdirs[x] = job[p].d
           /\ \A x \in Pid : x # p => job[x].d # job[p].d /\ Pgdirs[x] # job[p].d
           /\ job[p].op # "grow" => Pgdirs[p] # job[p].d /\ Taken[p] = job[p].d
           /\ job[p].op = "grow" => Pgdirs[p] = job[p].d
<1> DEFINE d == job[p].d
<1>1. d \in Frame /\ Dir(d) = dir[d]
  <2>1. d \in Link
    BY DEF Inv, Types, JobT
  <2> QED BY <2>1 DEF Link, Frame, Dir
<1>o. PICK own : Owns(own, freelist, cpus, leaked, Unfreed, Kstacks, Pgdirs, Taken, Hands, dir)
  BY DEF Inv, Owned, OwnsNow
<1>2. /\ \A f \in Frame, x \in Pid : own[f] = <<"pgdir", x, 0>> <=> Pgdirs[x] = f
      /\ \A f \in Frame, x \in Pid : own[f] = <<"newdir", x, 0>> <=> Taken[x] = f
  BY <1>o DEF Owns, OfProc
<1>3. \A x \in Pid : Taken[x] = IF job[x].op = "grow" THEN 0 ELSE job[x].d
  BY DEF Taken
<1>4. \A x \in Pid : job[x].op = "grow" => Pgdirs[x] = job[x].d
  <2> SUFFICES ASSUME NEW x \in Pid, job[x].op = "grow" PROVE Pgdirs[x] = job[x].d
    OBVIOUS
  <2>1. Thread(x)
    BY DEF Inv
  <2>2. job[x] # NoJob
    BY Idle
  <2>3. proc[x].state = "run" /\ job[x].d = proc[x].pgdir /\ proc[x].kstack # 0
    BY <2>1, <2>2 DEF Thread, Image
  <2> QED BY <2>3 DEF Pgdirs
<1> HIDE DEF d
<1>5. CASE job[p].op = "grow"
  <2>1. own[d] = <<"pgdir", p, 0>> /\ Pgdirs[p] = d
    BY <1>1, <1>2, <1>4, <1>5 DEF d
  <2>2. ASSUME NEW x \in Pid, x # p PROVE job[x].d # d /\ Pgdirs[x] # d
    <3>1. own[d] # <<"pgdir", x, 0>> /\ own[d] # <<"newdir", x, 0>>
      BY <2>1, <2>2
    <3>2. Pgdirs[x] # d /\ Taken[x] # d
      BY <1>1, <1>2, <3>1
    <3> QED BY <1>3, <1>4, <3>2
  <2> QED BY <1>1, <1>5, <2>1, <2>2 DEF d
<1>6. CASE job[p].op # "grow"
  <2>1. own[d] = <<"newdir", p, 0>> /\ Taken[p] = d
    BY <1>1, <1>2, <1>3, <1>6 DEF d
  <2>2. ASSUME NEW x \in Pid, x # p PROVE job[x].d # d /\ Pgdirs[x] # d
    <3>1. own[d] # <<"pgdir", x, 0>> /\ own[d] # <<"newdir", x, 0>>
      BY <2>1, <2>2
    <3>2. Pgdirs[x] # d /\ Taken[x] # d
      BY <1>1, <1>2, <3>1
    <3> QED BY <1>3, <1>4, <3>2
  <2>3. Pgdirs[p] # d
    <3>1. own[d] # <<"pgdir", p, 0>>
      BY <2>1
    <3> QED BY <1>1, <1>2, <3>1
  <2> QED BY <1>1, <1>6, <2>1, <2>2, <2>3 DEF d
<1> QED BY <1>5, <1>6

\* A process that a step does not change and whose directories it leaves alone.
LEMMA ThreadKept ==
    ASSUME NEW x \in Pid, Thread(x), proc'[x] = proc[x], job'[x] = job[x], cr3'[x] = cr3[x], before'[x] = before[x],
           \A d \in Frame : d \in {job[x].d, Pgdirs[x]} => dir'[d] = dir[d], job[x].d \in Link, Pgdirs[x] \in Link
    PROVE  Thread(x)'
<1>1. Pgdirs'[x] = Pgdirs[x]
  BY DEF Pgdirs
<1>2. \A d \in {job[x].d, Pgdirs[x]} : (IF d = 0 THEN NoDir ELSE dir'[d]) = (IF d = 0 THEN NoDir ELSE dir[d])
  <2> SUFFICES ASSUME NEW d \in {job[x].d, Pgdirs[x]}, d # 0 PROVE dir'[d] = dir[d]
    OBVIOUS
  <2>1. d \in Frame
    BY DEF Link, Frame
  <2> QED BY <2>1
<1>3. Dir(job[x].d)' = Dir(job[x].d) /\ Dir(Pgdirs[x])' = Dir(Pgdirs[x])
  BY <1>1, <1>2 DEF Dir
<1> QED BY <1>1, <1>3 DEF Thread

LEMMA LinksOf == ASSUME Types, NEW x \in Pid PROVE Pgdirs[x] \in Link /\ Kstacks[x] \in Link /\ Taken[x] \in Link /\ Hands[x] \in Link /\ job[x].d \in Link
<1>1. job[x] \in JobT /\ proc[x] \in ProcT
  BY DEF Types
<1>2. job[x].d \in Link /\ job[x].mem \in Link /\ proc[x].kstack \in Link /\ proc[x].pgdir \in Link /\ 0 \in Link
  BY <1>1 DEF JobT, ProcT, Link
<1> QED BY <1>2 DEF Pgdirs, Kstacks, Taken, Hands

\* ptable.lock stays with the call that holds it.
LEMMA SameLocks ==
    ASSUME Locks, ptable' = ptable, ptable \in 0 .. NPROC,
           \A x \in Pid : proc'[x].state = proc[x].state /\ proc'[x].kstack = proc[x].kstack,
           \A x \in Pid : job'[x].op \in {"fork", "wait"} \/ job[x].op \in {"fork", "wait"}
                             => job'[x].op = job[x].op /\ job'[x].q = job[x].q
    PROVE  Locks'
<1>1. \A p \in Pid : job'[p].op \in {"fork", "wait"} <=> job[p].op \in {"fork", "wait"}
  OBVIOUS
<1>2. \A op \in {"fork", "wait"}, x \in Pid : Helps(op, x) => Helps(op, x)'
  BY DEF Helps, Pid
<1> QED BY <1>1, <1>2 DEF Locks

\* A step of a call that changes its process and the directory it works on, and that neither
\* takes ptable.lock nor releases it.
LEMMA Onward ==
    ASSUME Inv, NEW p \in Pid, proc[p].state = "run", boot = <<>>, NEW j \in JobT, NEW r \in ProcT, NEW c \in SpaceT,
           NEW b \in [Page -> Link], job' = [job EXCEPT ![p] = j], proc' = [proc EXCEPT ![p] = r],
           cr3' = [cr3 EXCEPT ![p] = c], before' = [before EXCEPT ![p] = b], r.state = "run", r.kstack = proc[p].kstack,
           UNCHANGED <<ptable, bootVars>>, panicked' = "no",
           (j.op = job[p].op /\ j.q = job[p].q) \/ (j.op \notin {"fork", "wait"} /\ job[p].op \notin {"fork", "wait"}),
           freelist' \in Seq(Frame), leaked' \subseteq Frame, dir' \in [Frame -> DirT], Owned',
           \A d \in Frame : d # job[p].d => dir'[d] = dir[d], job[p].d # 0 => job[p].pc # "user",
           Flow(j), Stage(j, IF j.d = 0 THEN NoDir ELSE dir'[j.d], r.sz), r.pgdir \in Frame, Image(r, j, dir'[r.pgdir], c, b),
           job[p].d # 0 => Tabled(dir'[job[p].d])
    PROVE  Inv'
<1>1. Types'
  BY DEF Inv, Types, bootVars
<1>2. r.kstack # 0 /\ Thread(p)
  <2>1. Thread(p)
    BY DEF Inv
  <2> QED BY <2>1 DEF Thread, Image
<1>3. Thread(p)'
  <2>1. job'[p] = j /\ proc'[p] = r /\ cr3'[p] = c /\ before'[p] = b
    BY DEF Inv, Types
  <2>2. Pgdirs'[p] = r.pgdir /\ Dir(Pgdirs[p])' = dir'[r.pgdir]
    <3>1. Pgdirs'[p] = r.pgdir
      BY <1>2, <2>1 DEF Pgdirs
    <3> QED BY <3>1 DEF Dir, Frame
  <2>3. Flow(j) /\ Stage(j, IF j.d = 0 THEN NoDir ELSE dir'[j.d], r.sz) /\ Image(r, j, dir'[r.pgdir], c, b)
    OBVIOUS
  <2>4. Dir(job[p].d)' = IF j.d = 0 THEN NoDir ELSE dir'[j.d]
    BY <2>1 DEF Dir
  <2> QED BY <2>1, <2>2, <2>3, <2>4 DEF Thread
<1>4. ASSUME NEW x \in Pid, x # p PROVE Thread(x)'
  <2>1. Thread(x) /\ job[x].d \in Link /\ Pgdirs[x] \in Link
    BY LinksOf DEF Inv
  <2>2. proc'[x] = proc[x] /\ job'[x] = job[x] /\ cr3'[x] = cr3[x] /\ before'[x] = before[x]
    BY <1>4 DEF Inv, Types
  <2>3. \A d \in Frame : d \in {job[x].d, Pgdirs[x]} => dir'[d] = dir[d]
    <3> SUFFICES ASSUME NEW d \in Frame, d \in {job[x].d, Pgdirs[x]} PROVE d # job[p].d
      OBVIOUS
    <3>1. d # 0
      BY DEF Frame
    <3> QED BY <1>4, <3>1, Apart
  <2> QED BY <2>1, <2>2, <2>3, ThreadKept
<1>5. \A d \in Frame : Tabled(dir'[d])
  <2> SUFFICES ASSUME NEW d \in Frame PROVE Tabled(dir'[d])
    OBVIOUS
  <2>1. d # 0 /\ Tabled(dir[d])
    BY DEF Frame, Inv
  <2>2. d # job[p].d => dir'[d] = dir[d]
    OBVIOUS
  <2> QED BY <2>1, <2>2
<1>6. Booted'
  BY DEF Inv, Booted, bootVars
<1>7. Locks'
  <2>1. /\ Locks /\ ptable' = ptable /\ \A x \in Pid : proc'[x].state = proc[x].state /\ proc'[x].kstack = proc[x].kstack
    BY DEF Inv, Types
  <2>2. /\ \A x \in Pid : x # p => job'[x] = job[x]
        /\ job'[p] = j
    BY DEF Inv, Types
  <2>3. CASE j.op = job[p].op /\ j.q = job[p].q
    <3>1. \A x \in Pid : job'[x].op = job[x].op /\ job'[x].q = job[x].q
      BY <2>2, <2>3
    <3> QED BY <2>1, <3>1, SameLocks DEF Inv, Types
  <2>4. CASE j.op \notin {"fork", "wait"} /\ job[p].op \notin {"fork", "wait"}
    <3>1. \A x \in Pid : /\ job'[x].op \in {"fork", "wait"} \/ job[x].op \in {"fork", "wait"}
                               => job'[x].op = job[x].op /\ job'[x].q = job[x].q
      BY <2>2, <2>4
    <3> QED BY <2>1, <3>1, SameLocks DEF Inv, Types
  <2> QED BY <2>3, <2>4
<1>8. \A x \in Pid : Thread(x)'
  BY <1>3, <1>4
<1> QED BY <1>1, <1>5, <1>6, <1>7, <1>8 DEF Inv

LEMMA Holders ==
    ASSUME Types, NEW p \in Pid, NEW j, job' = [job EXCEPT ![p] = j], NEW r, proc' = [proc EXCEPT ![p] = r],
           r.kstack = proc[p].kstack, r.pgdir = proc[p].pgdir
    PROVE  /\ Kstacks' = Kstacks /\ Pgdirs' = Pgdirs
           /\ Taken' = [Taken EXCEPT ![p] = IF j.op = "grow" THEN 0 ELSE j.d] /\ Hands' = [Hands EXCEPT ![p] = j.mem]
<1>1. \A x \in Pid : proc'[x].kstack = proc[x].kstack /\ proc'[x].pgdir = proc[x].pgdir
  BY DEF Types
<1>2. job'[p] = j /\ \A x \in Pid : x # p => job'[x] = job[x]
  BY DEF Types
<1>3. Kstacks' = Kstacks
  BY <1>1 DEF Kstacks
<1>4. Pgdirs' = Pgdirs
  BY <1>1 DEF Pgdirs
<1>5. Taken' = [Taken EXCEPT ![p] = IF j.op = "grow" THEN 0 ELSE j.d]
  <2> DEFINE t == IF j.op = "grow" THEN 0 ELSE j.d
  <2>1. Taken' = [x \in Pid |-> IF job'[x].op = "grow" THEN 0 ELSE job'[x].d]
    BY DEF Taken
  <2>2. [Taken EXCEPT ![p] = t] = [x \in Pid |-> IF x = p THEN t ELSE IF job[x].op = "grow" THEN 0 ELSE job[x].d]
    BY DEF Taken
  <2>3. \A x \in Pid : (IF job'[x].op = "grow" THEN 0 ELSE job'[x].d) = (IF x = p THEN t ELSE IF job[x].op = "grow" THEN 0 ELSE job[x].d)
    BY <1>2
  <2> QED BY <2>1, <2>2, <2>3
<1>6. Hands' = [Hands EXCEPT ![p] = j.mem]
  <2>1. Hands' = [x \in Pid |-> job'[x].mem]
    BY DEF Hands
  <2>2. [Hands EXCEPT ![p] = j.mem] = [x \in Pid |-> IF x = p THEN j.mem ELSE job[x].mem]
    BY DEF Hands
  <2> QED BY <1>2, <2>1, <2>2
<1> QED BY <1>3, <1>4, <1>5, <1>6

LEMMA HoldersSame ==
    ASSUME Types, NEW p \in Pid, NEW j, job' = [job EXCEPT ![p] = j], proc' = proc
    PROVE  /\ Kstacks' = Kstacks /\ Pgdirs' = Pgdirs
           /\ Taken' = [Taken EXCEPT ![p] = IF j.op = "grow" THEN 0 ELSE j.d] /\ Hands' = [Hands EXCEPT ![p] = j.mem]
<1> DEFINE r == proc[p]
<1>1. proc' = [proc EXCEPT ![p] = r] /\ r.kstack = proc[p].kstack /\ r.pgdir = proc[p].pgdir
  BY DEF Types
<1> HIDE DEF r
<1> QED BY <1>1, Holders

\* The image of the process does not depend on where the call is, but for growproc().
LEMMA ImageKept ==
    ASSUME NEW r, NEW j, NEW P, NEW c, NEW b, Image(r, j, P, c, b), j # NoJob, NEW k, k.op = j.op, j.op # "", j.op # "grow"
    PROVE  Image(r, k, P, c, b)
BY DEF Image, Shrinks

LEMMA ImageGrow ==
    ASSUME NEW r \in ProcT, NEW j, NEW P, NEW c, NEW b, Image(r, j, P, c, b), j # NoJob, NEW k, NEW Q, k.op = "grow", j.op = "grow",
           k.d = j.d, k.from = j.from, k.to = j.to, Shrinks(k) <=> Shrinks(j), Full(Q),
           ~Shrinks(j) => \A g \in Page : g < Up(r.sz) => Q.pte[g] = P.pte[g]
    PROVE  Image(r, k, Q, c, b)
<1>1. r.state = "run" /\ r.kstack # 0 /\ r.pgdir # 0 /\ c.d = r.pgdir /\ k.d = r.pgdir
  BY DEF Image
<1>2. Shrinks(k) => k.to = r.sz /\ k.from < r.sz
  BY DEF Image
<1>3. ~Shrinks(k) => k.from = r.sz /\ Cached(c, Q, Up(r.sz)) /\ b = [g \in Page |-> IF g < Up(r.sz) THEN Q.pte[g] ELSE 0]
  <2> SUFFICES ASSUME ~Shrinks(k) PROVE k.from = r.sz /\ Cached(c, Q, Up(r.sz)) /\ b = [g \in Page |-> IF g < Up(r.sz) THEN Q.pte[g] ELSE 0]
    OBVIOUS
  <2>1. k.from = r.sz /\ Cached(c, P, Up(r.sz)) /\ b = [g \in Page |-> IF g < Up(r.sz) THEN P.pte[g] ELSE 0]
    BY DEF Image
  <2>2. \A g \in Page : g < Up(r.sz) => Q.pte[g] = P.pte[g]
    OBVIOUS
  <2> HIDE DEF Up
  <2>3. Cached(c, Q, Up(r.sz))
    BY <2>1, <2>2 DEF Cached
  <2>4. b = [g \in Page |-> IF g < Up(r.sz) THEN Q.pte[g] ELSE 0]
    BY <2>1, <2>2
  <2> QED BY <2>1, <2>3, <2>4
<1> QED BY <1>1, <1>2, <1>3 DEF Image

\* A step inside a call.
LEMMA Inside ==
    ASSUME Inv, NEW p \in Pid, job[p].pc # "user", NEW j \in JobT, job' = [job EXCEPT ![p] = j],
           UNCHANGED <<proc, cr3, ptable, bootVars, before>>, panicked' = "no",
           (j.op = job[p].op /\ j.q = job[p].q) \/ (j.op \notin {"fork", "wait"} /\ job[p].op \notin {"fork", "wait"}),
           freelist' \in Seq(Frame), leaked' \subseteq Frame, dir' \in [Frame -> DirT],
           OwnsNow(freelist', cpus, leaked', Unfreed, Kstacks, Pgdirs,
                   [Taken EXCEPT ![p] = IF j.op = "grow" THEN 0 ELSE j.d], [Hands EXCEPT ![p] = j.mem], dir'),
           \A d \in Frame : d # job[p].d => dir'[d] = dir[d],
           Flow(j), Stage(j, IF j.d = 0 THEN NoDir ELSE dir'[j.d], proc[p].sz),
           Image(proc[p], j, dir'[proc[p].pgdir], cr3[p], before[p]), job[p].d # 0 => Tabled(dir'[job[p].d])
    PROVE  Inv'
<1> DEFINE r == proc[p]
           c == cr3[p]
           b == before[p]
<1>1. /\ r \in ProcT /\ c \in SpaceT /\ b \in [Page -> Link] /\ proc' = [proc EXCEPT ![p] = r] /\ cr3' = [cr3 EXCEPT ![p] = c]
      /\ before' = [before EXCEPT ![p] = b]
  BY DEF Inv, Types
<1>2. r.state = "run" /\ boot = <<>> /\ r.pgdir \in Frame
  BY Working
<1>3. /\ Kstacks' = Kstacks /\ Pgdirs' = Pgdirs
      /\ Taken' = [Taken EXCEPT ![p] = IF j.op = "grow" THEN 0 ELSE j.d] /\ Hands' = [Hands EXCEPT ![p] = j.mem]
  <2>1. Types /\ proc' = proc
    BY DEF Inv
  <2> QED BY <2>1, HoldersSame
<1>4. Owned'
  BY <1>3 DEF Owned, Unfreed, bootVars
<1>6. /\ Flow(j) /\ Stage(j, IF j.d = 0 THEN NoDir ELSE dir'[j.d], r.sz) /\ Image(r, j, dir'[r.pgdir], c, b)
      /\ UNCHANGED <<ptable, bootVars>>
  OBVIOUS
<1> HIDE DEF r, c, b
<1>7. r.kstack = proc[p].kstack
  BY DEF r
<1>8. proc[p].state = "run"
  BY <1>2 DEF r
<1> QED BY <1>1, <1>2, <1>4, <1>6, <1>7, <1>8, Onward

\* A step inside a call that leaves the pages alone.
LEMMA Quiet ==
    ASSUME Inv, NEW p \in Pid, job[p].pc # "user", NEW j \in JobT, job' = [job EXCEPT ![p] = j],
           UNCHANGED <<freelist, leaked, dir, proc, cr3, ptable, bootVars, before, panicked>>,
           j.op = job[p].op, j.q = job[p].q, j.d = job[p].d, j.mem = job[p].mem,
           j.op = "grow" => j.from = job[p].from /\ j.to = job[p].to /\ (Shrinks(j) <=> Shrinks(job[p])),
           Flow(j), Stage(j, Dir(j.d), proc[p].sz), j.op = "grow" => Full(Dir(j.d))
    PROVE  Inv'
<1>1. /\ Types /\ Owned
  BY DEF Inv
<1>2. /\ Taken = [Taken EXCEPT ![p] = IF j.op = "grow" THEN 0 ELSE j.d] /\ Hands = [Hands EXCEPT ![p] = j.mem]
  BY DEF Taken, Hands
<1>3. OwnsNow(freelist', cpus, leaked', Unfreed, Kstacks, Pgdirs,
                   [Taken EXCEPT ![p] = IF j.op = "grow" THEN 0 ELSE j.d], [Hands EXCEPT ![p] = j.mem], dir')
  BY <1>1, <1>2 DEF Owned
<1>4. freelist' \in Seq(Frame) /\ leaked' \subseteq Frame /\ dir' \in [Frame -> DirT] /\ panicked' = "no" /\ dir' = dir
  BY <1>1 DEF Types
<1>5. Image(proc[p], j, dir[proc[p].pgdir], cr3[p], before[p])
  <2>1. /\ Image(proc[p], job[p], dir[proc[p].pgdir], cr3[p], before[p]) /\ job[p] # NoJob /\ job[p].op # "" /\ proc[p] \in ProcT
    BY Working
  <2>2. CASE job[p].op = "grow"
    <3>1. Full(dir[proc[p].pgdir])
      BY <2>1, Working DEF Image
    <3> QED BY <2>1, <2>2, <3>1, ImageGrow
  <2>3. CASE job[p].op # "grow"
    BY <2>1, <2>3, ImageKept
  <2> QED BY <2>2, <2>3
<1>6. job[p].d # 0 => Tabled(dir[job[p].d])
  <2>1. job[p].d \in Link
    BY LinksOf DEF Inv
  <2> QED BY <2>1 DEF Inv, Link, Frame
<1>7. Stage(j, IF j.d = 0 THEN NoDir ELSE dir[j.d], proc[p].sz)
  BY DEF Dir
<1> QED BY <1>3, <1>4, <1>5, <1>6, <1>7, Inside

-----------------------------------------------------------------------------
(* The steps of the calls *)

LEMMA Holding ==
    ASSUME Inv
    PROVE  /\ Typed(freelist, cpus, leaked, Kstacks, Pgdirs, Taken, Hands, dir)
           /\ OwnsNow(freelist, cpus, leaked, Unfreed, Kstacks, Pgdirs, Taken, Hands, dir)
<1>1. /\ Kstacks \in [Pid -> Link] /\ Pgdirs \in [Pid -> Link] /\ Taken \in [Pid -> Link] /\ Hands \in [Pid -> Link]
  <2>1. /\ Kstacks = [x \in Pid |-> Kstacks[x]] /\ Pgdirs = [x \in Pid |-> Pgdirs[x]] /\ Taken = [x \in Pid |-> Taken[x]]
        /\ Hands = [x \in Pid |-> Hands[x]]
    BY DEF Kstacks, Pgdirs, Taken, Hands
  <2> QED BY <2>1, LinksOf DEF Inv
<1>2. cpus \in Seq(Frame)
  <2>1. 1 .. NLOW \subseteq Frame
    BY DEF Frame
  <2>2. cpus \in Seq(1 .. NLOW)
    BY DEF Inv, Types
  <2> QED BY <2>1, <2>2
<1> QED BY <1>1, <1>2 DEF Inv, Types, Typed, Owned

LEMMA UpPage == ASSUME NEW n \in Nat, n <= KERNBASE PROVE Up(n) \in 0 .. NPAGE
<1>1. Up(n) \in Nat
  BY UpIs
<1>2. Up(n) <= NPAGE
  BY UpOrder
<1>3. NPAGE \in Nat
  BY Space
<1> QED BY <1>1, <1>2, <1>3

\* What holds where a call is.
LEMMA Here ==
    ASSUME Inv, NEW p \in Pid, job[p].pc # "user"
    PROVE  /\ job[p].a \in Nat /\ job[p].a \div PGSIZE \in Nat /\ job[p].a = (job[p].a \div PGSIZE) * PGSIZE
           /\ Where(job[p], job[p].a \div PGSIZE, Dir(job[p].d), proc[p].sz) /\ Flow(job[p])
           /\ job[p] \in JobT /\ proc[p].sz \in 0 .. KERNBASE /\ panicked = "no" /\ job[p].op # ""
<1>1. job[p] \in JobT /\ proc[p] \in ProcT /\ panicked = "no"
  BY DEF Inv, Types
<1>2. Stage(job[p], Dir(job[p].d), proc[p].sz) /\ Flow(job[p]) /\ job[p].op # ""
  BY Working
<1>3. job[p].a \in Nat
  BY <1>1, Space, Times DEF JobT, Address
<1>4. job[p].a \div PGSIZE \in Nat
  BY <1>3, Division
<1> QED BY <1>1, <1>2, <1>3, <1>4 DEF Stage, ProcT

\* exec() gives up.
LEMMA Drops ==
    ASSUME NEW j \in JobT, NEW D, NEW sz, NEW m \in 0 .. NPAGE, Below(D, m), Full(D), j.d # 0
    PROVE  /\ Bad(j) \in JobT /\ Stage(Bad(j), D, sz) /\ Bad(j).op = j.op /\ Bad(j).q = j.q /\ Bad(j).d = j.d /\ Bad(j).mem = 0
           /\ j.op \in {"exec", "old", "fork", "wait"} => Flow(Bad(j))
<1> DEFINE b == Bad(j)
<1>1. /\ b.pc = "dealloc" /\ b.a = 0 /\ b.to = KERNBASE /\ b.next = "tables" /\ b.mem = 0 /\ b.op = j.op /\ b.q = j.q /\ b.d = j.d
      /\ b.from = j.from
  BY DEF Bad, JobT
<1>2. b \in JobT
  <2>1. 0 \in Address /\ 0 \in Link
    BY Space, Times DEF Address, Link
  <2> QED BY <2>1 DEF Bad, JobT, Labels, Nexts
<1>3. 0 \div PGSIZE = 0 /\ 0 * PGSIZE = 0
  OBVIOUS
<1>4. Up(KERNBASE) = NPAGE
  BY UpOrder
<1> HIDE DEF b
<1>5. Gap(D, 0, 0, m)
  BY DEF Gap, Below, Page
<1>6. Where(b, 0, D, sz)
  BY <1>1, <1>4, <1>5 DEF Where
<1>7. Stage(b, D, sz)
  BY <1>1, <1>3, <1>6 DEF Stage
<1>8. j.op \in {"exec", "old", "fork", "wait"} => Flow(b)
  BY <1>1 DEF Flow
<1> QED BY <1>1, <1>2, <1>7, <1>8 DEF b

LEMMA ExecFailsKeeps == ASSUME Inv, NEW p \in Pid, ExecFails(p) PROVE Inv'
<1> DEFINE j == job[p]
           k == j.a \div PGSIZE
           D == Dir(j.d)
<1>1. j.pc = "bad" /\ job' = [job EXCEPT ![p] = Bad(j)]
  BY DEF ExecFails, At, Go
<1>2. Where(j, k, D, proc[p].sz) /\ Flow(j) /\ j \in JobT /\ j.op # ""
  BY <1>1, Here
<1> HIDE DEF j, k, D
<1>3. /\ j.op = "exec" /\ j.d # 0 /\ j.mem = 0 /\ Full(D) /\ Below(D, Up(j.from)) /\ j.from < KERNBASE
  <2>1. j.op \in Ops
    BY <1>2 DEF JobT
  <2>2. j.op = "exec"
    BY <1>1, <1>2, <2>1 DEF Flow, Ops
  <2> QED BY <1>1, <1>2, <2>2 DEF Where
<1>4. Up(j.from) \in 0 .. NPAGE
  <2>1. j.from \in Nat
    BY <1>2 DEF JobT
  <2> QED BY <1>3, <2>1, UpPage
<1>5. /\ Bad(j) \in JobT /\ Stage(Bad(j), D, proc[p].sz) /\ Flow(Bad(j)) /\ Bad(j).op = j.op /\ Bad(j).q = j.q /\ Bad(j).d = j.d
      /\ Bad(j).mem = j.mem
  BY <1>2, <1>3, <1>4, Drops
<1> DEFINE b == Bad(j)
<1> HIDE DEF b
<1>6. UNCHANGED <<freelist, leaked, dir, proc, cr3, ptable, bootVars, before, panicked>>
  BY DEF ExecFails, history
<1> QED BY <1>1, <1>3, <1>5, <1>6, Quiet DEF j, D, b

\* The first address of a page that is not beyond the space for processes.
LEMMA Rounded ==
    ASSUME NEW n \in Nat, n <= KERNBASE
    PROVE  /\ PGROUNDUP(n) \in Address /\ PGROUNDUP(n) \in Nat /\ PGROUNDUP(n) \div PGSIZE = Up(n) /\ Up(n) \in Nat
           /\ PGROUNDUP(n) = (PGROUNDUP(n) \div PGSIZE) * PGSIZE /\ Up(PGROUNDUP(n)) = Up(n) /\ n <= PGROUNDUP(n)
<1>1. /\ Up(n) \in Nat /\ PGROUNDUP(n) = Up(n) * PGSIZE /\ PGROUNDUP(n) \div PGSIZE = Up(n) /\ n <= Up(n) * PGSIZE
      /\ Up(n) * PGSIZE < n + PGSIZE
  BY UpIs
<1>2. Up(Up(n) * PGSIZE) = Up(n)
  BY <1>1, UpOrder
<1>3. PGROUNDUP(n) \in Address
  <2>1. Up(n) <= NPAGE /\ NPAGE \in Nat /\ KERNBASE = NPAGE * PGSIZE
    BY UpPage, Space
  <2>2. Up(n) * PGSIZE <= NPAGE * PGSIZE
    <3>1. Up(n) < NPAGE => Up(n) * PGSIZE < NPAGE * PGSIZE
      BY <1>1, <2>1, TimesOrder
    <3>2. Up(n) * PGSIZE \in Nat /\ NPAGE * PGSIZE \in Nat
      BY <1>1, <2>1, Times
    <3>3. Up(n) = NPAGE => Up(n) * PGSIZE = NPAGE * PGSIZE
      OBVIOUS
    <3>4. Up(n) < NPAGE \/ Up(n) = NPAGE
      BY <1>1, <2>1
    <3> DEFINE s == Up(n) * PGSIZE
               t == NPAGE * PGSIZE
    <3>5. s < t \/ s = t
      BY <3>1, <3>3, <3>4
    <3> HIDE DEF s, t
    <3>6. s <= t
      BY <3>2, <3>5 DEF s, t
    <3> QED BY <3>6 DEF s, t
  <2>3. NPTENTRIES * PGSIZE \in Nat /\ Up(n) * PGSIZE \in Nat
    BY <1>1, Times
  <2> QED BY <1>1, <2>1, <2>2, <2>3 DEF Address
<1> DEFINE s == Up(n) * PGSIZE
<1>4. s \in Nat
  BY <1>1, Times
<1> HIDE DEF s
<1>5. PGROUNDUP(n) = s /\ s \in Nat /\ n <= s /\ s \div PGSIZE = Up(n) /\ Up(s) = Up(n) /\ (s \div PGSIZE) * PGSIZE = s
  BY <1>1, <1>2, <1>4 DEF s
<1> QED BY <1>1, <1>3, <1>5

LEMMA LoadedKeeps == ASSUME Inv, NEW p \in Pid, Loaded(p) PROVE Inv'
<1> DEFINE j == job[p]
           k == j.a \div PGSIZE
           D == Dir(j.d)
           b == IF Head(j.segs).fault = "load" \/ j.to = 0 THEN Bad(j) ELSE [j EXCEPT !.pc = "seg", !.from = j.to, !.segs = Tail(j.segs)]
<1>1. j.pc = "loaded" /\ job' = [job EXCEPT ![p] = b]
  BY DEF Loaded, At, Go
<1>2. Where(j, k, D, proc[p].sz) /\ Flow(j) /\ j \in JobT /\ j.op # "" /\ j.a = k * PGSIZE
  BY <1>1, Here
<1> HIDE DEF j, k, D
<1>3. /\ j.op = "exec" /\ j.d # 0 /\ j.mem = 0 /\ Full(D) /\ Below(D, Up(j.to)) /\ j.to < KERNBASE /\ j.segs # <<>>
  <2>1. j.op \in Ops
    BY <1>2 DEF JobT
  <2>2. j.op = "exec" /\ j.segs # <<>>
    BY <1>1, <1>2, <2>1 DEF Flow, Ops
  <2> QED BY <1>1, <1>2, <2>2 DEF Where
<1>4. b \in JobT /\ Stage(b, D, proc[p].sz) /\ Flow(b) /\ b.op = j.op /\ b.q = j.q /\ b.d = j.d /\ b.mem = j.mem
  <2>1. CASE Head(j.segs).fault = "load" \/ j.to = 0
    <3>1. Up(j.to) \in 0 .. NPAGE
      <4>1. j.to \in Nat
        BY <1>2 DEF JobT
      <4> QED BY <1>3, <4>1, UpPage
    <3>2. /\ Bad(j) \in JobT /\ Stage(Bad(j), D, proc[p].sz) /\ Flow(Bad(j)) /\ Bad(j).op = j.op /\ Bad(j).q = j.q /\ Bad(j).d = j.d
          /\ Bad(j).mem = j.mem
      BY <1>2, <1>3, <3>1, Drops
    <3> QED BY <2>1, <3>2
  <2>2. CASE ~(Head(j.segs).fault = "load" \/ j.to = 0)
    <3> DEFINE e == [j EXCEPT !.pc = "seg", !.from = j.to, !.segs = Tail(j.segs)]
    <3>1. /\ e \in JobT /\ e.pc = "seg" /\ e.from = j.to /\ e.op = "exec" /\ e.q = j.q /\ e.d = j.d /\ e.mem = 0 /\ e.a = j.a
          /\ e.to = j.to /\ e.next = j.next
      <4>1. Tail(j.segs) \in Seq(Segs)
        BY <1>2, <1>3 DEF JobT
      <4> QED BY <1>2, <1>3, <4>1 DEF JobT, Labels
    <3> HIDE DEF e
    <3>2. Where(e, k, D, proc[p].sz) /\ Flow(e)
      BY <1>3, <3>1 DEF Where, Flow
    <3>3. Stage(e, D, proc[p].sz)
      BY <1>2, <3>1, <3>2 DEF Stage, k
    <3>4. b = e
      BY <2>2 DEF e
    <3> HIDE DEF b
    <3> QED BY <1>3, <3>1, <3>2, <3>3, <3>4
  <2> QED BY <2>1, <2>2
<1> HIDE DEF b
<1>5. UNCHANGED <<freelist, leaked, dir, proc, cr3, ptable, bootVars, before, panicked>>
  BY DEF Loaded, history
<1> QED BY <1>1, <1>3, <1>4, <1>5, Quiet DEF j, D

LEMMA SegmentKeeps == ASSUME Inv, NEW p \in Pid, Segment(p) PROVE Inv'
<1> DEFINE j == job[p]
           k == j.a \div PGSIZE
           D == Dir(j.d)
           u == PGROUNDUP(j.from)
           top == PGROUNDUP(j.from) + 2 * PGSIZE
           seg == Head(j.segs)
<1> DEFINE b == CASE j.segs = <<>> /\ top < KERNBASE ->
                          [j EXCEPT !.pc = "page", !.from = u, !.a = u, !.to = top, !.next = "stack"]
                  [] j.segs = <<>> /\ top >= KERNBASE -> Bad(j)
                  [] j.segs # <<>> /\ (seg.fault = "header" \/ seg.end >= KERNBASE) -> Bad(j)
                  [] j.segs # <<>> /\ seg.fault # "header" /\ seg.end < j.from -> [j EXCEPT !.pc = "loaded", !.to = j.from]
                  [] OTHER -> [j EXCEPT !.pc = "page", !.a = u, !.to = seg.end, !.next = "loaded"]
<1>1. j.pc = "seg" /\ job' = [job EXCEPT ![p] = b]
  BY DEF Segment, At, Go
<1>2. Where(j, k, D, proc[p].sz) /\ Flow(j) /\ j \in JobT /\ j.op # "" /\ j.a = k * PGSIZE
  BY <1>1, Here
<1>3. j.segs # <<>> => seg \in Segs
  <2>1. j.segs \in Seq(Segs)
    BY <1>2 DEF JobT
  <2> QED BY <2>1
<1> HIDE DEF j, k, D, seg
<1>4. /\ j.op = "exec" /\ j.d # 0 /\ j.mem = 0 /\ Full(D) /\ Below(D, Up(j.from)) /\ j.from < KERNBASE /\ j.from \in Nat
  <2>1. j.op \in Ops /\ j.from \in Nat
    BY <1>2 DEF JobT
  <2>2. j.op = "exec"
    BY <1>1, <1>2, <2>1 DEF Flow, Ops
  <2> QED BY <1>1, <1>2, <2>1, <2>2 DEF Where
<1>5. /\ u \in Address /\ u \in Nat /\ u \div PGSIZE = Up(j.from) /\ Up(j.from) \in Nat /\ u = (u \div PGSIZE) * PGSIZE
      /\ Up(u) = Up(j.from) /\ j.from <= u /\ top = u + 2 * PGSIZE
  BY <1>4, Rounded
<1> HIDE DEF u, top
<1>6. \/ /\ j.segs = <<>> /\ top < KERNBASE
         /\ b = [j EXCEPT !.pc = "page", !.from = u, !.a = u, !.to = top, !.next = "stack"]
      \/ b = Bad(j)
      \/ j.segs # <<>> /\ b = [j EXCEPT !.pc = "loaded", !.to = j.from]
      \/ /\ j.segs # <<>> /\ seg.end < KERNBASE /\ ~(seg.end < j.from)
         /\ b = [j EXCEPT !.pc = "page", !.a = u, !.to = seg.end, !.next = "loaded"]
  <2>1. CASE j.segs = <<>>
    <3>1. top \in Nat
      BY <1>5
    <3>2. CASE top < KERNBASE
      BY <2>1, <3>2
    <3>3. CASE ~(top < KERNBASE)
      BY <2>1, <3>1, <3>3
    <3> QED BY <3>2, <3>3
  <2>2. CASE j.segs # <<>>
    <3>1. seg.end \in Nat
      BY <1>3, <2>2 DEF Segs
    <3>2. CASE seg.fault = "header" \/ seg.end >= KERNBASE
      BY <2>2, <3>2
    <3>3. CASE ~(seg.fault = "header" \/ seg.end >= KERNBASE)
      BY <2>2, <3>1, <3>3
    <3> QED BY <3>2, <3>3
  <2> QED BY <2>1, <2>2
<1> HIDE DEF b
<1>7. b \in JobT /\ Stage(b, D, proc[p].sz) /\ Flow(b) /\ b.op = j.op /\ b.q = j.q /\ b.d = j.d /\ b.mem = j.mem
  <2>1. CASE j.segs = <<>> /\ top < KERNBASE /\ b = [j EXCEPT !.pc = "page", !.from = u, !.a = u, !.to = top, !.next = "stack"]
    <3>0. u <= top /\ top \in Nat
      BY <1>5
    <3>1. /\ b \in JobT /\ b.pc = "page" /\ b.from = u /\ b.op = "exec" /\ b.q = j.q /\ b.d = j.d /\ b.mem = 0 /\ b.a = u
          /\ b.to = top /\ b.next = "stack"
      BY <1>2, <1>4, <1>5, <2>1, <3>0 DEF JobT, Labels, Nexts
    <3>2. /\ Up(j.from) <= Up(b.to) /\ Up(b.from) = Up(j.from) /\ b.from <= b.to /\ b.to < KERNBASE
          /\ Below(D, Up(j.from)) /\ Full(D) /\ b.d # 0
      BY <1>4, <1>5, <2>1, <3>0, <3>1, UpOrder
    <3>3. Where(b, Up(j.from), D, proc[p].sz)
      BY <1>5, <3>1, <3>2 DEF Where
    <3>4. Flow(b)
      BY <3>1 DEF Flow
    <3>5. Stage(b, D, proc[p].sz)
      BY <1>5, <3>1, <3>3 DEF Stage
    <3> QED BY <1>4, <3>1, <3>4, <3>5
  <2>2. CASE b = Bad(j)
    <3>1. Up(j.from) \in 0 .. NPAGE
      BY <1>4, UpPage
    <3>2. /\ Bad(j) \in JobT /\ Stage(Bad(j), D, proc[p].sz) /\ Flow(Bad(j)) /\ Bad(j).op = j.op /\ Bad(j).q = j.q /\ Bad(j).d = j.d
          /\ Bad(j).mem = j.mem
      BY <1>2, <1>4, <3>1, Drops
    <3> QED BY <2>2, <3>2
  <2>3. CASE j.segs # <<>> /\ b = [j EXCEPT !.pc = "loaded", !.to = j.from]
    <3>1. /\ b \in JobT /\ b.pc = "loaded" /\ b.from = j.from /\ b.op = "exec" /\ b.q = j.q /\ b.d = j.d /\ b.mem = 0 /\ b.a = j.a
          /\ b.to = j.from /\ b.next = j.next /\ b.segs = j.segs
      BY <1>2, <1>4, <2>3 DEF JobT, Labels
    <3>2. Where(b, k, D, proc[p].sz) /\ Flow(b)
      BY <1>4, <2>3, <3>1 DEF Where, Flow
    <3>3. Stage(b, D, proc[p].sz)
      BY <1>2, <3>1, <3>2 DEF Stage, k
    <3> QED BY <1>4, <3>1, <3>2, <3>3
  <2>4. CASE /\ j.segs # <<>> /\ seg.end < KERNBASE /\ ~(seg.end < j.from)
             /\ b = [j EXCEPT !.pc = "page", !.a = u, !.to = seg.end, !.next = "loaded"]
    <3>0. seg.end \in Nat /\ j.from <= seg.end
      BY <1>3, <1>4, <2>4 DEF Segs
    <3>1. /\ b \in JobT /\ b.pc = "page" /\ b.from = j.from /\ b.op = "exec" /\ b.q = j.q /\ b.d = j.d /\ b.mem = 0 /\ b.a = u
          /\ b.to = seg.end /\ b.next = "loaded" /\ b.segs = j.segs
      BY <1>2, <1>4, <1>5, <2>4, <3>0 DEF JobT, Labels, Nexts
    <3>2. /\ Up(j.from) <= Up(b.to) /\ Up(b.from) = Up(j.from) /\ b.from <= b.to /\ b.to < KERNBASE
          /\ Below(D, Up(j.from)) /\ Full(D) /\ b.d # 0
      BY <1>4, <2>4, <3>0, <3>1, UpOrder
    <3>3. Where(b, Up(j.from), D, proc[p].sz)
      BY <1>5, <3>1, <3>2 DEF Where
    <3>4. Flow(b)
      BY <2>4, <3>1 DEF Flow
    <3>5. Stage(b, D, proc[p].sz)
      BY <1>5, <3>1, <3>3 DEF Stage
    <3> QED BY <1>4, <3>1, <3>4, <3>5
  <2> QED BY <1>6, <2>1, <2>2, <2>3, <2>4
<1>8. UNCHANGED <<freelist, leaked, dir, proc, cr3, ptable, bootVars, before, panicked>>
  BY DEF Segment, history
<1> QED BY <1>1, <1>4, <1>5, <1>7, <1>8, Quiet DEF j, D

LEMMA HoldersStay ==
    ASSUME Types, NEW p \in Pid, NEW j, j.op = job[p].op, j.d = job[p].d
    PROVE  /\ [Taken EXCEPT ![p] = IF j.op = "grow" THEN 0 ELSE j.d] = Taken
           /\ j.mem = job[p].mem => [Hands EXCEPT ![p] = j.mem] = Hands
<1>1. [Taken EXCEPT ![p] = IF j.op = "grow" THEN 0 ELSE j.d] = Taken
  BY DEF Taken
<1>2. j.mem = job[p].mem => [Hands EXCEPT ![p] = j.mem] = Hands
  BY DEF Hands
<1> QED BY <1>1, <1>2

\* A page is mapped.
MapsPage(D, X, d, g, f) == /\ X \in [Frame -> DirT] /\ X[d].kern = D[d].kern /\ X[d].tab = D[d].tab
                           /\ X[d].pte = [D[d].pte EXCEPT ![g] = f] /\ \A c \in Frame : c # d => X[c] = D[c]
LEMMA SetPage ==
    ASSUME NEW D \in [Frame -> DirT], NEW d \in Frame, NEW g \in Page, NEW f \in Link
    PROVE  MapsPage(D, [D EXCEPT ![d].pte[g] = f], d, g, f)
BY DEF DirT, MapsPage

LEMMA BelowMore ==
    ASSUME NEW P, NEW Q, NEW k \in Page, Below(P, k), P.pte \in [Page -> Link], NEW f \in Frame, Q.pte = [P.pte EXCEPT ![k] = f]
    PROVE  Below(Q, k + 1) /\ P.pte[k] = 0
<1>1. k \in Nat /\ \A g \in Page : g \in Nat
  BY DEF Page
<1>2. f # 0 /\ P.pte[k] = 0
  BY <1>1 DEF Frame, Below
<1>3. ASSUME NEW g \in Page PROVE Q.pte[g] # 0 <=> g < k + 1
  BY <1>1, <1>2, <1>3 DEF Below
<1> QED BY <1>2, <1>3 DEF Below

LEMMA MapMore ==
    ASSUME NEW D \in [Frame -> DirT], NEW d \in Frame, NEW k \in Page, NEW f \in Frame, Below(D[d], k), Full(D[d]), Tabled(D[d]),
           D[d].tab[Row(k)] # 0, NEW X, MapsPage(D, X, d, k, f)
    PROVE  /\ X \in [Frame -> DirT] /\ Below(X[d], k + 1) /\ D[d].pte[k] = 0 /\ Full(X[d]) /\ Tabled(X[d])
<1>2. /\ X \in [Frame -> DirT] /\ X[d].kern = D[d].kern /\ X[d].tab = D[d].tab /\ X[d].pte = [D[d].pte EXCEPT ![k] = f]
      /\ \A c \in Frame : c # d => X[c] = D[c]
  BY DEF MapsPage
<1> DEFINE P == D[d]
           Q == X[d]
<1>3. P.pte \in [Page -> Link] /\ Below(P, k) /\ Q.pte = [P.pte EXCEPT ![k] = f] /\ Tabled(P) /\ Q.tab = P.tab /\ P.tab[Row(k)] # 0
  BY <1>2 DEF DirT
<1> HIDE DEF P, Q
<1>4. Below(Q, k + 1) /\ P.pte[k] = 0
  BY <1>3, BelowMore
<1>5. Tabled(Q)
  BY <1>3 DEF Tabled
<1>6. Full(Q)
  BY <1>2 DEF Full, P, Q
<1> QED BY <1>2, <1>4, <1>5, <1>6 DEF P, Q

\* Image after a page of the directory in the making was mapped or unmapped.
LEMMA ImageMapped ==
    ASSUME Inv, NEW p \in Pid, job[p].d # 0, job[p].pc # "user", NEW j, j.op = job[p].op, NEW X,
           \A c \in Frame : c # job[p].d => X[c] = dir[c],
           j.op = "grow" => /\ j.d = job[p].d /\ j.from = job[p].from /\ j.to = job[p].to /\ (Shrinks(j) <=> Shrinks(job[p]))
                            /\ Full(X[job[p].d]),
           j.op = "grow" /\ ~Shrinks(j) => \A g \in Page : g < Up(proc[p].sz) => X[job[p].d].pte[g] = dir[job[p].d].pte[g]
    PROVE  Image(proc[p], j, X[proc[p].pgdir], cr3[p], before[p])
<1>1. /\ Image(proc[p], job[p], dir[proc[p].pgdir], cr3[p], before[p]) /\ job[p] # NoJob /\ job[p].op # "" /\ proc[p] \in ProcT
      /\ proc[p].pgdir \in Frame /\ Pgdirs[p] = proc[p].pgdir
  BY Working
<1>2. CASE job[p].op = "grow"
  <2>1. proc[p].pgdir = job[p].d
    BY <1>1, <1>2, Apart
  <2> QED BY <1>1, <1>2, <2>1, ImageGrow
<1>3. CASE job[p].op # "grow"
  <2>1. proc[p].pgdir # job[p].d
    BY <1>1, <1>3, Apart, ZenonT(40)
  <2>2. X[proc[p].pgdir] = dir[proc[p].pgdir]
    BY <1>1, <2>1
  <2> QED BY <1>1, <1>3, <2>2, ImageKept
<1> QED BY <1>2, <1>3

\* Out of memory: the call takes back what it allocated.
UndoJob(j) == [j EXCEPT !.pc = "dealloc", !.a = PGROUNDUP(j.from), !.next = "undone"]
LEMMA Undoes ==
    ASSUME NEW j \in JobT, NEW D, NEW sz, NEW k, Where(j, k, D, sz), Flow(j), j.pc \in {"page", "table"}, k \in Nat
    PROVE  /\ UndoJob(j) \in JobT /\ Stage(UndoJob(j), D, sz) /\ Flow(UndoJob(j)) /\ UndoJob(j).op = j.op /\ UndoJob(j).q = j.q
           /\ UndoJob(j).d = j.d /\ UndoJob(j).mem = j.mem /\ UndoJob(j).from = j.from /\ UndoJob(j).to = j.to
           /\ (Shrinks(UndoJob(j)) <=> Shrinks(j)) /\ Full(D)
<1> DEFINE e == UndoJob(j)
           u == PGROUNDUP(j.from)
           l == Up(j.from)
<1>1. /\ j.from \in Nat /\ j.to \in Nat /\ j.from <= j.to /\ j.to < KERNBASE /\ l <= k /\ k <= Up(j.to) /\ Below(D, k) /\ Full(D)
      /\ j.d # 0
  <2>1. j.from \in Nat /\ j.to \in Nat
    BY DEF JobT
  <2> QED BY <2>1 DEF Where
<1>2. /\ u \in Address /\ u \div PGSIZE = l /\ l \in Nat /\ u = (u \div PGSIZE) * PGSIZE
  BY <1>1, Rounded
<1>3. Up(j.to) \in Nat
  BY <1>1, UpIs
<1> HIDE DEF u, l, e
<1>4. /\ e \in JobT /\ e.pc = "dealloc" /\ e.from = j.from /\ e.op = j.op /\ e.q = j.q /\ e.d = j.d /\ e.mem = j.mem /\ e.a = u
      /\ e.to = j.to /\ e.next = "undone"
  BY <1>2 DEF JobT, Labels, Nexts, u, e, UndoJob
<1>5. Gap(D, l, l, k) /\ k \in 0 .. Up(j.to)
  BY <1>1, <1>2, <1>3 DEF Gap, Below, Page
<1>6. j.op \in {"exec", "grow"} /\ (j.op = "grow" => j.next = "grown")
  <2>1. j.op \in Ops
    BY DEF JobT
  <2>2. j.op # ""
    BY Idle DEF Flow
  <2> QED BY <2>1, <2>2 DEF Flow, Ops
<1>7. Where(e, l, D, sz)
  <2>1. l = Up(e.from)
    BY <1>4 DEF l
  <2>2. \E m \in 0 .. Up(e.to) : Gap(D, l, l, m)
    BY <1>4, <1>5
  <2>3. l <= l /\ e.to <= KERNBASE /\ e.from < KERNBASE
    BY <1>1, <1>2, <1>4
  <2> QED BY <1>1, <1>4, <2>1, <2>2, <2>3 DEF Where
<1>8. Flow(e) /\ (Shrinks(e) <=> Shrinks(j))
  BY <1>4, <1>6 DEF Flow, Shrinks
<1>9. Stage(e, D, sz)
  BY <1>2, <1>4, <1>7 DEF Stage
<1> QED BY <1>1, <1>4, <1>8, <1>9 DEF e

\* A call at the labels of the loop of allocuvm().
LEMMA InLoop ==
    ASSUME Inv, NEW p \in Pid, job[p].pc \in {"page", "table"}
    PROVE  LET j == job[p]
               k == job[p].a \div PGSIZE
           IN  /\ j \in JobT /\ j.op \in {"exec", "grow"} /\ j.d \in Frame /\ j.d # 0 /\ Dir(j.d) = dir[j.d] /\ dir[j.d] \in DirT
               /\ Where(j, k, dir[j.d], proc[p].sz) /\ Flow(j) /\ k \in Nat /\ j.a \in Nat /\ j.to \in Nat /\ j.from \in Nat
               /\ j.from <= j.to /\ j.to < KERNBASE /\ Up(j.from) <= k /\ k <= Up(j.to) /\ Below(dir[j.d], k) /\ Full(dir[j.d])
               /\ j.op = "exec" => j.next \in {"stack", "loaded"}
               /\ j.op = "grow" => j.next = "grown" /\ j.from = proc[p].sz
               /\ j.a < j.to <=> k < Up(j.to)
               /\ j.a < j.to => k \in Page /\ PDX(j.a) \in Table /\ PDX(j.a) = Row(k) /\ j.a + PGSIZE \in Address
               /\ Up(j.to) \in Nat /\ Up(j.from) \in Nat
<1> DEFINE j == job[p]
           k == job[p].a \div PGSIZE
<1>1. /\ Where(j, k, Dir(j.d), proc[p].sz) /\ Flow(j) /\ j \in JobT /\ j.op # "" /\ j.a \in Nat /\ k \in Nat /\ j.a = k * PGSIZE
  BY Here
<1>2. j.pc \in {"page", "table"} /\ j.op \in Ops /\ j.from \in Nat /\ j.to \in Nat /\ j.d \in Link
  BY <1>1 DEF JobT
<1>3. j.d \in Frame /\ j.d # 0 /\ Dir(j.d) = dir[j.d] /\ dir[j.d] \in DirT
  <2>1. j.d # 0
    BY <1>1, <1>2 DEF Where
  <2> QED BY <1>2, <2>1 DEF Inv, Types, Link, Frame, Dir
<1>4. j.a < j.to <=> k < Up(j.to)
  BY <1>1, <1>2, PageOf
<1>e. j.a < j.to /\ j.to <= KERNBASE => k \in Page /\ PDX(j.a) \in Table /\ PDX(j.a) = Row(k) /\ j.a + PGSIZE \in Address
  <2>1. j.a \in Nat /\ j.a = (j.a \div PGSIZE) * PGSIZE /\ j.to \in Nat
    BY <1>1, <1>2
  <2> QED BY <2>1, PageOf DEF Row
<1> HIDE DEF k
<1>5. j.op \in {"exec", "grow"} /\ (j.op = "exec" => j.next \in {"stack", "loaded"}) /\ (j.op = "grow" => j.next = "grown")
  BY <1>1, <1>2 DEF Flow, Ops
<1>6. /\ j.from <= j.to /\ j.to < KERNBASE /\ Up(j.from) <= k /\ k <= Up(j.to) /\ Below(dir[j.d], k) /\ Full(dir[j.d])
  BY <1>1, <1>2, <1>3 DEF Where
<1>7. j.op = "grow" => j.from = proc[p].sz
  <2> SUFFICES ASSUME j.op = "grow" PROVE j.from = proc[p].sz
    OBVIOUS
  <2>1. Image(proc[p], job[p], dir[proc[p].pgdir], cr3[p], before[p]) /\ j.next = "grown"
    BY <1>5, Working
  <2>2. ~Shrinks(j)
    BY <2>1 DEF Shrinks
  <2> QED BY <2>1, <2>2 DEF Image
<1>8. j.a < j.to => k \in Page /\ PDX(j.a) \in Table /\ PDX(j.a) = Row(k) /\ j.a + PGSIZE \in Address
  BY <1>2, <1>6, <1>e
<1>9. Up(j.to) \in Nat /\ Up(j.from) \in Nat
  BY <1>2, UpIs
<1> QED BY <1>1, <1>2, <1>3, <1>4, <1>5, <1>6, <1>7, <1>8, <1>9 DEF k

LEMMA NewPageKeeps == ASSUME Inv, NEW p \in Pid, NewPage(p) PROVE Inv'
<1> DEFINE j == job[p]
           k == j.a \div PGSIZE
           D == dir[j.d]
           f == Head(freelist)
<1>1. /\ j.pc = "page" /\ UNCHANGED <<proc, cr3, ptable, bootVars, leaked, before>>
      /\ \/ /\ ~(j.a < j.to) /\ job' = [job EXCEPT ![p] = [j EXCEPT !.pc = j.next]]
            /\ UNCHANGED <<freelist, dir, panicked>>
         \/ /\ job' = [job EXCEPT ![p] = UndoJob(j)]
            /\ UNCHANGED <<freelist, dir, panicked>>
         \/ /\ j.a < j.to /\ freelist # <<>> /\ D.tab[PDX(j.a)] # 0 /\ freelist' = Tail(freelist)
            /\ dir' = [dir EXCEPT ![j.d].pte[k] = f] /\ panicked' = (IF D.pte[k] # 0 THEN "remap" ELSE "no")
            /\ job' = [job EXCEPT ![p] = [j EXCEPT !.a = j.a + PGSIZE]]
         \/ /\ j.a < j.to /\ freelist # <<>> /\ D.tab[PDX(j.a)] = 0 /\ freelist' = Tail(freelist)
            /\ job' = [job EXCEPT ![p] = [j EXCEPT !.pc = "table", !.mem = f]] /\ UNCHANGED <<dir, panicked>>
  <2>1. At(p, "page") /\ UNCHANGED <<proc, cr3, ptable, bootVars, history>>
    BY DEF NewPage
  <2>2. j.a \in Nat /\ j.to \in Nat
    BY <2>1, InLoop DEF At
  <2>3. CASE ~(j.a < j.to)
    <3>1. j.a >= j.to
      BY <2>2, <2>3
    <3>2. Go(p, [j EXCEPT !.pc = j.next]) /\ UNCHANGED <<freelist, dir, panicked>>
      BY <2>3, <3>1 DEF NewPage
    <3> QED BY <2>1, <2>3, <3>2 DEF At, Go, history
  <2>4. CASE j.a < j.to /\ freelist = <<>>
    <3>1. ~(j.a >= j.to)
      BY <2>2, <2>4
    <3>2. Undo(p) /\ UNCHANGED <<freelist, dir, panicked>>
      BY <2>4, <3>1 DEF NewPage
    <3> QED BY <2>1, <3>2 DEF At, Go, history, Undo, UndoJob
  <2>5. CASE j.a < j.to /\ freelist # <<>> /\ D.tab[PDX(j.a)] # 0
    BY <2>1, <2>2, <2>5, SMTT(30) DEF NewPage, At, Go, history, kalloc, mappages, remap, Mapped, HasTable
  <2>6. CASE j.a < j.to /\ freelist # <<>> /\ D.tab[PDX(j.a)] = 0
    <3>1. ~(j.a >= j.to) /\ ~HasTable(j.d, j.a)
      BY <2>2, <2>6 DEF HasTable
    <3>2. /\ kalloc /\ Go(p, [j EXCEPT !.pc = "table", !.mem = f]) /\ UNCHANGED <<dir, panicked>>
      BY <2>6, <3>1, SMTT(30) DEF NewPage
    <3> QED BY <2>1, <2>6, <3>2 DEF At, Go, history, kalloc
  <2> QED BY <2>3, <2>4, <2>5, <2>6
<1>2. /\ j \in JobT /\ j.op \in {"exec", "grow"} /\ j.d \in Frame /\ j.d # 0 /\ Dir(j.d) = dir[j.d] /\ dir[j.d] \in DirT
      /\ Where(j, k, dir[j.d], proc[p].sz) /\ Flow(j) /\ k \in Nat /\ j.a \in Nat /\ j.to \in Nat /\ j.from \in Nat
      /\ j.from <= j.to /\ j.to < KERNBASE /\ Up(j.from) <= k /\ k <= Up(j.to) /\ Below(dir[j.d], k) /\ Full(dir[j.d])
      /\ j.op = "exec" => j.next \in {"stack", "loaded"}
      /\ j.op = "grow" => j.next = "grown" /\ j.from = proc[p].sz
      /\ j.a < j.to <=> k < Up(j.to)
      /\ j.a < j.to => k \in Page /\ PDX(j.a) \in Table /\ PDX(j.a) = Row(k) /\ j.a + PGSIZE \in Address
      /\ Up(j.to) \in Nat /\ Up(j.from) \in Nat
  BY <1>1, InLoop
<1>3. j.mem = 0 /\ j.pc # "user"
  BY <1>1, <1>2 DEF Where
<1>4. j.a = k * PGSIZE /\ panicked = "no"
  BY <1>3, Here
<1>5. CASE /\ ~(j.a < j.to) /\ job' = [job EXCEPT ![p] = [j EXCEPT !.pc = j.next]]
           /\ UNCHANGED <<freelist, dir, panicked>>
  <2> DEFINE e == [j EXCEPT !.pc = j.next]
  <2>1. /\ e \in JobT /\ e.pc = j.next /\ e.next = j.next /\ e.op = j.op /\ e.q = j.q /\ e.d = j.d /\ e.mem = j.mem /\ e.a = j.a
        /\ e.from = j.from /\ e.to = j.to /\ e.segs = j.segs
    BY <1>2 DEF JobT, Labels
  <2>2. k = Up(j.to)
    BY <1>2, <1>5
  <2>3. Below(D, Up(j.to))
    BY <1>2, <2>2
  <2> HIDE DEF e, k
  <2>4. Where(e, k, D, proc[p].sz)
    BY <1>2, <1>3, <2>1, <2>3 DEF Where
  <2>5. Flow(e) /\ (Shrinks(e) <=> Shrinks(j))
    BY <1>1, <1>2, <2>1 DEF Flow, Shrinks
  <2>6. Stage(e, Dir(e.d), proc[p].sz)
    BY <1>2, <1>4, <2>1, <2>4 DEF Stage, k
  <2>7. UNCHANGED <<freelist, leaked, dir, proc, cr3, ptable, bootVars, before, panicked>> /\ job' = [job EXCEPT ![p] = e]
    BY <1>1, <1>5 DEF e
  <2>8. Full(Dir(e.d))
    BY <1>2, <2>1
  <2> QED BY <1>3, <2>1, <2>5, <2>6, <2>7, <2>8, Quiet
<1>6. CASE /\ job' = [job EXCEPT ![p] = UndoJob(j)]
           /\ UNCHANGED <<freelist, dir, panicked>>
  <2> DEFINE e == UndoJob(j)
             sz == proc[p].sz
  <2>0. /\ j \in JobT /\ Where(j, k, D, sz) /\ Flow(j) /\ j.pc \in {"page", "table"} /\ k \in Nat
    BY <1>1, <1>2
  <2> HIDE DEF k, j, D, sz
  <2>1. /\ e \in JobT /\ Stage(e, D, sz) /\ Flow(e) /\ e.op = j.op /\ e.q = j.q /\ e.d = j.d /\ e.mem = j.mem
        /\ e.from = j.from /\ e.to = j.to /\ (Shrinks(e) <=> Shrinks(j)) /\ Full(D)
    BY <2>0, Undoes
  <2>2. UNCHANGED <<freelist, leaked, dir, proc, cr3, ptable, bootVars, before, panicked>> /\ job' = [job EXCEPT ![p] = e]
    BY <1>1, <1>6
  <2> HIDE DEF e
  <2>3. Stage(e, Dir(e.d), proc[p].sz) /\ Full(Dir(e.d))
    BY <1>2, <2>1 DEF sz, D, j
  <2> QED BY <1>3, <2>1, <2>2, <2>3, Quiet DEF j
<1>7. CASE /\ j.a < j.to /\ freelist # <<>> /\ D.tab[PDX(j.a)] # 0 /\ freelist' = Tail(freelist)
           /\ dir' = [dir EXCEPT ![j.d].pte[k] = f] /\ panicked' = (IF D.pte[k] # 0 THEN "remap" ELSE "no")
           /\ job' = [job EXCEPT ![p] = [j EXCEPT !.a = j.a + PGSIZE]]
  <2> DEFINE e == [j EXCEPT !.a = j.a + PGSIZE]
             X == [dir EXCEPT ![j.d].pte[k] = f]
  <2>1. /\ e \in JobT /\ e.pc = "page" /\ e.next = j.next /\ e.op = j.op /\ e.q = j.q /\ e.d = j.d /\ e.mem = j.mem
        /\ e.a = j.a + PGSIZE /\ e.from = j.from /\ e.to = j.to /\ e.segs = j.segs
    BY <1>1, <1>2, <1>7 DEF JobT
  <2>2. k \in Page /\ k < Up(j.to) /\ PDX(j.a) = Row(k) /\ dir \in [Frame -> DirT] /\ freelist \in Seq(Frame) /\ leaked \subseteq Frame
    BY <1>2, <1>7 DEF Inv, Types
  <2>3. f \in Frame /\ f \in Link /\ Tail(freelist) \in Seq(Frame)
    <3>1. f \in Frame /\ Tail(freelist) \in Seq(Frame)
      BY <1>7, <2>2
    <3> QED BY <3>1 DEF Link, Frame
  <2>4. (j.a + PGSIZE) = ((j.a + PGSIZE) \div PGSIZE) * PGSIZE /\ (j.a + PGSIZE) \div PGSIZE = k + 1
    BY <1>2, <1>4, NextPage
  <2> HIDE DEF e, k, f
  <2>5. Below(D, k) /\ Full(D) /\ Tabled(D) /\ D.tab[Row(k)] # 0 /\ j.d \in Frame
    BY <1>2, <1>7, <2>2 DEF Inv
  <2>7. MapsPage(dir, X, j.d, k, f)
    BY <2>2, <2>3, <2>5, SetPage
  <2> HIDE DEF X, j
  <2>a. X \in [Frame -> DirT] /\ Below(X[j.d], k + 1) /\ D.pte[k] = 0 /\ Full(X[j.d]) /\ Tabled(X[j.d])
    BY <2>2, <2>3, <2>5, <2>7, MapMore
  <2>b. /\ \A c \in Frame : c # j.d => X[c] = dir[c]
        /\ \A g \in Page : g # k => X[j.d].pte[g] = D.pte[g]
    <3>1. D.pte \in [Page -> Link]
      BY <1>2 DEF DirT
    <3> QED BY <2>7, <3>1 DEF MapsPage
  <2>6. /\ X \in [Frame -> DirT] /\ Below(X[j.d], k + 1) /\ D.pte[k] = 0 /\ Full(X[j.d]) /\ Tabled(X[j.d])
        /\ \A c \in Frame : c # j.d => X[c] = dir[c]
        /\ \A g \in Page : g # k => X[j.d].pte[g] = D.pte[g]
    BY <2>a, <2>b
  <2> USE DEF j
  <2>8. Where(e, k + 1, X[j.d], proc[p].sz)
    BY <1>2, <1>3, <2>1, <2>2, <2>6, SMTT(30) DEF Where
  <2>9. Flow(e) /\ (Shrinks(e) <=> Shrinks(j))
    BY <1>1, <1>2, <2>1 DEF Flow, Shrinks
  <2>10. Stage(e, X[j.d], proc[p].sz)
    BY <2>1, <2>4, <2>8 DEF Stage
  <2>11. OwnsNow(Tail(freelist), cpus, leaked, Unfreed, Kstacks, Pgdirs, Taken, Hands, X)
    <3>1. D.pte[k] = 0 /\ freelist # <<>>
      BY <1>7, <2>6
    <3>2. \E x \in Pid : Taken[x] = j.d \/ Pgdirs[x] = j.d
      BY <1>2, <1>3, Apart
    <3> QED BY <1>2, <2>2, <3>1, <3>2, Holding, TakePage DEF X, f
  <2>12. Image(proc[p], e, X[proc[p].pgdir], cr3[p], before[p])
    <3>1. /\ e.op = "grow" => e.d = j.d /\ e.from = j.from /\ e.to = j.to /\ (Shrinks(e) <=> Shrinks(j)) /\ Full(X[j.d])
          /\ e.op = "grow" /\ ~Shrinks(e) => \A g \in Page : g < Up(proc[p].sz) => X[j.d].pte[g] = D.pte[g]
      <4>1. e.op = "grow" => ~(k < Up(proc[p].sz))
        BY <1>2, <2>1
      <4> QED BY <2>1, <2>6, <2>9, <4>1
    <3> QED BY <1>2, <1>3, <2>1, <2>6, <3>1, ImageMapped
  <2>13. /\ [Taken EXCEPT ![p] = IF e.op = "grow" THEN 0 ELSE e.d] = Taken /\ [Hands EXCEPT ![p] = e.mem] = Hands
    BY <2>1, HoldersStay, SMTT(30) DEF Inv
  <2>14. /\ dir' = X /\ job' = [job EXCEPT ![p] = e] /\ freelist' = Tail(freelist) /\ leaked' = leaked /\ panicked' = "no"
         /\ UNCHANGED <<proc, cr3, ptable, bootVars, before>>
    BY <1>1, <1>7, <2>6 DEF X, e
  <2>15. Stage(e, IF e.d = 0 THEN NoDir ELSE dir'[e.d], proc[p].sz)
    BY <1>2, <2>1, <2>10, <2>14
  <2> QED BY <1>2, <1>3, <2>1, <2>2, <2>3, <2>6, <2>9, <2>11, <2>12, <2>13, <2>14, <2>15, Inside
<1>8. CASE /\ j.a < j.to /\ freelist # <<>> /\ D.tab[PDX(j.a)] = 0 /\ freelist' = Tail(freelist)
           /\ job' = [job EXCEPT ![p] = [j EXCEPT !.pc = "table", !.mem = f]] /\ UNCHANGED <<dir, panicked>>
  <2> DEFINE e == [j EXCEPT !.pc = "table", !.mem = f]
  <2>1. f \in Frame /\ f \in Link /\ f # 0 /\ Tail(freelist) \in Seq(Frame) /\ leaked \subseteq Frame /\ dir \in [Frame -> DirT]
    <3>1. freelist \in Seq(Frame) /\ leaked \subseteq Frame /\ dir \in [Frame -> DirT]
      BY DEF Inv, Types
    <3>2. f \in Frame /\ Tail(freelist) \in Seq(Frame)
      BY <1>8, <3>1, SMTT(30)
    <3> QED BY <3>1, <3>2 DEF Link, Frame
  <2> HIDE DEF f
  <2>2. /\ e \in JobT /\ e.pc = "table" /\ e.next = j.next /\ e.op = j.op /\ e.q = j.q /\ e.d = j.d /\ e.mem = f
        /\ e.a = j.a /\ e.from = j.from /\ e.to = j.to /\ e.segs = j.segs
    BY <1>1, <1>2, <2>1 DEF JobT, Labels
  <2> HIDE DEF e, k
  <2>3. D.tab[Row(k)] = 0 /\ k < Up(j.to)
    BY <1>2, <1>8
  <2>4. Where(e, k, D, proc[p].sz)
    BY <1>2, <2>1, <2>2, <2>3 DEF Where
  <2>5. Flow(e) /\ (Shrinks(e) <=> Shrinks(j))
    BY <1>1, <1>2, <2>2 DEF Flow, Shrinks
  <2>6. Stage(e, D, proc[p].sz)
    BY <1>4, <2>2, <2>4 DEF Stage, k
  <2>7. OwnsNow(Tail(freelist), cpus, leaked, Unfreed, Kstacks, Pgdirs, Taken, [Hands EXCEPT ![p] = f], dir)
    <3>1. Hands[p] = 0 /\ freelist # <<>>
      BY <1>3, <1>8 DEF Hands
    <3> QED BY <3>1, Holding, TakeHand DEF f
  <2>8. Image(proc[p], e, dir[proc[p].pgdir], cr3[p], before[p])
    BY <1>2, <1>3, <2>2, <2>5, ImageMapped
  <2>9. [Taken EXCEPT ![p] = IF e.op = "grow" THEN 0 ELSE e.d] = Taken
    BY <2>2, HoldersStay DEF Inv
  <2>10. /\ dir' = dir /\ job' = [job EXCEPT ![p] = e] /\ freelist' = Tail(freelist) /\ leaked' = leaked /\ panicked' = "no"
         /\ UNCHANGED <<proc, cr3, ptable, bootVars, before>>
    BY <1>1, <1>4, <1>8 DEF e
  <2>11. Stage(e, IF e.d = 0 THEN NoDir ELSE dir'[e.d], proc[p].sz) /\ Tabled(dir'[j.d])
    BY <1>2, <2>2, <2>6, <2>10 DEF Inv
  <2> QED BY <1>2, <1>3, <2>1, <2>2, <2>5, <2>7, <2>8, <2>9, <2>10, <2>11, Inside, ZenonT(40)
<1> QED BY <1>1, <1>5, <1>6, <1>7, <1>8, SMTT(30)

\* A page is mapped into a table that is new.
MapsTable(D, X, d, t, f, g, m) == /\ X \in [Frame -> DirT] /\ X[d].kern = D[d].kern /\ X[d].tab = [D[d].tab EXCEPT ![t] = f]
                                  /\ X[d].pte = [D[d].pte EXCEPT ![g] = m] /\ \A c \in Frame : c # d => X[c] = D[c]
LEMMA SetTable ==
    ASSUME NEW D \in [Frame -> DirT], NEW d \in Frame, NEW t \in Table, NEW f \in Link, NEW g \in Page, NEW m \in Link
    PROVE  MapsTable(D, [D EXCEPT ![d].tab[t] = f, ![d].pte[g] = m], d, t, f, g, m)
BY DEF DirT, MapsTable

LEMMA TableMore ==
    ASSUME NEW D \in [Frame -> DirT], NEW d \in Frame, NEW k \in Page, NEW f \in Frame, NEW m \in Frame, Row(k) \in Table,
           Below(D[d], k), Full(D[d]), Tabled(D[d]), NEW X, MapsTable(D, X, d, Row(k), f, k, m)
    PROVE  X \in [Frame -> DirT] /\ Below(X[d], k + 1) /\ D[d].pte[k] = 0 /\ Full(X[d]) /\ Tabled(X[d])
<1> DEFINE P == D[d]
           Q == X[d]
<1>1. /\ P.pte \in [Page -> Link] /\ P.tab \in [Table -> Link] /\ Below(P, k) /\ Q.pte = [P.pte EXCEPT ![k] = m] /\ Tabled(P)
      /\ Q.tab = [P.tab EXCEPT ![Row(k)] = f] /\ f # 0
  BY DEF DirT, MapsTable, Frame
<1> HIDE DEF P, Q
<1>2. Below(Q, k + 1) /\ P.pte[k] = 0
  BY <1>1, BelowMore
<1>3. Tabled(Q)
  <2>1. \A g \in Page : g \div NPTENTRIES \in Table
    BY Space
  <2>2. \A g \in Page : Row(g) \in Table
    BY <2>1 DEF Row
  <2> SUFFICES ASSUME NEW g \in Page, Q.pte[g] # 0 PROVE Q.tab[Row(g)] # 0
    BY DEF Tabled
  <2>3. CASE Row(g) = Row(k)
    BY <1>1, <2>3
  <2>4. CASE Row(g) # Row(k)
    <3>1. Q.tab[Row(g)] = P.tab[Row(g)] /\ Q.pte[g] = P.pte[g]
      BY <1>1, <2>2, <2>4
    <3> QED BY <1>1, <3>1 DEF Tabled
  <2> QED BY <2>3, <2>4
<1>4. Full(Q)
  BY DEF Full, MapsTable, P, Q
<1> QED BY <1>2, <1>3, <1>4 DEF P, Q, MapsTable

LEMMA TakeTable ==
    ASSUME NEW F, NEW C, NEW L, NEW N, NEW ks, NEW pd, NEW nd, NEW hd, NEW D, Typed(F, C, L, ks, pd, nd, hd, D),
           OwnsNow(F, C, L, N, ks, pd, nd, hd, D), F # <<>>, NEW d \in Frame, \E q \in Pid : nd[q] = d \/ pd[q] = d,
           NEW t \in Table, D[d].tab[t] = 0, NEW g \in Page, D[d].pte[g] = 0, NEW p \in Pid, hd[p] # 0
    PROVE  OwnsNow(Tail(F), C, L, N, ks, pd, nd, [hd EXCEPT ![p] = 0], [D EXCEPT ![d].tab[t] = Head(F), ![d].pte[g] = hd[p]])
<1> DEFINE E == [D EXCEPT ![d].tab[t] = Head(F)]
<1>1. OwnsNow(Tail(F), C, L, N, ks, pd, nd, hd, E)
  BY TakeTab
<1>2. Head(F) \in Link /\ Tail(F) \in Seq(Frame) /\ D \in [Frame -> DirT]
  <2>1. F \in Seq(Frame) /\ F # <<>> /\ D \in [Frame -> DirT]
    BY DEF Typed
  <2>2. Head(F) \in Frame /\ Tail(F) \in Seq(Frame)
    BY <2>1
  <2> QED BY <2>1, <2>2 DEF Frame, Link
<1>3. E \in [Frame -> DirT] /\ E[d].pte = D[d].pte
  BY <1>2 DEF DirT
<1>4. Typed(Tail(F), C, L, ks, pd, nd, hd, E)
  BY <1>2, <1>3 DEF Typed
<1>5. [E EXCEPT ![d].pte[g] = hd[p]] = [D EXCEPT ![d].tab[t] = Head(F), ![d].pte[g] = hd[p]]
  OBVIOUS
<1> HIDE DEF E
<1>6. E[d].pte[g] = 0
  BY <1>3
<1>7. OwnsNow(Tail(F), C, L, N, ks, pd, nd, [hd EXCEPT ![p] = 0], [E EXCEPT ![d].pte[g] = hd[p]])
  BY <1>1, <1>4, <1>6, HandToPage
<1> QED BY <1>5, <1>7

LEMMA NewTableKeeps == ASSUME Inv, NEW p \in Pid, NewTable(p) PROVE Inv'
<1> DEFINE j == job[p]
           k == j.a \div PGSIZE
           D == dir[j.d]
           f == Head(freelist)
<1>1. /\ j.pc = "table" /\ UNCHANGED <<proc, cr3, ptable, bootVars, leaked, before, panicked>>
      /\ \/ job' = [job EXCEPT ![p] = UndoJob(j)] /\ UNCHANGED <<freelist, dir>>
         \/ /\ freelist # <<>> /\ freelist' = Tail(freelist)
            /\ dir' = [dir EXCEPT ![j.d].tab[PDX(j.a)] = f, ![j.d].pte[k] = j.mem]
            /\ job' = [job EXCEPT ![p] = [j EXCEPT !.pc = "page", !.a = j.a + PGSIZE, !.mem = 0]]
  BY DEF NewTable, At, Go, history, kalloc, Undo, UndoJob
<1>2. /\ j \in JobT /\ j.op \in {"exec", "grow"} /\ j.d \in Frame /\ j.d # 0 /\ Dir(j.d) = dir[j.d] /\ dir[j.d] \in DirT
      /\ Where(j, k, dir[j.d], proc[p].sz) /\ Flow(j) /\ k \in Nat /\ j.a \in Nat /\ j.to \in Nat /\ j.from \in Nat
      /\ j.from <= j.to /\ j.to < KERNBASE /\ Up(j.from) <= k /\ k <= Up(j.to) /\ Below(dir[j.d], k) /\ Full(dir[j.d])
      /\ j.op = "exec" => j.next \in {"stack", "loaded"}
      /\ j.op = "grow" => j.next = "grown" /\ j.from = proc[p].sz
      /\ j.a < j.to <=> k < Up(j.to)
      /\ j.a < j.to => k \in Page /\ PDX(j.a) \in Table /\ PDX(j.a) = Row(k) /\ j.a + PGSIZE \in Address
      /\ Up(j.to) \in Nat /\ Up(j.from) \in Nat
  BY <1>1, InLoop
<1>3. j.mem # 0 /\ D.tab[Row(k)] = 0 /\ k < Up(j.to) /\ j.pc # "user"
  BY <1>1, <1>2 DEF Where
<1>4. j.a = k * PGSIZE /\ panicked = "no"
  BY <1>3, Here
<1>5. CASE job' = [job EXCEPT ![p] = UndoJob(j)] /\ UNCHANGED <<freelist, dir>>
  <2> DEFINE e == UndoJob(j)
             sz == proc[p].sz
  <2>0. /\ j \in JobT /\ Where(j, k, D, sz) /\ Flow(j) /\ j.pc \in {"page", "table"} /\ k \in Nat
    BY <1>1, <1>2
  <2> HIDE DEF k, j, D, sz
  <2>1. /\ e \in JobT /\ Stage(e, D, sz) /\ Flow(e) /\ e.op = j.op /\ e.q = j.q /\ e.d = j.d /\ e.mem = j.mem
        /\ e.from = j.from /\ e.to = j.to /\ (Shrinks(e) <=> Shrinks(j)) /\ Full(D)
    BY <2>0, Undoes
  <2>2. UNCHANGED <<freelist, leaked, dir, proc, cr3, ptable, bootVars, before, panicked>> /\ job' = [job EXCEPT ![p] = e]
    BY <1>1, <1>5, SMTT(30)
  <2> HIDE DEF e
  <2>3. Stage(e, Dir(e.d), proc[p].sz) /\ Full(Dir(e.d))
    BY <1>2, <2>1 DEF sz, D, j
  <2> QED BY <1>3, <2>1, <2>2, <2>3, Quiet DEF j
<1>6. CASE /\ freelist # <<>> /\ freelist' = Tail(freelist)
           /\ dir' = [dir EXCEPT ![j.d].tab[PDX(j.a)] = f, ![j.d].pte[k] = j.mem]
           /\ job' = [job EXCEPT ![p] = [j EXCEPT !.pc = "page", !.a = j.a + PGSIZE, !.mem = 0]]
  <2> DEFINE e == [j EXCEPT !.pc = "page", !.a = j.a + PGSIZE, !.mem = 0]
             X == [dir EXCEPT ![j.d].tab[PDX(j.a)] = f, ![j.d].pte[k] = j.mem]
  <2>1. /\ e \in JobT /\ e.pc = "page" /\ e.next = j.next /\ e.op = j.op /\ e.q = j.q /\ e.d = j.d /\ e.mem = 0
        /\ e.a = j.a + PGSIZE /\ e.from = j.from /\ e.to = j.to /\ e.segs = j.segs
    <3>1. j.a + PGSIZE \in Address /\ 0 \in Link
      BY <1>2, <1>3 DEF Link
    <3> QED BY <1>1, <1>2, <3>1 DEF JobT, Labels
  <2>2. /\ k \in Page /\ k < Up(j.to) /\ PDX(j.a) = Row(k) /\ Row(k) \in Table /\ dir \in [Frame -> DirT] /\ freelist \in Seq(Frame)
        /\ leaked \subseteq Frame
    BY <1>2, <1>3 DEF Inv, Types
  <2>3. f \in Frame /\ f \in Link /\ Tail(freelist) \in Seq(Frame) /\ j.mem \in Frame /\ j.mem \in Link
    <3>1. f \in Frame /\ Tail(freelist) \in Seq(Frame)
      BY <1>6, <2>2
    <3>2. j.mem \in Link
      BY <1>2 DEF JobT
    <3> QED BY <1>3, <3>1, <3>2 DEF Link, Frame
  <2>4. (j.a + PGSIZE) = ((j.a + PGSIZE) \div PGSIZE) * PGSIZE /\ (j.a + PGSIZE) \div PGSIZE = k + 1
    BY <1>2, <1>4, NextPage
  <2> HIDE DEF e, k, f
  <2>5. Below(D, k) /\ Full(D) /\ Tabled(D) /\ j.d \in Frame
    BY <1>2, <2>2 DEF Inv
  <2>7. MapsTable(dir, X, j.d, PDX(j.a), f, k, j.mem)
    BY <2>2, <2>3, <2>5, SetTable, ZenonT(40)
  <2>c. PDX(j.a) = Row(k) /\ MapsTable(dir, X, j.d, Row(k), f, k, j.mem)
    BY <2>2, <2>7
  <2> HIDE DEF X, j
  <2>a. X \in [Frame -> DirT] /\ Below(X[j.d], k + 1) /\ D.pte[k] = 0 /\ Full(X[j.d]) /\ Tabled(X[j.d])
    BY <2>2, <2>3, <2>5, <2>c, TableMore
  <2>b. /\ \A c \in Frame : c # j.d => X[c] = dir[c]
        /\ \A g \in Page : g # k => X[j.d].pte[g] = D.pte[g]
    <3>1. D.pte \in [Page -> Link]
      BY <1>2 DEF DirT
    <3> QED BY <2>7, <3>1 DEF MapsTable
  <2>6. /\ X \in [Frame -> DirT] /\ Below(X[j.d], k + 1) /\ D.pte[k] = 0 /\ Full(X[j.d]) /\ Tabled(X[j.d])
        /\ \A c \in Frame : c # j.d => X[c] = dir[c]
        /\ \A g \in Page : g # k => X[j.d].pte[g] = D.pte[g]
    BY <2>a, <2>b
  <2> USE DEF j
  <2>8. Where(e, k + 1, X[j.d], proc[p].sz)
    BY <1>2, <1>3, <2>1, <2>2, <2>6, SMTT(30) DEF Where
  <2>9. Flow(e) /\ (Shrinks(e) <=> Shrinks(j))
    BY <1>1, <1>2, <2>1 DEF Flow, Shrinks
  <2>10. Stage(e, X[j.d], proc[p].sz)
    BY <2>1, <2>4, <2>8 DEF Stage
  <2>11. OwnsNow(Tail(freelist), cpus, leaked, Unfreed, Kstacks, Pgdirs, Taken, [Hands EXCEPT ![p] = 0], X)
    <3>1. D.pte[k] = 0 /\ freelist # <<>> /\ D.tab[PDX(j.a)] = 0 /\ PDX(j.a) \in Table /\ Hands[p] = j.mem /\ Hands[p] # 0
      BY <1>3, <1>6, <2>2, <2>6 DEF Hands
    <3>2. \E x \in Pid : Taken[x] = j.d \/ Pgdirs[x] = j.d
      BY <1>2, <1>3, Apart
    <3>3. X = [dir EXCEPT ![j.d].tab[PDX(j.a)] = Head(freelist), ![j.d].pte[k] = Hands[p]]
      BY <3>1 DEF X, f
    <3> HIDE DEF j
    <3> DEFINE d == j.d
               t == PDX(j.a)
    <3>4. /\ dir[d].pte[k] = 0 /\ freelist # <<>> /\ dir[d].tab[t] = 0 /\ t \in Table /\ Hands[p] # 0 /\ d \in Frame
          /\ \E x \in Pid : Taken[x] = d \/ Pgdirs[x] = d
      BY <2>5, <3>1, <3>2
    <3>5. X = [dir EXCEPT ![d].tab[t] = Head(freelist), ![d].pte[k] = Hands[p]]
      BY <3>3
    <3> HIDE DEF d, t
    <3>6. OwnsNow(Tail(freelist), cpus, leaked, Unfreed, Kstacks, Pgdirs, Taken, [Hands EXCEPT ![p] = 0],
                  [dir EXCEPT ![d].tab[t] = Head(freelist), ![d].pte[k] = Hands[p]])
      BY <2>2, <3>4, Holding, TakeTable
    <3> QED BY <3>5, <3>6
  <2>12. Image(proc[p], e, X[proc[p].pgdir], cr3[p], before[p])
    <3>1. /\ e.op = "grow" => e.d = j.d /\ e.from = j.from /\ e.to = j.to /\ (Shrinks(e) <=> Shrinks(j)) /\ Full(X[j.d])
          /\ e.op = "grow" /\ ~Shrinks(e) => \A g \in Page : g < Up(proc[p].sz) => X[j.d].pte[g] = D.pte[g]
      <4>1. e.op = "grow" => ~(k < Up(proc[p].sz))
        BY <1>2, <2>1
      <4> QED BY <2>1, <2>6, <2>9, <4>1
    <3> QED BY <1>2, <1>3, <2>1, <2>6, <3>1, ImageMapped
  <2>13. [Taken EXCEPT ![p] = IF e.op = "grow" THEN 0 ELSE e.d] = Taken
    BY <2>1, HoldersStay DEF Inv
  <2>14. /\ dir' = X /\ job' = [job EXCEPT ![p] = e] /\ freelist' = Tail(freelist) /\ leaked' = leaked /\ panicked' = "no"
         /\ UNCHANGED <<proc, cr3, ptable, bootVars, before>>
    BY <1>1, <1>4, <1>6 DEF X, e
  <2>15. Stage(e, IF e.d = 0 THEN NoDir ELSE dir'[e.d], proc[p].sz)
    BY <1>2, <2>1, <2>10, <2>14
  <2> QED BY <1>2, <1>3, <2>1, <2>2, <2>3, <2>6, <2>9, <2>11, <2>12, <2>13, <2>14, <2>15, Inside
<1> QED BY <1>1, <1>5, <1>6

\* A call at the labels of the loop of copyuvm().
LEMMA InCopy ==
    ASSUME Inv, NEW p \in Pid, job[p].pc \in {"copy", "copy_table"}
    PROVE  LET j == job[p]
               k == job[p].a \div PGSIZE
               sz == proc[p].sz
           IN  /\ j \in JobT /\ j.op = "fork" /\ j.d \in Frame /\ j.d # 0 /\ Dir(j.d) = dir[j.d] /\ dir[j.d] \in DirT
               /\ Where(j, k, dir[j.d], sz) /\ k \in Nat /\ j.a \in Nat /\ j.a = k * PGSIZE /\ sz \in 0 .. KERNBASE /\ sz \in Nat
               /\ k <= Up(sz) /\ Below(dir[j.d], k) /\ Full(dir[j.d]) /\ Up(sz) \in 0 .. NPAGE /\ k \in 0 .. NPAGE
               /\ j.a < sz <=> k < Up(sz)
               /\ j.a < sz => k \in Page /\ PDX(j.a) \in Table /\ PDX(j.a) = Row(k) /\ j.a + PGSIZE \in Address
               /\ Below(dir[proc[p].pgdir], Up(sz))
<1> DEFINE j == job[p]
           k == job[p].a \div PGSIZE
           sz == proc[p].sz
<1>1. /\ Where(j, k, Dir(j.d), sz) /\ Flow(j) /\ j \in JobT /\ j.op # "" /\ j.a \in Nat /\ k \in Nat /\ j.a = k * PGSIZE
      /\ sz \in 0 .. KERNBASE
  BY Here
<1>n. sz \in 0 .. KERNBASE /\ k \in Nat
  BY <1>1
<1> HIDE DEF k, sz
<1>2. j.pc \in {"copy", "copy_table"} /\ j.op \in Ops /\ j.d \in Link /\ sz \in Nat
  <2>1. j.op \in Ops /\ j.d \in Link
    BY <1>1 DEF JobT
  <2> QED BY <1>n, <2>1
<1> USE DEF k, sz
<1>3. j.d \in Frame /\ j.d # 0 /\ Dir(j.d) = dir[j.d] /\ dir[j.d] \in DirT
  <2>1. j.d # 0
    BY <1>1, <1>2 DEF Where
  <2> QED BY <1>2, <2>1 DEF Inv, Types, Link, Frame, Dir
<1>4. j.a < sz <=> k < Up(sz)
  BY <1>1, <1>2, PageOf
<1>5. j.a < sz => k \in Page /\ PDX(j.a) \in Table /\ PDX(j.a) = Row(k) /\ j.a + PGSIZE \in Address
  <2>a. sz \in Nat /\ sz <= KERNBASE
    <3> HIDE DEF sz, k
    <3> QED BY <1>n
  <2>1. j.a \in Nat /\ j.a = (j.a \div PGSIZE) * PGSIZE /\ sz \in Nat /\ sz <= KERNBASE
    BY <1>1, <2>a
  <2> QED BY <2>1, PageOf DEF Row
<1> HIDE DEF k, sz
<1>6. j.op = "fork"
  BY <1>1, <1>2 DEF Flow, Ops
<1>7. k <= Up(sz) /\ Below(dir[j.d], k) /\ Full(dir[j.d])
  BY <1>1, <1>2, <1>3 DEF Where
<1>8. Up(sz) \in 0 .. NPAGE
  <2>1. sz \in Nat /\ sz <= KERNBASE
    BY <1>n
  <2> QED BY <2>1, UpPage
<1>9. Below(dir[proc[p].pgdir], Up(sz))
  <2>1. Image(proc[p], job[p], dir[proc[p].pgdir], cr3[p], before[p])
    BY <1>2, Working
  <2> QED BY <1>6, <2>1 DEF Image, sz
<1>10. k \in 0 .. NPAGE
  <2>1. NPAGE \in Nat
    BY Space
  <2>2. k <= Up(sz)
    BY <1>7
  <2> QED BY <1>n, <1>8, <2>1, <2>2
<1> QED BY <1>1, <1>2, <1>3, <1>4, <1>5, <1>6, <1>7, <1>8, <1>9, <1>10 DEF k, sz

\* The process that fork() copies keeps its image.
LEMMA ImageFork ==
    ASSUME Inv, NEW p \in Pid, job[p].op = "fork", job[p].d # 0, job[p].pc # "user", NEW j, j.op = "fork", NEW X,
           \A c \in Frame : c # job[p].d => X[c] = dir[c]
    PROVE  Image(proc[p], j, X[proc[p].pgdir], cr3[p], before[p])
BY ImageMapped

LEMMA CopyKeeps == ASSUME Inv, NEW p \in Pid, Copy(p) PROVE Inv'
<1> DEFINE j == job[p]
           k == j.a \div PGSIZE
           D == dir[j.d]
           f == Head(freelist)
           sz == proc[p].sz
<1>0. j.pc = "copy" /\ UNCHANGED <<proc, cr3, ptable, bootVars, leaked, before>>
  BY DEF Copy, At, history
<1>2. /\ j \in JobT /\ j.op = "fork" /\ j.d \in Frame /\ j.d # 0 /\ Dir(j.d) = dir[j.d] /\ dir[j.d] \in DirT
      /\ Where(j, k, dir[j.d], sz) /\ k \in Nat /\ j.a \in Nat /\ j.a = k * PGSIZE /\ sz \in 0 .. KERNBASE /\ sz \in Nat
      /\ k <= Up(sz) /\ Below(dir[j.d], k) /\ Full(dir[j.d]) /\ Up(sz) \in 0 .. NPAGE /\ k \in 0 .. NPAGE
      /\ j.a < sz <=> k < Up(sz)
      /\ j.a < sz => k \in Page /\ PDX(j.a) \in Table /\ PDX(j.a) = Row(k) /\ j.a + PGSIZE \in Address
      /\ Below(dir[proc[p].pgdir], Up(sz))
  BY <1>0, InCopy
<1>3. j.mem = 0 /\ j.pc # "user"
  BY <1>0, <1>2 DEF Where
<1>4. panicked = "no"
  BY <1>3, Here
<1>1. \/ /\ ~(j.a < sz) /\ job' = [job EXCEPT ![p] = [j EXCEPT !.pc = "born"]]
         /\ UNCHANGED <<freelist, dir, panicked>>
      \/ /\ job' = [job EXCEPT ![p] = Bad(j)]
         /\ UNCHANGED <<freelist, dir, panicked>>
      \/ /\ j.a < sz /\ freelist # <<>> /\ D.tab[PDX(j.a)] # 0 /\ freelist' = Tail(freelist)
         /\ dir' = [dir EXCEPT ![j.d].pte[k] = f] /\ panicked' = panicked
         /\ job' = [job EXCEPT ![p] = [j EXCEPT !.a = j.a + PGSIZE]]
      \/ /\ j.a < sz /\ freelist # <<>> /\ D.tab[PDX(j.a)] = 0 /\ freelist' = Tail(freelist)
         /\ job' = [job EXCEPT ![p] = [j EXCEPT !.pc = "copy_table", !.mem = f]] /\ UNCHANGED <<dir, panicked>>
  <2>1. j.a < sz => dir[proc[p].pgdir].pte[k] # 0
    BY <1>2 DEF Below
  <2>2. j.a \in Nat /\ sz \in Nat
    BY <1>2
  <2>3. CASE ~(j.a < sz)
    BY <2>2, <2>1, <2>3, SMTT(30) DEF Copy, At, Go
  <2>4. CASE j.a < sz /\ freelist = <<>>
    BY <2>2, <2>1, <2>4 DEF Copy, At, Go
  <2>c. j.a < sz /\ freelist # <<>> =>
           /\ kalloc /\ UNCHANGED panicked
           /\ IF HasTable(j.d, j.a) THEN mappages(j.d, j.a, f) /\ Go(p, [j EXCEPT !.a = j.a + PGSIZE])
              ELSE Go(p, [j EXCEPT !.pc = "copy_table", !.mem = f]) /\ UNCHANGED dir
    BY <2>1, <2>2, SMTT(30) DEF Copy
  <2>5. CASE j.a < sz /\ freelist # <<>> /\ D.tab[PDX(j.a)] # 0
    BY <2>c, <2>5 DEF Go, kalloc, mappages, HasTable
  <2>6. CASE j.a < sz /\ freelist # <<>> /\ D.tab[PDX(j.a)] = 0
    BY <2>c, <2>6 DEF Go, kalloc, HasTable
  <2> QED BY <2>3, <2>4, <2>5, <2>6
<1>5. CASE /\ ~(j.a < sz) /\ job' = [job EXCEPT ![p] = [j EXCEPT !.pc = "born"]]
           /\ UNCHANGED <<freelist, dir, panicked>>
  <2> DEFINE e == [j EXCEPT !.pc = "born"]
  <2>1. /\ e \in JobT /\ e.pc = "born" /\ e.op = "fork" /\ e.q = j.q /\ e.d = j.d /\ e.mem = j.mem /\ e.a = j.a
        /\ e.from = j.from /\ e.to = j.to
    BY <1>2 DEF JobT, Labels
  <2>2. k = Up(sz)
    BY <1>2, <1>5
  <2>3. Below(D, Up(sz))
    BY <1>2, <2>2
  <2> HIDE DEF e, k, sz
  <2>4. Where(e, k, D, sz) /\ Flow(e)
    BY <1>2, <1>3, <2>1, <2>3 DEF Where, Flow
  <2>5. Stage(e, Dir(e.d), proc[p].sz)
    BY <1>2, <2>1, <2>4 DEF Stage, k, sz
  <2>6. UNCHANGED <<freelist, leaked, dir, proc, cr3, ptable, bootVars, before, panicked>> /\ job' = [job EXCEPT ![p] = e]
    BY <1>0, <1>5 DEF e
  <2> QED BY <1>2, <1>3, <2>1, <2>4, <2>5, <2>6, Quiet
<1>6. CASE /\ job' = [job EXCEPT ![p] = Bad(j)]
           /\ UNCHANGED <<freelist, dir, panicked>>
  <2> DEFINE e == Bad(j)
  <2>1. /\ e \in JobT /\ Stage(e, Dir(e.d), proc[p].sz) /\ Flow(e) /\ e.op = j.op /\ e.q = j.q /\ e.d = j.d /\ e.mem = j.mem
    <3> HIDE DEF j, k, D, sz
    <3>1. /\ e \in JobT /\ Stage(e, D, sz) /\ Flow(e) /\ e.op = j.op /\ e.q = j.q /\ e.d = j.d /\ e.mem = j.mem
      BY <1>2, <1>3, Drops DEF D
    <3> QED BY <1>2, <3>1 DEF sz, D
  <2>2. UNCHANGED <<freelist, leaked, dir, proc, cr3, ptable, bootVars, before, panicked>> /\ job' = [job EXCEPT ![p] = e]
    BY <1>0, <1>6
  <2> HIDE DEF e
  <2> QED BY <1>2, <1>3, <2>1, <2>2, Quiet
<1>7. CASE /\ j.a < sz /\ freelist # <<>> /\ D.tab[PDX(j.a)] # 0 /\ freelist' = Tail(freelist)
           /\ dir' = [dir EXCEPT ![j.d].pte[k] = f] /\ panicked' = panicked
           /\ job' = [job EXCEPT ![p] = [j EXCEPT !.a = j.a + PGSIZE]]
  <2> DEFINE e == [j EXCEPT !.a = j.a + PGSIZE]
             X == [dir EXCEPT ![j.d].pte[k] = f]
  <2>1. /\ e \in JobT /\ e.pc = "copy" /\ e.op = "fork" /\ e.q = j.q /\ e.d = j.d /\ e.mem = j.mem
        /\ e.a = j.a + PGSIZE
    BY <1>0, <1>2, <1>7 DEF JobT
  <2>2. k \in Page /\ k < Up(sz) /\ PDX(j.a) = Row(k) /\ dir \in [Frame -> DirT] /\ freelist \in Seq(Frame) /\ leaked \subseteq Frame
    BY <1>2, <1>7 DEF Inv, Types
  <2>3. f \in Frame /\ f \in Link /\ Tail(freelist) \in Seq(Frame)
    <3>1. f \in Frame /\ Tail(freelist) \in Seq(Frame)
      BY <1>7, <2>2
    <3> QED BY <3>1 DEF Link, Frame
  <2>4. (j.a + PGSIZE) = ((j.a + PGSIZE) \div PGSIZE) * PGSIZE /\ (j.a + PGSIZE) \div PGSIZE = k + 1
    BY <1>2, NextPage
  <2>5. Below(D, k) /\ Full(D) /\ Tabled(D) /\ D.tab[Row(k)] # 0 /\ j.d \in Frame
    BY <1>2, <1>7, <2>2 DEF Inv
  <2> HIDE DEF e, k, f, sz
  <2>7. MapsPage(dir, X, j.d, k, f)
    BY <2>2, <2>3, <2>5, SetPage
  <2> HIDE DEF X, j
  <2>a. X \in [Frame -> DirT] /\ Below(X[j.d], k + 1) /\ D.pte[k] = 0 /\ Full(X[j.d]) /\ Tabled(X[j.d])
    BY <2>2, <2>3, <2>5, <2>7, MapMore
  <2>b. \A c \in Frame : c # j.d => X[c] = dir[c]
    BY <2>7 DEF MapsPage
  <2> USE DEF j
  <2>8. Where(e, k + 1, X[j.d], sz) /\ Flow(e)
    BY <1>2, <1>3, <2>1, <2>2, <2>a DEF Where, Flow
  <2>10. Stage(e, X[j.d], proc[p].sz)
    BY <2>1, <2>4, <2>8 DEF Stage, sz
  <2>11. OwnsNow(Tail(freelist), cpus, leaked, Unfreed, Kstacks, Pgdirs, Taken, Hands, X)
    <3>1. D.pte[k] = 0 /\ freelist # <<>>
      BY <1>7, <2>a
    <3>2. \E x \in Pid : Taken[x] = j.d \/ Pgdirs[x] = j.d
      BY <1>2, <1>3, Apart
    <3> QED BY <1>2, <2>2, <3>1, <3>2, Holding, TakePage DEF X, f
  <2>12. Image(proc[p], e, X[proc[p].pgdir], cr3[p], before[p])
    BY <1>2, <1>3, <2>1, <2>b, ImageFork
  <2>13. /\ [Taken EXCEPT ![p] = IF e.op = "grow" THEN 0 ELSE e.d] = Taken /\ [Hands EXCEPT ![p] = e.mem] = Hands
    BY <1>2, <2>1, HoldersStay DEF Inv
  <2>14. /\ dir' = X /\ job' = [job EXCEPT ![p] = e] /\ freelist' = Tail(freelist) /\ leaked' = leaked /\ panicked' = "no"
         /\ UNCHANGED <<proc, cr3, ptable, bootVars, before>>
    BY <1>0, <1>4, <1>7 DEF X, e
  <2>15. Stage(e, IF e.d = 0 THEN NoDir ELSE dir'[e.d], proc[p].sz)
    BY <1>2, <2>1, <2>10, <2>14
  <2> QED BY <1>2, <1>3, <2>1, <2>2, <2>3, <2>a, <2>b, <2>8, <2>11, <2>12, <2>13, <2>14, <2>15, Inside
<1>8. CASE /\ j.a < sz /\ freelist # <<>> /\ D.tab[PDX(j.a)] = 0 /\ freelist' = Tail(freelist)
           /\ job' = [job EXCEPT ![p] = [j EXCEPT !.pc = "copy_table", !.mem = f]] /\ UNCHANGED <<dir, panicked>>
  <2> DEFINE e == [j EXCEPT !.pc = "copy_table", !.mem = f]
  <2>1. f \in Frame /\ f \in Link /\ f # 0 /\ Tail(freelist) \in Seq(Frame) /\ leaked \subseteq Frame /\ dir \in [Frame -> DirT]
    <3>1. freelist \in Seq(Frame) /\ leaked \subseteq Frame /\ dir \in [Frame -> DirT]
      BY DEF Inv, Types
    <3>2. f \in Frame /\ Tail(freelist) \in Seq(Frame)
      BY <1>8, <3>1
    <3> QED BY <3>1, <3>2 DEF Link, Frame
  <2> HIDE DEF f
  <2>2. /\ e \in JobT /\ e.pc = "copy_table" /\ e.op = "fork" /\ e.q = j.q /\ e.d = j.d /\ e.mem = f /\ e.a = j.a
    BY <1>2, <2>1 DEF JobT, Labels
  <2> HIDE DEF e, k, sz
  <2>3. D.tab[Row(k)] = 0 /\ k < Up(sz)
    BY <1>2, <1>8
  <2>4. Where(e, k, D, sz) /\ Flow(e)
    BY <1>2, <2>1, <2>2, <2>3 DEF Where, Flow
  <2>6. Stage(e, D, proc[p].sz)
    BY <1>2, <2>2, <2>4 DEF Stage, k, sz
  <2>7. OwnsNow(Tail(freelist), cpus, leaked, Unfreed, Kstacks, Pgdirs, Taken, [Hands EXCEPT ![p] = f], dir)
    <3>1. Hands[p] = 0 /\ freelist # <<>>
      BY <1>3, <1>8 DEF Hands
    <3> QED BY <3>1, Holding, TakeHand DEF f
  <2>8. Image(proc[p], e, dir[proc[p].pgdir], cr3[p], before[p])
    BY <1>2, <1>3, <2>2, ImageFork
  <2>9. [Taken EXCEPT ![p] = IF e.op = "grow" THEN 0 ELSE e.d] = Taken
    BY <1>2, <2>2, HoldersStay DEF Inv
  <2>10. /\ dir' = dir /\ job' = [job EXCEPT ![p] = e] /\ freelist' = Tail(freelist) /\ leaked' = leaked /\ panicked' = "no"
         /\ UNCHANGED <<proc, cr3, ptable, bootVars, before>>
    BY <1>0, <1>4, <1>8 DEF e
  <2>11. Stage(e, IF e.d = 0 THEN NoDir ELSE dir'[e.d], proc[p].sz) /\ Tabled(dir'[j.d])
    BY <1>2, <2>2, <2>6, <2>10 DEF Inv
  <2> QED BY <1>2, <1>3, <2>1, <2>2, <2>4, <2>7, <2>8, <2>9, <2>10, <2>11, Inside
<1> QED BY <1>1, <1>5, <1>6, <1>7, <1>8, SMTT(30)

LEMMA CopyTableKeeps == ASSUME Inv, NEW p \in Pid, CopyTable(p) PROVE Inv'
<1> DEFINE j == job[p]
           k == j.a \div PGSIZE
           D == dir[j.d]
           f == Head(freelist)
           sz == proc[p].sz
<1>1. /\ j.pc = "copy_table" /\ UNCHANGED <<proc, cr3, ptable, bootVars, before, panicked>>
      /\ \/ /\ job' = [job EXCEPT ![p] = Bad(j)] /\ leaked' = leaked \cup {j.mem} /\ UNCHANGED <<freelist, dir>>
         \/ /\ freelist # <<>> /\ freelist' = Tail(freelist) /\ leaked' = leaked
            /\ dir' = [dir EXCEPT ![j.d].tab[PDX(j.a)] = f, ![j.d].pte[k] = j.mem]
            /\ job' = [job EXCEPT ![p] = [j EXCEPT !.pc = "copy", !.a = j.a + PGSIZE, !.mem = 0]]
  BY DEF CopyTable, At, Go, kalloc
<1>2. /\ j \in JobT /\ j.op = "fork" /\ j.d \in Frame /\ j.d # 0 /\ Dir(j.d) = dir[j.d] /\ dir[j.d] \in DirT
      /\ Where(j, k, dir[j.d], sz) /\ k \in Nat /\ j.a \in Nat /\ j.a = k * PGSIZE /\ sz \in 0 .. KERNBASE /\ sz \in Nat
      /\ k <= Up(sz) /\ Below(dir[j.d], k) /\ Full(dir[j.d]) /\ Up(sz) \in 0 .. NPAGE /\ k \in 0 .. NPAGE
      /\ j.a < sz <=> k < Up(sz)
      /\ j.a < sz => k \in Page /\ PDX(j.a) \in Table /\ PDX(j.a) = Row(k) /\ j.a + PGSIZE \in Address
      /\ Below(dir[proc[p].pgdir], Up(sz))
  BY <1>1, InCopy
<1>3. j.mem # 0 /\ D.tab[Row(k)] = 0 /\ k < Up(sz) /\ j.pc # "user" /\ j.mem \in Frame /\ j.mem \in Link /\ j.mem = Hands[p]
  <2>1. j.mem # 0 /\ D.tab[Row(k)] = 0 /\ k < Up(sz)
    BY <1>1, <1>2 DEF Where
  <2>2. j.mem \in Link
    BY <1>2, SMTT(30) DEF JobT
  <2> QED BY <1>1, <2>1, <2>2 DEF Link, Frame, Hands
<1>4. panicked = "no" /\ dir \in [Frame -> DirT] /\ freelist \in Seq(Frame) /\ leaked \subseteq Frame /\ Tabled(D)
  BY <1>2, SMTT(30) DEF Inv, Types
<1>5. CASE job' = [job EXCEPT ![p] = Bad(j)] /\ leaked' = leaked \cup {j.mem} /\ UNCHANGED <<freelist, dir>>
  <2> DEFINE e == Bad(j)
  <2>1. /\ e \in JobT /\ Stage(e, D, proc[p].sz) /\ Flow(e) /\ e.op = "fork" /\ e.q = j.q /\ e.d = j.d /\ e.mem = 0
    <3> HIDE DEF j, k, D, sz
    <3>1. /\ e \in JobT /\ Stage(e, D, sz) /\ Flow(e) /\ e.op = j.op /\ e.q = j.q /\ e.d = j.d /\ e.mem = 0
      BY <1>2, <1>3, Drops DEF D
    <3> QED BY <1>2, <3>1 DEF sz
  <2> HIDE DEF e
  <2>2. OwnsNow(freelist, cpus, leaked \cup {j.mem}, Unfreed, Kstacks, Pgdirs, Taken, [Hands EXCEPT ![p] = 0], dir)
    <3>1. OwnsNow(freelist, cpus, leaked \cup {Hands[p]}, Unfreed, Kstacks, Pgdirs, Taken, [Hands EXCEPT ![p] = 0], dir)
      BY <1>3, Holding, HandLost
    <3> QED BY <1>3, <3>1
  <2>3. Image(proc[p], e, dir[proc[p].pgdir], cr3[p], before[p])
    BY <1>2, <1>3, <2>1, ImageFork
  <2>4. [Taken EXCEPT ![p] = IF e.op = "grow" THEN 0 ELSE e.d] = Taken
    BY <1>2, <2>1, HoldersStay DEF Inv
  <2>5. /\ dir' = dir /\ job' = [job EXCEPT ![p] = e] /\ freelist' = freelist /\ leaked' = leaked \cup {j.mem} /\ panicked' = "no"
        /\ UNCHANGED <<proc, cr3, ptable, bootVars, before>> /\ leaked' \subseteq Frame
    BY <1>1, <1>3, <1>4, <1>5, SMTT(30) DEF e
  <2>6. Stage(e, IF e.d = 0 THEN NoDir ELSE dir'[e.d], proc[p].sz) /\ Tabled(dir'[j.d])
    BY <1>2, <1>4, <2>1, <2>5, SMTT(30)
  <2> QED BY <1>2, <1>3, <1>4, <2>1, <2>2, <2>3, <2>4, <2>5, <2>6, Inside
<1>6. CASE /\ freelist # <<>> /\ freelist' = Tail(freelist) /\ leaked' = leaked
           /\ dir' = [dir EXCEPT ![j.d].tab[PDX(j.a)] = f, ![j.d].pte[k] = j.mem]
           /\ job' = [job EXCEPT ![p] = [j EXCEPT !.pc = "copy", !.a = j.a + PGSIZE, !.mem = 0]]
  <2> DEFINE e == [j EXCEPT !.pc = "copy", !.a = j.a + PGSIZE, !.mem = 0]
             X == [dir EXCEPT ![j.d].tab[PDX(j.a)] = f, ![j.d].pte[k] = j.mem]
  <2>1. /\ e \in JobT /\ e.pc = "copy" /\ e.op = "fork" /\ e.q = j.q /\ e.d = j.d /\ e.mem = 0 /\ e.a = j.a + PGSIZE
    <3>1. j.a + PGSIZE \in Address /\ 0 \in Link
      BY <1>2, <1>3 DEF Link
    <3> QED BY <1>1, <1>2, <3>1 DEF JobT, Labels
  <2>2. k \in Page /\ k < Up(sz) /\ PDX(j.a) = Row(k) /\ Row(k) \in Table
    BY <1>2, <1>3
  <2>3. f \in Frame /\ f \in Link /\ Tail(freelist) \in Seq(Frame)
    <3>1. f \in Frame /\ Tail(freelist) \in Seq(Frame)
      BY <1>4, <1>6
    <3> QED BY <3>1 DEF Link, Frame
  <2>4. (j.a + PGSIZE) = ((j.a + PGSIZE) \div PGSIZE) * PGSIZE /\ (j.a + PGSIZE) \div PGSIZE = k + 1
    BY <1>2, NextPage
  <2>5. Below(D, k) /\ Full(D) /\ Tabled(D) /\ j.d \in Frame
    BY <1>2, <1>4
  <2> HIDE DEF e, k, f, sz
  <2>7. MapsTable(dir, X, j.d, PDX(j.a), f, k, j.mem)
    BY <1>3, <1>4, <2>2, <2>3, <2>5, SetTable, ZenonT(40)
  <2>c. PDX(j.a) = Row(k) /\ MapsTable(dir, X, j.d, Row(k), f, k, j.mem)
    BY <2>2, <2>7
  <2> HIDE DEF X, j
  <2>a. X \in [Frame -> DirT] /\ Below(X[j.d], k + 1) /\ D.pte[k] = 0 /\ Full(X[j.d]) /\ Tabled(X[j.d])
    BY <1>3, <1>4, <2>2, <2>3, <2>5, <2>c, TableMore
  <2>b. \A c \in Frame : c # j.d => X[c] = dir[c]
    BY <2>7 DEF MapsTable
  <2> USE DEF j
  <2>8. Where(e, k + 1, X[j.d], sz) /\ Flow(e)
    BY <1>2, <1>3, <2>1, <2>2, <2>a, SMTT(30) DEF Where, Flow
  <2>10. Stage(e, X[j.d], proc[p].sz)
    BY <2>1, <2>4, <2>8 DEF Stage, sz
  <2>11. OwnsNow(Tail(freelist), cpus, leaked, Unfreed, Kstacks, Pgdirs, Taken, [Hands EXCEPT ![p] = 0], X)
    <3>1. D.pte[k] = 0 /\ freelist # <<>> /\ D.tab[PDX(j.a)] = 0 /\ PDX(j.a) \in Table /\ Hands[p] = j.mem /\ Hands[p] # 0
      BY <1>3, <1>6, <2>2, <2>a
    <3>2. \E x \in Pid : Taken[x] = j.d \/ Pgdirs[x] = j.d
      BY <1>2, <1>3, Apart
    <3>3. X = [dir EXCEPT ![j.d].tab[PDX(j.a)] = Head(freelist), ![j.d].pte[k] = Hands[p]]
      BY <3>1 DEF X, f
    <3> HIDE DEF j
    <3> DEFINE d == j.d
               t == PDX(j.a)
    <3>4. /\ dir[d].pte[k] = 0 /\ freelist # <<>> /\ dir[d].tab[t] = 0 /\ t \in Table /\ Hands[p] # 0 /\ d \in Frame
          /\ \E x \in Pid : Taken[x] = d \/ Pgdirs[x] = d
      BY <2>5, <3>1, <3>2
    <3>5. X = [dir EXCEPT ![d].tab[t] = Head(freelist), ![d].pte[k] = Hands[p]]
      BY <3>3
    <3> HIDE DEF d, t
    <3>6. OwnsNow(Tail(freelist), cpus, leaked, Unfreed, Kstacks, Pgdirs, Taken, [Hands EXCEPT ![p] = 0],
                  [dir EXCEPT ![d].tab[t] = Head(freelist), ![d].pte[k] = Hands[p]])
      BY <2>2, <3>4, Holding, TakeTable
    <3> QED BY <3>5, <3>6
  <2>12. Image(proc[p], e, X[proc[p].pgdir], cr3[p], before[p])
    BY <1>2, <1>3, <2>1, <2>b, ImageFork
  <2>13. [Taken EXCEPT ![p] = IF e.op = "grow" THEN 0 ELSE e.d] = Taken
    BY <1>2, <2>1, HoldersStay DEF Inv
  <2>14. /\ dir' = X /\ job' = [job EXCEPT ![p] = e] /\ freelist' = Tail(freelist) /\ leaked' = leaked /\ panicked' = "no"
         /\ UNCHANGED <<proc, cr3, ptable, bootVars, before>>
    BY <1>1, <1>4, <1>6 DEF X, e
  <2>15. Stage(e, IF e.d = 0 THEN NoDir ELSE dir'[e.d], proc[p].sz)
    BY <1>2, <2>1, <2>10, <2>14
  <2> QED BY <1>2, <1>3, <1>4, <2>1, <2>3, <2>8, <2>a, <2>b, <2>11, <2>12, <2>13, <2>14, <2>15, Inside, ZenonT(40)
<1> QED BY <1>1, <1>5, <1>6

\* A call ends without an effect on the process.
LEMMA IdleJob == ASSUME NEW sz PROVE NoJob \in JobT /\ Flow(NoJob) /\ Stage(NoJob, NoDir, sz)
<1>1. 0 \in Address /\ 0 \in Link /\ 0 \in 0 .. NPROC
  BY Space, Times DEF Address, Link
<1>2. NoJob \in JobT
  BY <1>1 DEF NoJob, JobT, Labels, Ops, Nexts
<1>3. 0 \div PGSIZE = 0 /\ 0 * PGSIZE = 0
  OBVIOUS
<1>4. Flow(NoJob)
  BY Idle DEF Flow
<1>5. Where(NoJob, 0, NoDir, sz)
  BY Idle DEF Where
<1>6. Stage(NoJob, NoDir, sz)
  BY <1>3, <1>5, Idle DEF Stage
<1> QED BY <1>2, <1>4, <1>6

LEMMA Rests ==
    ASSUME NEW r, NEW j, NEW P, NEW c, NEW b, Image(r, j, P, c, b), j # NoJob,
           \/ j.op \in {"exec", "old"}
           \/ j.op = "grow" /\ ~Shrinks(j) /\ Below(P, Up(r.sz))
    PROVE  Image(r, NoJob, P, c, b)
BY Idle DEF Image, Shrinks

LEMMA DropHand ==
    ASSUME Inv, NEW p \in Pid
    PROVE  job[p].mem = 0 => [Hands EXCEPT ![p] = 0] = Hands
BY DEF Hands

LEMMA UndoneHolds == ASSUME Inv, NEW p \in Pid, Undone(p) PROVE Inv'
<1> DEFINE j == job[p]
           k == j.a \div PGSIZE
           D == dir[j.d]
           sz == proc[p].sz
           e == IF j.op = "grow" THEN NoJob ELSE [j EXCEPT !.pc = "bad", !.mem = 0]
<1>1. /\ j.pc = "undone" /\ UNCHANGED <<dir, leaked, proc, cr3, ptable, bootVars, before, panicked>>
      /\ freelist' = (IF j.mem = 0 THEN freelist ELSE <<j.mem>> \o freelist) /\ job' = [job EXCEPT ![p] = e]
  BY DEF Undone, At, Go, kfree, history
<1>2. Where(j, k, Dir(j.d), sz) /\ Flow(j) /\ j \in JobT /\ j.op # "" /\ j.a = k * PGSIZE /\ panicked = "no"
  BY <1>1, Here
<1> HIDE DEF k, sz
<1>3. j.op \in {"exec", "grow"} /\ (j.op = "grow" => j.next = "undone") /\ j.op \notin {"fork", "wait"}
  <2>1. j.op \in Ops
    BY <1>2 DEF JobT
  <2> QED BY <1>1, <1>2, <2>1 DEF Flow, Ops
<1>4. j.d # 0 /\ Full(Dir(j.d)) /\ Below(Dir(j.d), Up(j.from)) /\ j.from < KERNBASE
  BY <1>1, <1>2 DEF Where
<1>5. j.d \in Frame /\ Dir(j.d) = D /\ dir \in [Frame -> DirT] /\ Tabled(D) /\ j.mem \in Link
  <2>1. j.d \in Link /\ j.mem \in Link
    BY <1>2 DEF JobT
  <2> QED BY <1>4, <2>1 DEF Inv, Types, Link, Frame, Dir
<1>6. freelist' \in Seq(Frame) /\ leaked \subseteq Frame
  <2>1. freelist \in Seq(Frame) /\ leaked \subseteq Frame
    BY DEF Inv, Types
  <2>2. j.mem # 0 => j.mem \in Frame
    BY <1>5 DEF Link, Frame
  <2>3. j.mem # 0 => <<j.mem>> \o freelist \in Seq(Frame)
    BY <2>1, <2>2
  <2> QED BY <1>1, <2>1, <2>3
<1>7. OwnsNow(freelist', cpus, leaked, Unfreed, Kstacks, Pgdirs, Taken, [Hands EXCEPT ![p] = 0], dir)
  <2>1. CASE j.mem = 0
    <3>1. [Hands EXCEPT ![p] = 0] = Hands /\ freelist' = freelist
      BY <1>1, <2>1, DropHand
    <3> QED BY <3>1, Holding
  <2>2. CASE j.mem # 0
    <3>1. freelist' = <<Hands[p]>> \o freelist /\ Hands[p] # 0
      BY <1>1, <2>2 DEF Hands
    <3>2. OwnsNow(<<Hands[p]>> \o freelist, cpus, leaked, Unfreed, Kstacks, Pgdirs, Taken, [Hands EXCEPT ![p] = 0], dir)
      BY <3>1, Holding, HandToFree
    <3> QED BY <3>1, <3>2
  <2> QED BY <2>1, <2>2
<1>8. /\ Image(proc[p], j, dir[proc[p].pgdir], cr3[p], before[p]) /\ j # NoJob
  BY <1>1, Working
<1>9. CASE j.op = "grow"
  <2>1. e = NoJob
    BY <1>9
  <2>2. NoJob \in JobT /\ Flow(NoJob) /\ Stage(NoJob, NoDir, proc[p].sz)
    BY IdleJob
  <2>3. Image(proc[p], NoJob, dir[proc[p].pgdir], cr3[p], before[p])
    <3>1. ~Shrinks(j)
      BY <1>3, <1>9 DEF Shrinks
    <3>2. j.d = proc[p].pgdir /\ j.from = proc[p].sz
      BY <1>8, <1>9, <3>1 DEF Image
    <3>3. Below(dir[proc[p].pgdir], Up(proc[p].sz))
      BY <1>4, <1>5, <3>2
    <3> QED BY <1>8, <1>9, <3>1, <3>3, Rests
  <2>4. [Taken EXCEPT ![p] = 0] = Taken
    BY <1>9 DEF Taken
  <2>5. /\ NoJob.op = "" /\ NoJob.d = 0 /\ NoJob.mem = 0 /\ job' = [job EXCEPT ![p] = NoJob] /\ panicked' = "no" /\ dir' = dir
        /\ leaked' = leaked /\ UNCHANGED <<proc, cr3, ptable, bootVars, before>> /\ j.pc # "user"
    BY <1>1, <1>2, <2>1, Idle
  <2> HIDE DEF e
  <2> QED BY <1>3, <1>5, <1>6, <1>7, <2>2, <2>3, <2>4, <2>5, Inside
<1>10. CASE j.op = "exec"
  <2>1. /\ e \in JobT /\ e.pc = "bad" /\ e.op = "exec" /\ e.q = j.q /\ e.d = j.d /\ e.mem = 0 /\ e.a = j.a /\ e.from = j.from
    <3>1. 0 \in Link
      BY DEF Link
    <3> QED BY <1>2, <1>10, <3>1 DEF JobT, Labels
  <2> HIDE DEF e
  <2>2. Where(e, k, D, sz) /\ Flow(e)
    BY <1>4, <1>5, <2>1 DEF Where, Flow
  <2>3. Stage(e, D, proc[p].sz)
    BY <1>2, <2>1, <2>2 DEF Stage, k, sz
  <2>4. Image(proc[p], e, dir[proc[p].pgdir], cr3[p], before[p])
    BY <1>8, <1>10, <2>1, ImageKept
  <2>5. [Taken EXCEPT ![p] = IF e.op = "grow" THEN 0 ELSE e.d] = Taken
    BY <1>10, <2>1, HoldersStay DEF Inv
  <2>6. /\ panicked' = "no" /\ dir' = dir /\ leaked' = leaked /\ UNCHANGED <<proc, cr3, ptable, bootVars, before>> /\ j.pc # "user"
    BY <1>1, <1>2
  <2>7. Stage(e, IF e.d = 0 THEN NoDir ELSE dir'[e.d], proc[p].sz)
    BY <1>4, <2>1, <2>3, <2>6
  <2> QED BY <1>1, <1>3, <1>5, <1>6, <1>7, <1>10, <2>1, <2>2, <2>4, <2>5, <2>6, <2>7, Inside
<1> QED BY <1>3, <1>9, <1>10

-----------------------------------------------------------------------------
(* deallocuvm() and freevm() *)

Lo(j) == IF j.next = "tables" THEN 0 ELSE Up(j.from)

\* A call in the loop of deallocuvm().
LEMMA InDrop ==
    ASSUME Inv, NEW p \in Pid, job[p].pc = "dealloc"
    PROVE  LET j == job[p]
               k == job[p].a \div PGSIZE
           IN  /\ j \in JobT /\ j.op \in {"exec", "old", "grow", "fork", "wait"} /\ j.d \in Frame /\ j.d # 0 /\ Dir(j.d) = dir[j.d]
               /\ dir[j.d] \in DirT /\ Full(dir[j.d]) /\ Tabled(dir[j.d]) /\ Flow(j) /\ Where(j, k, dir[j.d], proc[p].sz)
               /\ k \in Nat /\ j.a \in Nat /\ j.a = k * PGSIZE /\ j.to \in Nat /\ j.to <= KERNBASE /\ Lo(j) \in Nat /\ Lo(j) <= k
               /\ j.next \in {"tables", "undone", "shrunk"} /\ (j.next # "tables" => j.from < KERNBASE) /\ Up(j.to) \in Nat
               /\ j.mem # 0 => j.next = "undone"
               /\ j.op = "grow" /\ ~Shrinks(j) => Lo(j) = Up(proc[p].sz)
               /\ j.a < j.to <=> k < Up(j.to)
               /\ j.a < j.to => /\ k \in Page /\ PDX(j.a) \in Table /\ PDX(j.a) = Row(k) /\ j.a + PGSIZE \in Address
                                /\ Skip(j.a) \in Address
<1> DEFINE j == job[p]
           k == job[p].a \div PGSIZE
<1>1. /\ Where(j, k, Dir(j.d), proc[p].sz) /\ Flow(j) /\ j \in JobT /\ j.op # "" /\ j.a \in Nat /\ k \in Nat /\ j.a = k * PGSIZE
  BY Here
<1>2. j.pc = "dealloc" /\ j.op \in Ops /\ j.from \in Nat /\ j.to \in Nat /\ j.d \in Link
  BY <1>1 DEF JobT
<1>3. j.d \in Frame /\ j.d # 0 /\ Dir(j.d) = dir[j.d] /\ dir[j.d] \in DirT /\ Tabled(dir[j.d])
  <2>1. j.d # 0
    BY <1>1, <1>2 DEF Where
  <2> QED BY <1>2, <2>1 DEF Inv, Types, Link, Frame, Dir
<1>4. j.a < j.to <=> k < Up(j.to)
  BY <1>1, <1>2, PageOf
<1>5. j.a < j.to /\ j.to <= KERNBASE => /\ k \in Page /\ PDX(j.a) \in Table /\ PDX(j.a) = Row(k) /\ j.a + PGSIZE \in Address
                                        /\ Skip(j.a) \in Address
  <2>1. j.a \in Nat /\ j.a = (j.a \div PGSIZE) * PGSIZE /\ j.to \in Nat
    BY <1>1, <1>2
  <2> QED BY <2>1, PageOf DEF Row
<1> HIDE DEF k
<1>6. j.op \in {"exec", "old", "grow", "fork", "wait"} /\ j.next \in {"tables", "undone", "shrunk"}
  BY <1>1, <1>2 DEF Flow, Ops
<1>7. /\ j.to <= KERNBASE /\ Lo(j) <= k /\ Full(dir[j.d]) /\ (j.next # "tables" => j.from < KERNBASE) /\ (j.mem # 0 => j.next = "undone")
  BY <1>1, <1>2, <1>3 DEF Where, Lo
<1>8. Up(j.to) \in Nat /\ Lo(j) \in Nat
  <2>1. Up(j.to) \in Nat /\ Up(j.from) \in Nat
    BY <1>2, UpIs
  <2> QED BY <2>1 DEF Lo
<1>9. j.op = "grow" /\ ~Shrinks(j) => Lo(j) = Up(proc[p].sz)
  <2> SUFFICES ASSUME j.op = "grow", ~Shrinks(j) PROVE Lo(j) = Up(proc[p].sz)
    OBVIOUS
  <2>1. Image(proc[p], job[p], dir[proc[p].pgdir], cr3[p], before[p])
    BY Working
  <2>2. j.from = proc[p].sz
    BY <2>1 DEF Image
  <2>3. j.next = "undone"
    BY <1>1, <1>2 DEF Flow, Shrinks
  <2> QED BY <2>2, <2>3 DEF Lo
<1> QED BY <1>1, <1>2, <1>3, <1>4, <1>5, <1>6, <1>7, <1>8, <1>9 DEF k

\* The loop goes on.
AtPage(j, b) == [j EXCEPT !.a = b]
LEMMA DropsOn ==
    ASSUME NEW j \in JobT, NEW D, NEW E, NEW sz, NEW k \in Nat, NEW n \in Nat, NEW b \in Address, Where(j, k, D, sz), Flow(j),
           j.pc = "dealloc", b = n * PGSIZE, b \div PGSIZE = n, Lo(j) <= n, NEW m \in 0 .. Up(j.to), Gap(E, Lo(j), n, m), Full(E)
    PROVE  /\ AtPage(j, b) \in JobT /\ Stage(AtPage(j, b), E, sz) /\ Flow(AtPage(j, b)) /\ AtPage(j, b).op = j.op
           /\ AtPage(j, b).q = j.q /\ AtPage(j, b).d = j.d /\ AtPage(j, b).mem = j.mem /\ AtPage(j, b).from = j.from
           /\ AtPage(j, b).to = j.to /\ (Shrinks(AtPage(j, b)) <=> Shrinks(j))
<1> DEFINE e == AtPage(j, b)
<1>1. /\ e \in JobT /\ e.pc = "dealloc" /\ e.from = j.from /\ e.op = j.op /\ e.q = j.q /\ e.d = j.d /\ e.mem = j.mem /\ e.a = b
      /\ e.to = j.to /\ e.next = j.next
  BY DEF JobT, AtPage
<1> HIDE DEF e
<1>2. Where(e, n, E, sz)
  BY <1>1 DEF Where, Lo
<1>3. Flow(e) /\ (Shrinks(e) <=> Shrinks(j))
  <2>1. j.op # ""
    BY Idle DEF Flow
  <2> QED BY <1>1, <2>1 DEF Flow, Shrinks
<1>4. Stage(e, E, sz)
  BY <1>1, <1>2 DEF Stage
<1> QED BY <1>1, <1>3, <1>4 DEF e

\* What deallocuvm() finds at a page.
LEMMA GapAt ==
    ASSUME NEW D \in DirT, NEW lo \in Nat, NEW k \in Page, NEW m, lo <= k, m \in Nat, m <= NPAGE, Gap(D, lo, k, m), D.pte[k] = 0, NEW n \in Nat, k < n
    PROVE  Gap(D, lo, n, m)
<1>1. k \in Nat /\ \A g \in Page : g \in Nat
  BY DEF Page
<1>2. ~(k < m)
  BY <1>1 DEF Gap
<1> QED BY <1>1, <1>2 DEF Gap

LEMMA GapEnd ==
    ASSUME NEW D, NEW lo \in Nat, NEW k \in Nat, NEW m \in Nat, m <= k, Gap(D, lo, k, m)
    PROVE  Below(D, lo)
BY DEF Gap, Below, Page

LEMMA GapFreed ==
    ASSUME NEW D \in [Frame -> DirT], NEW d \in Frame, NEW lo \in Nat, NEW k \in Page, NEW m \in Nat, lo <= k, Gap(D[d], lo, k, m), Full(D[d]), Tabled(D[d]),
           NEW X, MapsPage(D, X, d, k, 0)
    PROVE  /\ X \in [Frame -> DirT] /\ Gap(X[d], lo, k + 1, m) /\ Full(X[d]) /\ Tabled(X[d])
<1>1. /\ X \in [Frame -> DirT] /\ X[d].kern = D[d].kern /\ X[d].tab = D[d].tab /\ X[d].pte = [D[d].pte EXCEPT ![k] = 0]
  BY DEF MapsPage
<1> DEFINE P == D[d]
           Q == X[d]
<1>2. P.pte \in [Page -> Link] /\ Gap(P, lo, k, m) /\ Q.pte = [P.pte EXCEPT ![k] = 0] /\ Tabled(P) /\ Q.tab = P.tab
  BY <1>1 DEF DirT
<1> HIDE DEF P, Q
<1>3. k \in Nat /\ \A g \in Page : g \in Nat
  BY DEF Page
<1>4. \A g \in Page : g # k => Q.pte[g] = P.pte[g]
  BY <1>2
<1>5. Q.pte[k] = 0
  BY <1>2
<1>6. ASSUME NEW g \in Page PROVE Q.pte[g] # 0 <=> (g < lo \/ (k + 1 <= g /\ g < m))
  <2>1. CASE g = k
    BY <1>3, <1>5, <2>1
  <2>2. CASE g # k
    <3>1. Q.pte[g] # 0 <=> (g < lo \/ (k <= g /\ g < m))
      BY <1>2, <1>4, <2>2 DEF Gap
    <3> QED BY <1>3, <2>2, <3>1
  <2> QED BY <2>1, <2>2
<1>7. Tabled(Q)
  BY <1>2, <1>4, <1>5 DEF Tabled
<1>8. Full(Q)
  BY <1>1 DEF Full, P, Q
<1> QED BY <1>1, <1>6, <1>7, <1>8 DEF Gap, P, Q

LEMMA DeallocKeeps == ASSUME Inv, NEW p \in Pid, Dealloc(p) PROVE Inv'
<1> DEFINE j == job[p]
           k == j.a \div PGSIZE
           D == dir[j.d]
           f == D.pte[k]
           sz == proc[p].sz
<1>0. j.pc = "dealloc" /\ UNCHANGED <<proc, cr3, ptable, bootVars, leaked, before, panicked>>
  BY DEF Dealloc, At, history
<1>2. /\ j \in JobT /\ j.op \in {"exec", "old", "grow", "fork", "wait"} /\ j.d \in Frame /\ j.d # 0 /\ Dir(j.d) = dir[j.d]
      /\ dir[j.d] \in DirT /\ Full(dir[j.d]) /\ Tabled(dir[j.d]) /\ Flow(j) /\ Where(j, k, dir[j.d], proc[p].sz)
      /\ k \in Nat /\ j.a \in Nat /\ j.a = k * PGSIZE /\ j.to \in Nat /\ j.to <= KERNBASE /\ Lo(j) \in Nat /\ Lo(j) <= k
      /\ j.next \in {"tables", "undone", "shrunk"} /\ (j.next # "tables" => j.from < KERNBASE) /\ Up(j.to) \in Nat
      /\ j.mem # 0 => j.next = "undone"
      /\ j.op = "grow" /\ ~Shrinks(j) => Lo(j) = Up(proc[p].sz)
      /\ j.a < j.to <=> k < Up(j.to)
      /\ j.a < j.to => /\ k \in Page /\ PDX(j.a) \in Table /\ PDX(j.a) = Row(k) /\ j.a + PGSIZE \in Address
                       /\ Skip(j.a) \in Address
  BY <1>0, InDrop, SMTT(30)
<1>1. \/ ~(j.a < j.to) /\ job' = [job EXCEPT ![p] = [j EXCEPT !.pc = j.next]] /\ UNCHANGED <<freelist, dir>>
      \/ j.a < j.to /\ D.tab[PDX(j.a)] = 0 /\ job' = [job EXCEPT ![p] = AtPage(j, Skip(j.a))] /\ UNCHANGED <<freelist, dir>>
      \/ j.a < j.to /\ f = 0 /\ job' = [job EXCEPT ![p] = AtPage(j, j.a + PGSIZE)] /\ UNCHANGED <<freelist, dir>>
      \/ /\ j.a < j.to /\ f # 0 /\ freelist' = <<f>> \o freelist /\ dir' = [dir EXCEPT ![j.d].pte[k] = 0]
         /\ job' = [job EXCEPT ![p] = AtPage(j, j.a + PGSIZE)]
  <2>1. j.a \in Nat /\ j.to \in Nat
    BY <1>2
  <2>2. CASE ~(j.a < j.to)
    <3>1. j.a >= j.to
      BY <2>1, <2>2
    <3> QED BY <2>2, <3>1 DEF Dealloc, Go
  <2>3. CASE j.a < j.to /\ D.tab[PDX(j.a)] = 0
    BY <2>1, <2>3, SMTT(30) DEF Dealloc, Go, HasTable, AtPage
  <2>4. CASE j.a < j.to /\ D.tab[PDX(j.a)] # 0 /\ f = 0
    BY <2>1, <2>4, SMTT(30) DEF Dealloc, Go, HasTable, AtPage
  <2>5. CASE j.a < j.to /\ D.tab[PDX(j.a)] # 0 /\ f # 0
    <3>1. /\ kfree(f) /\ dir' = [dir EXCEPT ![j.d].pte[j.a \div PGSIZE] = 0]
          /\ Go(p, [j EXCEPT !.a = j.a + PGSIZE])
      <4>1. ~(j.a >= j.to) /\ HasTable(j.d, j.a) /\ f # 0
        BY <2>1, <2>5 DEF HasTable
      <4> QED BY <2>5, <4>1 DEF Dealloc
    <3> QED BY <2>5, <3>1 DEF Go, AtPage, kfree
  <2> QED BY <2>2, <2>3, <2>4, <2>5
<1>3. panicked = "no" /\ dir \in [Frame -> DirT] /\ freelist \in Seq(Frame) /\ leaked \subseteq Frame /\ j.pc # "user"
  BY <1>0 DEF Inv, Types
<1>4. PICK m \in 0 .. Up(j.to) : Gap(D, Lo(j), k, m)
  BY <1>0, <1>2 DEF Where, Lo
<1>m. m \in Nat /\ m <= Up(j.to) /\ m <= NPAGE /\ NPAGE \in Nat
  <2> HIDE DEF k, D
  <2>1. j.to \in Nat /\ j.to <= KERNBASE
    BY <1>2
  <2>2. Up(j.to) \in 0 .. NPAGE
    BY <2>1, UpPage
  <2> QED BY <1>4, <2>2, Space
<1> HIDE DEF k, f, sz
<1>5. CASE ~(j.a < j.to) /\ job' = [job EXCEPT ![p] = [j EXCEPT !.pc = j.next]] /\ UNCHANGED <<freelist, dir>>
  <2> DEFINE e == [j EXCEPT !.pc = j.next]
  <2>1. /\ e \in JobT /\ e.pc = j.next /\ e.next = j.next /\ e.op = j.op /\ e.q = j.q /\ e.d = j.d /\ e.mem = j.mem /\ e.a = j.a
        /\ e.from = j.from /\ e.to = j.to /\ e.segs = j.segs
    BY <1>2 DEF JobT, Labels
  <2>2. Below(D, Lo(j))
    <3>1. m <= k
      BY <1>2, <1>5, <1>m
    <3>2. Lo(j) \in Nat /\ k \in Nat /\ m \in Nat /\ Gap(D, Lo(j), k, m)
      BY <1>2, <1>4, <1>m
    <3> HIDE DEF D, j
    <3> QED BY <3>1, <3>2, GapEnd
  <2> HIDE DEF e
  <2>4. Where(e, k, D, proc[p].sz)
    BY <1>2, <2>1, <2>2 DEF Where, Lo
  <2>5. Flow(e) /\ (Shrinks(e) <=> Shrinks(j))
    BY <1>0, <1>2, <2>1 DEF Flow, Shrinks
  <2>6. Stage(e, Dir(e.d), proc[p].sz) /\ Full(Dir(e.d))
    BY <1>2, <2>1, <2>4 DEF Stage, k
  <2>7. UNCHANGED <<freelist, leaked, dir, proc, cr3, ptable, bootVars, before, panicked>> /\ job' = [job EXCEPT ![p] = e]
    BY <1>0, <1>5 DEF e
  <2> QED BY <1>3, <2>1, <2>5, <2>6, <2>7, Quiet
<1>6. ASSUME j.a < j.to, NEW n \in Nat, k < n, NEW b \in Address, b = n * PGSIZE, b \div PGSIZE = n, f = 0,
             job' = [job EXCEPT ![p] = AtPage(j, b)], UNCHANGED <<freelist, dir>>
      PROVE  Inv'
  <2> DEFINE e == AtPage(j, b)
             lo == Lo(j)
  <2>1. Gap(D, lo, n, m) /\ lo <= n
    <3>1. D \in DirT /\ lo \in Nat /\ k \in Page /\ lo <= k /\ Gap(D, lo, k, m) /\ D.pte[k] = 0 /\ k \in Nat
      BY <1>2, <1>4, <1>6 DEF f
    <3> HIDE DEF D, lo
    <3>2. Gap(D, lo, n, m)
      BY <1>6, <1>m, <3>1, GapAt
    <3> QED BY <1>6, <3>1, <3>2
  <2>2. /\ j \in JobT /\ Where(j, k, D, proc[p].sz) /\ Flow(j) /\ j.pc = "dealloc" /\ k \in Nat /\ Full(D) /\ m \in 0 .. Up(j.to)
    BY <1>0, <1>2, <1>4
  <2> HIDE DEF D, j, lo
  <2>3. /\ e \in JobT /\ Stage(e, D, proc[p].sz) /\ Flow(e) /\ e.op = j.op /\ e.q = j.q /\ e.d = j.d /\ e.mem = j.mem
        /\ e.from = j.from /\ e.to = j.to /\ (Shrinks(e) <=> Shrinks(j))
    BY <1>6, <2>1, <2>2, DropsOn DEF lo
  <2>4. UNCHANGED <<freelist, leaked, dir, proc, cr3, ptable, bootVars, before, panicked>> /\ job' = [job EXCEPT ![p] = e]
    BY <1>0, <1>6
  <2> HIDE DEF e
  <2>5. Stage(e, Dir(e.d), proc[p].sz) /\ Full(Dir(e.d))
    BY <1>2, <2>3 DEF D, j
  <2> QED BY <1>3, <2>3, <2>4, <2>5, Quiet DEF j
<1>7. j.a = (j.a \div PGSIZE) * PGSIZE
  BY <1>2 DEF k
<1>8. /\ j.a + PGSIZE = (k + 1) * PGSIZE /\ (j.a + PGSIZE) \div PGSIZE = k + 1
      /\ Skip(j.a) = (k + NPTENTRIES) * PGSIZE /\ Skip(j.a) \div PGSIZE = k + NPTENTRIES
      /\ k < k + 1 /\ k < k + NPTENTRIES /\ k + 1 \in Nat /\ k + NPTENTRIES \in Nat
  <2>1. j.a \in Nat /\ k \in Nat
    BY <1>2
  <2>2. k < k + 1 /\ k < k + NPTENTRIES /\ k + 1 \in Nat /\ k + NPTENTRIES \in Nat
    BY <2>1
  <2> HIDE DEF j
  <2>3. /\ j.a + PGSIZE = ((j.a + PGSIZE) \div PGSIZE) * PGSIZE /\ (j.a + PGSIZE) \div PGSIZE = j.a \div PGSIZE + 1
        /\ Skip(j.a) = (Skip(j.a) \div PGSIZE) * PGSIZE /\ Skip(j.a) \div PGSIZE = j.a \div PGSIZE + NPTENTRIES
    BY <1>7, <2>1, NextPage
  <2> QED BY <2>2, <2>3 DEF k, j
<1>9. CASE j.a < j.to /\ D.tab[PDX(j.a)] = 0 /\ job' = [job EXCEPT ![p] = AtPage(j, Skip(j.a))] /\ UNCHANGED <<freelist, dir>>
  <2>1. f = 0
    BY <1>2, <1>9 DEF Tabled, f
  <2>2. Skip(j.a) \in Address /\ j.a < j.to
    BY <1>2, <1>9
  <2> QED BY <1>6, <1>8, <1>9, <2>1, <2>2
<1>10. CASE j.a < j.to /\ f = 0 /\ job' = [job EXCEPT ![p] = AtPage(j, j.a + PGSIZE)] /\ UNCHANGED <<freelist, dir>>
  <2>2. j.a + PGSIZE \in Address /\ j.a < j.to
    BY <1>2, <1>10
  <2> QED BY <1>6, <1>8, <1>10, <2>2
<1>11. CASE /\ j.a < j.to /\ f # 0 /\ freelist' = <<f>> \o freelist /\ dir' = [dir EXCEPT ![j.d].pte[k] = 0]
            /\ job' = [job EXCEPT ![p] = AtPage(j, j.a + PGSIZE)]
  <2> DEFINE b == j.a + PGSIZE
             e == AtPage(j, b)
             X == [dir EXCEPT ![j.d].pte[k] = 0]
             lo == Lo(j)
  <2>1. k \in Page /\ b \in Address /\ b = (k + 1) * PGSIZE /\ b \div PGSIZE = k + 1 /\ k + 1 \in Nat /\ lo \in Nat /\ lo <= k /\ lo <= k + 1
    <3>1. k \in Page /\ b \in Address /\ lo \in Nat /\ lo <= k /\ k \in Nat
      BY <1>2, <1>11
    <3> HIDE DEF lo
    <3>2. k + 1 \in Nat /\ lo <= k + 1
      BY <3>1
    <3> QED BY <1>8, <3>1, <3>2
  <2>2. /\ j \in JobT /\ Where(j, k, D, proc[p].sz) /\ Flow(j) /\ j.pc = "dealloc" /\ k \in Nat /\ Full(D) /\ m \in 0 .. Up(j.to)
        /\ Tabled(D) /\ j.d \in Frame /\ Gap(D, lo, k, m) /\ D = dir[j.d]
    BY <1>0, <1>2, <1>4
  <2>3. f \in Frame
    <3>1. D.pte \in [Page -> Link]
      BY <1>2 DEF DirT
    <3>2. D.pte[k] # 0 /\ f = D.pte[k] /\ k \in Page
      BY <1>2, <1>11 DEF f
    <3> HIDE DEF D
    <3>3. D.pte[k] \in Link
      BY <3>1, <3>2
    <3> QED BY <3>2, <3>3 DEF Link, Frame
  <2>4. <<f>> \o freelist \in Seq(Frame)
    BY <1>3, <2>3
  <2>5. MapsPage(dir, X, j.d, k, 0)
    <3>1. 0 \in Link
      BY DEF Link
    <3> QED BY <1>3, <2>1, <2>2, <3>1, SetPage
  <2> HIDE DEF D, j, lo, X, b
  <2>6. X \in [Frame -> DirT] /\ Gap(X[j.d], lo, k + 1, m) /\ Full(X[j.d]) /\ Tabled(X[j.d])
    BY <1>3, <1>m, <2>1, <2>2, <2>5, GapFreed
  <2>7. \A c \in Frame : c # j.d => X[c] = dir[c]
    BY <2>5 DEF MapsPage
  <2>8. \A g \in Page : g # k => X[j.d].pte[g] = dir[j.d].pte[g]
    <3>1. dir[j.d].pte \in [Page -> Link]
      BY <1>2 DEF DirT, j
    <3> QED BY <2>5, <3>1 DEF MapsPage
  <2>9. /\ e \in JobT /\ Stage(e, X[j.d], proc[p].sz) /\ Flow(e) /\ e.op = j.op /\ e.q = j.q /\ e.d = j.d /\ e.mem = j.mem
        /\ e.from = j.from /\ e.to = j.to /\ (Shrinks(e) <=> Shrinks(j))
    <3> HIDE DEF e
    <3> DEFINE Y == X[j.d]
    <3>1. Gap(Y, Lo(j), k + 1, m) /\ Full(Y) /\ Lo(j) <= k + 1
      BY <2>1, <2>6 DEF lo
    <3> HIDE DEF Y
    <3>2. /\ AtPage(j, b) \in JobT /\ Stage(AtPage(j, b), Y, proc[p].sz) /\ Flow(AtPage(j, b)) /\ AtPage(j, b).op = j.op
          /\ AtPage(j, b).q = j.q /\ AtPage(j, b).d = j.d /\ AtPage(j, b).mem = j.mem /\ AtPage(j, b).from = j.from
          /\ AtPage(j, b).to = j.to /\ (Shrinks(AtPage(j, b)) <=> Shrinks(j))
      BY <2>1, <2>2, <3>1, DropsOn
    <3> QED BY <3>2 DEF e, Y
  <2>10. dir' = X /\ job' = [job EXCEPT ![p] = e] /\ freelist' = <<f>> \o freelist /\ leaked' = leaked /\ panicked' = "no"
         /\ UNCHANGED <<proc, cr3, ptable, bootVars, before>>
    BY <1>0, <1>3, <1>11 DEF X, b, j
  <2> HIDE DEF e
  <2>11. OwnsNow(<<f>> \o freelist, cpus, leaked, Unfreed, Kstacks, Pgdirs, Taken, Hands, X)
    <3>1. \E x \in Pid : Taken[x] = j.d \/ Pgdirs[x] = j.d
      BY <1>2, <1>3, Apart DEF j
    <3>2. dir[j.d].pte[k] = f /\ dir[j.d].pte[k] # 0
      BY <1>11 DEF f, D, j
    <3>3. OwnsNow(<<dir[j.d].pte[k]>> \o freelist, cpus, leaked, Unfreed, Kstacks, Pgdirs, Taken, Hands, [dir EXCEPT ![j.d].pte[k] = 0])
      BY <2>1, <2>2, <3>1, <3>2, Holding, PageToFree
    <3> QED BY <3>2, <3>3 DEF X
  <2>12. Image(proc[p], e, X[proc[p].pgdir], cr3[p], before[p])
    <3>1. /\ e.op = "grow" => e.d = j.d /\ e.from = j.from /\ e.to = j.to /\ (Shrinks(e) <=> Shrinks(j)) /\ Full(X[j.d])
      BY <2>6, <2>9
    <3>2. e.op = "grow" /\ ~Shrinks(e) => \A g \in Page : g < Up(proc[p].sz) => X[j.d].pte[g] = dir[j.d].pte[g]
      <4>1. e.op = "grow" /\ ~Shrinks(e) => ~(k < Up(proc[p].sz))
        <5>1. e.op = "grow" /\ ~Shrinks(e) => lo = Up(proc[p].sz)
          BY <1>2, <2>9 DEF lo, j
        <5> QED BY <2>1, <2>2, <5>1
      <4> QED BY <2>8, <4>1
    <3>3. j.d # 0 /\ j.pc # "user" /\ e.op = j.op
      BY <1>2, <1>3, <2>9 DEF j
    <3> QED BY <2>7, <3>1, <3>2, <3>3, ImageMapped DEF j
  <2>13. [Taken EXCEPT ![p] = IF e.op = "grow" THEN 0 ELSE e.d] = Taken /\ [Hands EXCEPT ![p] = e.mem] = Hands
    BY <2>9, HoldersStay DEF Inv, j
  <2>14. Stage(e, IF e.d = 0 THEN NoDir ELSE dir'[e.d], proc[p].sz)
    BY <1>2, <2>9, <2>10 DEF j
  <2>15. \A c \in Frame : c # job[p].d => dir'[c] = dir[c]
    BY <2>7, <2>10 DEF j
  <2>16. Tabled(dir'[job[p].d])
    BY <2>6, <2>10 DEF j
  <2>17. (e.op = job[p].op /\ e.q = job[p].q) /\ e \in JobT /\ Flow(e) /\ job[p].pc # "user"
    BY <1>3, <2>9 DEF j
  <2> QED BY <1>3, <2>4, <2>6, <2>10, <2>11, <2>12, <2>13, <2>14, <2>15, <2>16, <2>17, Inside
<1> QED BY <1>1, <1>5, <1>9, <1>10, <1>11

\* A call in the loops of freevm().
LEMMA InTables ==
    ASSUME Inv, NEW p \in Pid, job[p].pc = "tables"
    PROVE  LET j == job[p]
               k == job[p].a \div PGSIZE
           IN  /\ j \in JobT /\ j.op \in {"exec", "old", "fork", "wait"} /\ j.d \in Frame /\ j.d # 0 /\ Dir(j.d) = dir[j.d]
               /\ dir[j.d] \in DirT /\ Below(dir[j.d], 0) /\ Flow(j) /\ k \in Nat /\ j.a = k * PGSIZE /\ j.mem = 0
               /\ proc[p].pgdir # j.d /\ Taken[p] = j.d /\ \E x \in Pid : Taken[x] = j.d \/ Pgdirs[x] = j.d
               /\ Where(j, k, dir[j.d], proc[p].sz)
<1> DEFINE j == job[p]
           k == job[p].a \div PGSIZE
<1>1. /\ Where(j, k, Dir(j.d), proc[p].sz) /\ Flow(j) /\ j \in JobT /\ j.op # "" /\ j.a \in Nat /\ k \in Nat /\ j.a = k * PGSIZE
  BY Here
<1>2. j.pc = "tables" /\ j.op \in Ops /\ j.d \in Link
  BY <1>1 DEF JobT
<1> HIDE DEF k
<1>3. j.d # 0 /\ j.mem = 0 /\ Below(Dir(j.d), 0)
  BY <1>1, <1>2 DEF Where
<1>4. j.d \in Frame /\ Dir(j.d) = dir[j.d] /\ dir[j.d] \in DirT
  BY <1>2, <1>3 DEF Inv, Types, Link, Frame, Dir
<1>5. j.op \in {"exec", "old", "fork", "wait"}
  BY <1>1, <1>2 DEF Flow, Ops
<1>6. Pgdirs[p] # j.d /\ Taken[p] = j.d /\ \E x \in Pid : Taken[x] = j.d \/ Pgdirs[x] = j.d
  BY <1>2, <1>3, <1>5, Apart
<1>7. Pgdirs[p] = proc[p].pgdir
  BY <1>2, Working
<1> QED BY <1>1, <1>2, <1>3, <1>4, <1>5, <1>6, <1>7 DEF k

\* A step that frees one page of the directory and stays where it is.
LEMMA Freed ==
    ASSUME Inv, NEW p \in Pid, job[p].pc = "tables", NEW X, X \in [Frame -> DirT], \A c \in Frame : c # job[p].d => X[c] = dir[c],
           X[job[p].d].pte = dir[job[p].d].pte, job' = job, dir' = X, UNCHANGED <<proc, cr3, ptable, bootVars, leaked, before, panicked>>,
           freelist' \in Seq(Frame), OwnsNow(freelist', cpus, leaked, Unfreed, Kstacks, Pgdirs, Taken, Hands, X)
    PROVE  Inv'
<1> DEFINE j == job[p]
           k == j.a \div PGSIZE
<1>1. /\ j \in JobT /\ j.op \in {"exec", "old", "fork", "wait"} /\ j.d \in Frame /\ j.d # 0 /\ Dir(j.d) = dir[j.d]
      /\ dir[j.d] \in DirT /\ Below(dir[j.d], 0) /\ Flow(j) /\ k \in Nat /\ j.a = k * PGSIZE /\ j.mem = 0
      /\ proc[p].pgdir # j.d /\ Taken[p] = j.d /\ \E x \in Pid : Taken[x] = j.d \/ Pgdirs[x] = j.d
      /\ Where(j, k, dir[j.d], proc[p].sz)
  BY InTables
<1>2. Below(X[j.d], 0)
  BY <1>1 DEF Below
<1>3. Tabled(X[j.d])
  <2>1. \A g \in Page : ~(g < 0)
    BY DEF Page
  <2> QED BY <1>2, <2>1 DEF Below, Tabled
<1>4. j.pc = "tables" /\ j.pc # "user"
  OBVIOUS
<1> HIDE DEF k
<1>5. Stage(j, X[j.d], proc[p].sz)
  <2>1. Where(j, k, X[j.d], proc[p].sz)
    BY <1>1, <1>2, <1>4 DEF Where
  <2> QED BY <1>1, <2>1 DEF Stage, k
<1>6. Image(proc[p], j, X[proc[p].pgdir], cr3[p], before[p])
  BY <1>1, <1>4, ImageMapped
<1>7. job' = [job EXCEPT ![p] = j] /\ panicked' = "no" /\ leaked' \subseteq Frame
  BY DEF Inv, Types
<1>8. [Taken EXCEPT ![p] = IF j.op = "grow" THEN 0 ELSE j.d] = Taken /\ [Hands EXCEPT ![p] = j.mem] = Hands
  BY HoldersStay DEF Inv
<1>9. Stage(j, IF j.d = 0 THEN NoDir ELSE dir'[j.d], proc[p].sz)
  BY <1>1, <1>5
<1> QED BY <1>1, <1>3, <1>4, <1>6, <1>7, <1>8, <1>9, Inside

LEMMA MinIn ==
    ASSUME NEW S \in SUBSET Nat, S # {}
    PROVE  Min(S) \in S
<1>1. PICK m \in S : \A x \in S : <<x, m>> \notin OpToRel(<, Nat)
  BY NatLessThanWellFounded, WFMin
<1>2. ASSUME NEW x \in S, x < m PROVE FALSE
  <2>1. <<x, m>> \in Nat \X Nat /\ <<x, m>>[1] < <<x, m>>[2]
    BY <1>2
  <2>2. <<x, m>> \in OpToRel(<, Nat)
    BY <2>1 DEF OpToRel
  <2> QED BY <1>1, <2>2
<1>3. \A x \in S : m <= x
  BY <1>2
<1> QED BY <1>3 DEF Min

LEMMA NoDirT == NoDir \in DirT /\ NoDir.kern = <<>> /\ (\A t \in Table : NoDir.tab[t] = 0) /\ (\A g \in Page : NoDir.pte[g] = 0)
                /\ Below(NoDir, 0) /\ Tabled(NoDir)
<1>1. 0 \in Link
  BY DEF Link
<1>2. NoDir.kern = <<>> /\ NoDir.tab = [t \in Table |-> 0] /\ NoDir.pte = [g \in Page |-> 0] /\ NoDir.guard = {}
  BY DEF NoDir, Table
<1>3. NoDir \in DirT
  BY <1>1 DEF NoDir, DirT, Table
<1>4. Below(NoDir, 0)
  <2>1. \A g \in Page : ~(g < 0)
    BY DEF Page
  <2> QED BY <1>2, <2>1 DEF Below
<1> QED BY <1>2, <1>3, <1>4 DEF Tabled

\* The call gives up its directory, d, and ends or goes on without it.
Without(j) == CASE j.op \in {"exec", "old"} -> NoJob
                [] j.op = "fork" -> [j EXCEPT !.pc = "unfork", !.d = 0]
                [] j.op = "wait" -> [j EXCEPT !.pc = "reaped", !.d = 0]
LEMMA WithoutIs ==
    ASSUME NEW j \in JobT, Flow(j), j.op \in {"exec", "old", "fork", "wait"}, NEW k \in Nat, j.a = k * PGSIZE, k = j.a \div PGSIZE, j.mem = 0, NEW sz,
           NEW r, NEW P, NEW c, NEW b, Image(r, j, P, c, b), j # NoJob
    PROVE  /\ Without(j) \in JobT /\ Flow(Without(j)) /\ Stage(Without(j), NoDir, sz) /\ Without(j).d = 0 /\ Without(j).mem = 0
           /\ Image(r, Without(j), P, c, b)
           /\ \/ Without(j).op = j.op /\ Without(j).q = j.q
              \/ Without(j).op \notin {"fork", "wait"} /\ j.op \notin {"fork", "wait"}
<1> DEFINE e == Without(j)
<1>1. CASE j.op \in {"exec", "old"}
  <2>1. e = NoJob
    BY <1>1 DEF Without
  <2>2. Image(r, NoJob, P, c, b)
    BY <1>1, Rests
  <2>3. NoJob \in JobT /\ Flow(NoJob) /\ Stage(NoJob, NoDir, sz)
    BY IdleJob
  <2> HIDE DEF e
  <2> QED BY <1>1, <2>1, <2>2, <2>3, Idle DEF e
<1>2. CASE j.op \in {"fork", "wait"}
  <2>1. /\ e \in JobT /\ e.op = j.op /\ e.q = j.q /\ e.d = 0 /\ e.mem = 0 /\ e.a = j.a
        /\ (e.op = "fork" => e.pc = "unfork") /\ (e.op = "wait" => e.pc = "reaped")
    <3>1. 0 \in Link
      BY DEF Link
    <3>2. CASE j.op = "fork"
      <4>1. e = [j EXCEPT !.pc = "unfork", !.d = 0]
        BY <3>2 DEF Without
      <4> HIDE DEF e
      <4> QED BY <3>1, <3>2, <4>1 DEF JobT, Labels
    <3>3. CASE j.op = "wait"
      <4>1. e = [j EXCEPT !.pc = "reaped", !.d = 0]
        BY <3>3 DEF Without
      <4> HIDE DEF e
      <4> QED BY <3>1, <3>3, <4>1 DEF JobT, Labels
    <3> QED BY <1>2, <3>2, <3>3
  <2> HIDE DEF e
  <2>2. Where(e, k, NoDir, sz) /\ Flow(e)
    BY <1>2, <2>1 DEF Where, Flow
  <2>3. Stage(e, NoDir, sz)
    BY <2>1, <2>2 DEF Stage
  <2>4. Image(r, e, P, c, b)
    <3>1. e.op = j.op /\ j.op # "" /\ j.op # "grow"
      BY <1>2, <2>1, ZenonT(40)
    <3> QED BY <3>1, ImageKept, ZenonT(40)
  <2> QED BY <1>2, <2>1, <2>2, <2>3, <2>4 DEF e
<1> QED BY <1>1, <1>2

LEMMA FreevmKeeps == ASSUME Inv, NEW p \in Pid, freevm(p) PROVE Inv'
<1> DEFINE j == job[p]
           d == j.d
           k == j.a \div PGSIZE
           used == {t \in DOMAIN dir[d].tab : dir[d].tab[t] # 0}
           t == Min(used)
<1>0. j.pc = "tables" /\ UNCHANGED <<proc, cr3, ptable, bootVars, leaked, before, panicked>>
  BY DEF freevm, At, history
<1>1. /\ j \in JobT /\ j.op \in {"exec", "old", "fork", "wait"} /\ j.d \in Frame /\ j.d # 0 /\ Dir(j.d) = dir[j.d]
      /\ dir[j.d] \in DirT /\ Below(dir[j.d], 0) /\ Flow(j) /\ k \in Nat /\ j.a = k * PGSIZE /\ j.mem = 0
      /\ proc[p].pgdir # j.d /\ Taken[p] = j.d /\ \E x \in Pid : Taken[x] = j.d \/ Pgdirs[x] = j.d
      /\ Where(j, k, dir[j.d], proc[p].sz)
  BY <1>0, InTables
<1>2. dir \in [Frame -> DirT] /\ freelist \in Seq(Frame) /\ leaked \subseteq Frame /\ panicked = "no"
  BY DEF Inv, Types
<1>3. dir[d].tab \in [Table -> Link] /\ dir[d].pte \in [Page -> Link] /\ dir[d].kern \in Seq(Frame)
  BY <1>1, SMTT(30) DEF DirT
<1>4. \/ used # {} /\ freelist' = <<dir[d].tab[t]>> \o freelist /\ dir' = [dir EXCEPT ![d].tab[t] = 0] /\ job' = job
      \/ /\ dir[d].kern # <<>> /\ freelist' = <<Head(dir[d].kern)>> \o freelist
         /\ dir' = [dir EXCEPT ![d].kern = Tail(dir[d].kern)] /\ job' = job
      \/ /\ used = {} /\ dir[d].kern = <<>> /\ freelist' = <<d>> \o freelist /\ dir' = [dir EXCEPT ![d] = NoDir]
         /\ job' = [job EXCEPT ![p] = Without(j)]
  <2>1. CASE used # {}
    BY <2>1, ZenonT(40) DEF freevm, kfree
  <2>2. CASE used = {} /\ dir[d].kern # <<>>
    BY <2>2, ZenonT(40) DEF freevm, kfree
  <2>3. CASE used = {} /\ dir[d].kern = <<>>
    BY <2>3 DEF freevm, kfree, Go, Without
  <2> QED BY <2>1, <2>2, <2>3, ZenonT(40)
<1>5. CASE used # {} /\ freelist' = <<dir[d].tab[t]>> \o freelist /\ dir' = [dir EXCEPT ![d].tab[t] = 0] /\ job' = job
  <2> DEFINE X == [dir EXCEPT ![d].tab[t] = 0]
  <2>1. t \in used
    <3>0. DOMAIN dir[d].tab = Table /\ Table \subseteq Nat
      BY <1>3 DEF Table
    <3>1. used \subseteq Nat
      BY <3>0
    <3> HIDE DEF used
    <3> QED BY <1>5, <3>1, MinIn
  <2>2. t \in Table /\ dir[d].tab[t] # 0
    BY <1>3, <2>1
  <2> HIDE DEF t, used
  <2>3. dir[d].tab[t] \in Frame
    BY <1>3, <2>2 DEF Link, Frame
  <2>4. <<dir[d].tab[t]>> \o freelist \in Seq(Frame)
    BY <1>2, <2>3
  <2>5. X \in [Frame -> DirT] /\ (\A c \in Frame : c # d => X[c] = dir[c]) /\ X[d].pte = dir[d].pte
    <3>1. 0 \in Link
      BY DEF Link
    <3> QED BY <1>1, <1>2, <2>2, <3>1 DEF DirT
  <2>6. OwnsNow(<<dir[d].tab[t]>> \o freelist, cpus, leaked, Unfreed, Kstacks, Pgdirs, Taken, Hands, X)
    <3> HIDE DEF d
    <3>1. d \in Frame /\ \E x \in Pid : Taken[x] = d \/ Pgdirs[x] = d
      BY <1>1 DEF d
    <3> QED BY <2>2, <3>1, Holding, TabToFree
  <2> HIDE DEF X
  <2>7. dir' = X /\ freelist' = <<dir[d].tab[t]>> \o freelist /\ job' = job
    BY <1>5 DEF X
  <2> QED BY <1>0, <2>4, <2>5, <2>6, <2>7, Freed
<1>6. CASE /\ dir[d].kern # <<>> /\ freelist' = <<Head(dir[d].kern)>> \o freelist
           /\ dir' = [dir EXCEPT ![d].kern = Tail(dir[d].kern)] /\ job' = job
  <2> DEFINE X == [dir EXCEPT ![d].kern = Tail(dir[d].kern)]
  <2>1. Head(dir[d].kern) \in Frame /\ Tail(dir[d].kern) \in Seq(Frame)
    <3> DEFINE s == dir[d].kern
    <3>1. s \in Seq(Frame) /\ s # <<>>
      BY <1>3, <1>6
    <3> HIDE DEF s
    <3>2. Head(s) \in Frame /\ Tail(s) \in Seq(Frame)
      BY <3>1
    <3> QED BY <3>2 DEF s
  <2>4. <<Head(dir[d].kern)>> \o freelist \in Seq(Frame)
    BY <1>2, <2>1
  <2>5. X \in [Frame -> DirT] /\ (\A c \in Frame : c # d => X[c] = dir[c]) /\ X[d].pte = dir[d].pte
    BY <1>1, <1>2, <2>1 DEF DirT
  <2>6. OwnsNow(<<Head(dir[d].kern)>> \o freelist, cpus, leaked, Unfreed, Kstacks, Pgdirs, Taken, Hands, X)
    <3> HIDE DEF d
    <3>1. d \in Frame /\ dir[d].kern # <<>> /\ \E x \in Pid : Taken[x] = d \/ Pgdirs[x] = d
      BY <1>1, <1>6 DEF d
    <3> QED BY <3>1, Holding, KernToFree
  <2> HIDE DEF X
  <2>7. dir' = X /\ freelist' = <<Head(dir[d].kern)>> \o freelist /\ job' = job
    BY <1>6 DEF X
  <2> QED BY <1>0, <2>4, <2>5, <2>6, <2>7, Freed
<1>7. CASE /\ used = {} /\ dir[d].kern = <<>> /\ freelist' = <<d>> \o freelist /\ dir' = [dir EXCEPT ![d] = NoDir]
           /\ job' = [job EXCEPT ![p] = Without(j)]
  <2> DEFINE X == [dir EXCEPT ![d] = NoDir]
             e == Without(j)
  <2>1. (\A i \in Table : dir[d].tab[i] = 0) /\ (\A g \in Page : dir[d].pte[g] = 0)
    <3>1. \A i \in Table : dir[d].tab[i] = 0
      BY <1>3, <1>7
    <3>2. \A g \in Page : ~(g < 0)
      BY DEF Page
    <3> QED BY <1>1, <3>1, <3>2 DEF Below
  <2> HIDE DEF used, t
  <2>2. <<d>> \o freelist \in Seq(Frame)
    BY <1>1, <1>2
  <2>3. X \in [Frame -> DirT] /\ (\A c \in Frame : c # d => X[c] = dir[c]) /\ X[d] = NoDir
    BY <1>1, <1>2, NoDirT
  <2>4. OwnsNow(<<d>> \o freelist, cpus, leaked, Unfreed, Kstacks, Pgdirs, [Taken EXCEPT ![p] = 0], Hands, X)
    <3>1. Taken[p] = d /\ Taken[p] # 0
      BY <1>1
    <3>2. dir[Taken[p]].kern = <<>> /\ (\A i \in Table : dir[Taken[p]].tab[i] = 0) /\ (\A g \in Page : dir[Taken[p]].pte[g] = 0)
      BY <1>7, <2>1, <3>1
    <3>3. OwnsNow(<<Taken[p]>> \o freelist, cpus, leaked, Unfreed, Kstacks, Pgdirs, [Taken EXCEPT ![p] = 0], Hands, [dir EXCEPT ![Taken[p]] = NoDir])
      BY <3>1, <3>2, Holding, DirToFree
    <3> QED BY <3>1, <3>3
  <2>5. Image(proc[p], j, dir[proc[p].pgdir], cr3[p], before[p]) /\ j # NoJob /\ proc[p].pgdir \in Frame
    BY <1>0, Working
  <2>6. /\ e \in JobT /\ Flow(e) /\ Stage(e, NoDir, proc[p].sz) /\ e.d = 0 /\ e.mem = 0
        /\ Image(proc[p], e, dir[proc[p].pgdir], cr3[p], before[p])
        /\ (e.op = j.op /\ e.q = j.q) \/ (e.op \notin {"fork", "wait"} /\ j.op \notin {"fork", "wait"})
    <3> HIDE DEF e
    <3>1. k = j.a \div PGSIZE /\ j \in JobT /\ Flow(j) /\ j.op \in {"exec", "old", "fork", "wait"} /\ k \in Nat /\ j.a = k * PGSIZE /\ j.mem = 0
      BY <1>1
    <3> HIDE DEF j, k
    <3> QED BY <2>5, <3>1, WithoutIs DEF e
  <2>7. /\ dir' = X /\ freelist' = <<d>> \o freelist /\ job' = [job EXCEPT ![p] = e] /\ leaked' = leaked /\ panicked' = "no"
        /\ UNCHANGED <<proc, cr3, ptable, bootVars, before>>
    BY <1>0, <1>2, <1>7
  <2> HIDE DEF X, e
  <2>8. [Taken EXCEPT ![p] = IF e.op = "grow" THEN 0 ELSE e.d] = [Taken EXCEPT ![p] = 0] /\ [Hands EXCEPT ![p] = e.mem] = Hands
    BY <1>1, <2>6, DropHand
  <2>9. X[proc[p].pgdir] = dir[proc[p].pgdir] /\ Tabled(X[d])
    BY <1>1, <2>3, <2>5, NoDirT
  <2>10. Stage(e, IF e.d = 0 THEN NoDir ELSE dir'[e.d], proc[p].sz)
    BY <2>6
  <2>11. Image(proc[p], e, dir'[proc[p].pgdir], cr3[p], before[p]) /\ Tabled(dir'[job[p].d])
    BY <2>6, <2>7, <2>9
  <2>12. \A c \in Frame : c # job[p].d => dir'[c] = dir[c]
    BY <2>3, <2>7
  <2>13. OwnsNow(freelist', cpus, leaked', Unfreed, Kstacks, Pgdirs, [Taken EXCEPT ![p] = IF e.op = "grow" THEN 0 ELSE e.d],
                 [Hands EXCEPT ![p] = e.mem], dir')
    BY <2>4, <2>7, <2>8
  <2>14. freelist' \in Seq(Frame) /\ leaked' \subseteq Frame /\ dir' \in [Frame -> DirT] /\ job[p].pc # "user"
    BY <1>0, <1>2, <2>2, <2>3, <2>7
  <2> QED BY <2>6, <2>7, <2>10, <2>11, <2>12, <2>13, <2>14, Inside
<1> QED BY <1>4, <1>5, <1>6, <1>7, ZenonT(40)

-----------------------------------------------------------------------------
(* setupkvm() and the guard page *)

LEMMA Guarded ==
    ASSUME NEW F, NEW C, NEW L, NEW N, NEW ks, NEW pd, NEW nd, NEW hd, NEW D, OwnsNow(F, C, L, N, ks, pd, nd, hd, D),
           NEW d \in Frame, \E p \in Pid : nd[p] = d \/ pd[p] = d, NEW X, \A c \in Frame : c # d => X[c] = D[c],
           X[d].kern = D[d].kern, X[d].tab = D[d].tab, X[d].pte = D[d].pte
    PROVE  OwnsNow(F, C, L, N, ks, pd, nd, hd, X)
<1>1. PICK own : Owns(own, F, C, L, N, ks, pd, nd, hd, D)
  BY DEF OwnsNow
<1>2. /\ \A c \in Frame : X[c].kern = D[c].kern
      /\ \A c \in Frame : X[c].tab = D[c].tab
      /\ \A c \in Frame : X[c].pte = D[c].pte
  OBVIOUS
<1>3. OfKern(own, D) /\ OfTab(own, D) /\ OfPage(own, D) /\ DirUses(own, D)
  BY <1>1 DEF Owns
<1>4. OfKern(own, X)
  BY <1>2, <1>3, SameKern
<1>5. OfTab(own, X)
  BY <1>2, <1>3, SameTab
<1>6. OfPage(own, X)
  BY <1>2, <1>3, SamePage
<1>7. own[d][1] \in {"pgdir", "newdir"}
  BY <1>1, WhoseDir
<1>8. Once(X[d].kern)
  BY <1>3 DEF DirUses
<1>9. DirUses(own, X)
  BY <1>3, <1>7, <1>8, DirChanged
<1>10. Owns(own, F, C, L, N, ks, pd, nd, hd, X)
  BY <1>1, <1>4, <1>5, <1>6, <1>9 DEF Owns
<1> QED BY <1>10 DEF OwnsNow

LEMMA StackKeeps == ASSUME Inv, NEW p \in Pid, Stack(p) PROVE Inv'
<1> DEFINE j == job[p]
           d == j.d
           k == j.a \div PGSIZE
           D == dir[d]
           G == {j.to \div PGSIZE - 2}
           X == [dir EXCEPT ![d].guard = G]
           e == IF j.fits THEN [j EXCEPT !.pc = "commit"] ELSE Bad(j)
<1>1. /\ j.pc = "stack" /\ UNCHANGED <<freelist, leaked, proc, cr3, ptable, bootVars, before, panicked>> /\ dir' = X
      /\ job' = [job EXCEPT ![p] = e]
  BY DEF Stack, At, Go, history
<1>2. Where(j, k, Dir(d), proc[p].sz) /\ Flow(j) /\ j \in JobT /\ j.op # "" /\ j.a = k * PGSIZE /\ panicked = "no"
  BY <1>1, Here
<1>3. j.op = "exec" /\ j.op \notin {"fork", "wait"} /\ j.to \in Nat
  <2>1. j.op \in Ops /\ j.to \in Nat
    BY <1>2 DEF JobT
  <2> QED BY <1>1, <1>2, <2>1 DEF Flow, Ops
<1> HIDE DEF k
<1>4. d # 0 /\ Full(Dir(d)) /\ Below(Dir(d), Up(j.to)) /\ j.to < KERNBASE /\ j.mem = 0
  BY <1>1, <1>2 DEF Where
<1>5. d \in Frame /\ Dir(d) = D /\ dir \in [Frame -> DirT] /\ Tabled(D) /\ freelist \in Seq(Frame) /\ leaked \subseteq Frame
  <2>1. d \in Link
    BY <1>2 DEF JobT
  <2> QED BY <1>4, <2>1 DEF Inv, Types, Link, Frame, Dir
<1>6. G \subseteq Int
  <2>1. j.to \div PGSIZE \in Nat
    BY <1>3, Division
  <2> HIDE DEF j
  <2> QED BY <2>1
<1> HIDE DEF G
<1>7. /\ X \in [Frame -> DirT] /\ \A c \in Frame : c # d => X[c] = dir[c]
      /\ X[d].kern = D.kern /\ X[d].tab = D.tab /\ X[d].pte = D.pte
  BY <1>5, <1>6 DEF DirT
<1> HIDE DEF X
<1>8. Full(X[d]) /\ Below(X[d], Up(j.to)) /\ Tabled(X[d])
  BY <1>4, <1>5, <1>7 DEF Full, Below, Tabled
<1>9. /\ e \in JobT /\ Flow(e) /\ Stage(e, X[d], proc[p].sz) /\ e.op = "exec" /\ e.q = j.q /\ e.d = d /\ e.mem = 0
  <2>1. CASE j.fits
    <3>1. /\ e \in JobT /\ e.pc = "commit" /\ e.op = "exec" /\ e.q = j.q /\ e.d = d /\ e.mem = 0 /\ e.a = j.a /\ e.to = j.to
      BY <1>2, <1>3, <1>4, <2>1 DEF JobT, Labels
    <3> HIDE DEF e
    <3>2. Where(e, k, X[d], proc[p].sz) /\ Flow(e)
      BY <1>4, <1>8, <3>1 DEF Where, Flow
    <3> QED BY <1>2, <3>1, <3>2 DEF Stage, k
  <2>2. CASE ~j.fits
    <3>0. e = Bad(j)
      BY <2>2
    <3>1. Up(j.to) \in 0 .. NPAGE
      BY <1>3, <1>4, UpPage
    <3>2. j \in JobT /\ Below(X[d], Up(j.to)) /\ Full(X[d]) /\ j.d # 0
      BY <1>2, <1>4, <1>8
    <3> DEFINE Y == X[d]
    <3> HIDE DEF j, Y, e
    <3>3. /\ Bad(j) \in JobT /\ Stage(Bad(j), Y, proc[p].sz) /\ Bad(j).op = j.op /\ Bad(j).q = j.q /\ Bad(j).d = j.d /\ Bad(j).mem = 0
          /\ j.op \in {"exec", "old", "fork", "wait"} => Flow(Bad(j))
      BY <3>1, <3>2, Drops DEF Y
    <3> QED BY <1>3, <3>0, <3>3 DEF Y
  <2> QED BY <2>1, <2>2
<1> HIDE DEF e
<1>10. OwnsNow(freelist, cpus, leaked, Unfreed, Kstacks, Pgdirs, Taken, Hands, X)
  <2>1. \E x \in Pid : Taken[x] = d \/ Pgdirs[x] = d
    BY <1>1, <1>4, Apart
  <2>2. OwnsNow(freelist, cpus, leaked, Unfreed, Kstacks, Pgdirs, Taken, Hands, dir)
    BY Holding
  <2> HIDE DEF d
  <2> QED BY <1>5, <1>7, <2>1, <2>2, Guarded
<1>11. Image(proc[p], e, X[proc[p].pgdir], cr3[p], before[p])
  BY <1>1, <1>3, <1>4, <1>7, <1>9, ImageMapped
<1>12. [Taken EXCEPT ![p] = IF e.op = "grow" THEN 0 ELSE e.d] = Taken /\ [Hands EXCEPT ![p] = e.mem] = Hands
  BY <1>3, <1>4, <1>9, HoldersStay DEF Inv
<1>13. Stage(e, IF e.d = 0 THEN NoDir ELSE dir'[e.d], proc[p].sz) /\ Tabled(dir'[d]) /\ panicked' = "no"
  BY <1>1, <1>2, <1>4, <1>8, <1>9
<1> QED BY <1>1, <1>3, <1>5, <1>7, <1>9, <1>10, <1>11, <1>12, <1>13, Inside

\* A call in setupkvm().
LEMMA InSetup ==
    ASSUME Inv, NEW p \in Pid, job[p].pc \in {"dir", "kern"}
    PROVE  LET j == job[p]
               k == job[p].a \div PGSIZE
           IN  /\ j \in JobT /\ j.op \in {"exec", "fork"} /\ Flow(j) /\ Where(j, k, Dir(j.d), proc[p].sz) /\ k \in Nat /\ j.a \in Nat
               /\ j.a = k * PGSIZE /\ k = j.a \div PGSIZE /\ j.mem = 0 /\ j.from = 0 /\ panicked = "no" /\ proc[p].sz \in Nat
               /\ Image(proc[p], j, dir[proc[p].pgdir], cr3[p], before[p]) /\ j # NoJob /\ proc[p].pgdir \in Frame
               /\ dir \in [Frame -> DirT] /\ freelist \in Seq(Frame) /\ leaked \subseteq Frame
               /\ j.pc = "dir" => j.d = 0
               /\ j.pc = "kern" => /\ j.d \in Frame /\ j.d # 0 /\ Dir(j.d) = dir[j.d] /\ Len(dir[j.d].kern) <= NKTAB /\ Below(dir[j.d], 0)
                                   /\ (\A t \in Table : dir[j.d].tab[t] = 0) /\ Taken[p] = j.d /\ Pgdirs[p] # j.d
                                   /\ proc[p].pgdir # j.d /\ Tabled(dir[j.d]) /\ dir[j.d].kern \in Seq(Frame)
<1> DEFINE j == job[p]
           k == job[p].a \div PGSIZE
<1>1. /\ Where(j, k, Dir(j.d), proc[p].sz) /\ Flow(j) /\ j \in JobT /\ j.op # "" /\ j.a \in Nat /\ k \in Nat /\ j.a = k * PGSIZE
      /\ panicked = "no"
  BY Here
<1>2. j.pc \in {"dir", "kern"} /\ j.op \in Ops /\ j.d \in Link
  BY <1>1 DEF JobT
<1>s. proc[p].sz \in Nat
  <2>1. proc[p].sz \in 0 .. KERNBASE
    BY <1>2, Here
  <2> DEFINE n == proc[p].sz
  <2> HIDE DEF n
  <2>2. n \in 0 .. KERNBASE => n \in Nat
    OBVIOUS
  <2> QED BY <2>1, <2>2 DEF n
<1> HIDE DEF k
<1>3. j.op \in {"exec", "fork"} /\ j.mem = 0 /\ j.from = 0
  BY <1>1, <1>2 DEF Flow, Where, Ops
<1>4. Image(proc[p], j, dir[proc[p].pgdir], cr3[p], before[p]) /\ j # NoJob /\ proc[p].pgdir \in Frame /\ Pgdirs[p] = proc[p].pgdir
  BY <1>2, Working
<1>5. dir \in [Frame -> DirT] /\ freelist \in Seq(Frame) /\ leaked \subseteq Frame
  BY DEF Inv, Types
<1>6. j.pc = "dir" => j.d = 0
  BY <1>1 DEF Where
<1>7. j.pc = "kern" => /\ j.d \in Frame /\ j.d # 0 /\ Dir(j.d) = dir[j.d] /\ Len(dir[j.d].kern) <= NKTAB /\ Below(dir[j.d], 0)
                       /\ (\A t \in Table : dir[j.d].tab[t] = 0) /\ Taken[p] = j.d /\ Pgdirs[p] # j.d
                       /\ proc[p].pgdir # j.d /\ Tabled(dir[j.d]) /\ dir[j.d].kern \in Seq(Frame)
  <2> SUFFICES ASSUME j.pc = "kern" PROVE /\ j.d \in Frame /\ j.d # 0 /\ Dir(j.d) = dir[j.d] /\ Len(dir[j.d].kern) <= NKTAB /\ Below(dir[j.d], 0)
                       /\ (\A t \in Table : dir[j.d].tab[t] = 0) /\ Taken[p] = j.d /\ Pgdirs[p] # j.d
                       /\ proc[p].pgdir # j.d /\ Tabled(dir[j.d]) /\ dir[j.d].kern \in Seq(Frame)
    OBVIOUS
  <2>1. j.d # 0 /\ Len(Dir(j.d).kern) <= NKTAB /\ Below(Dir(j.d), 0) /\ \A t \in Table : Dir(j.d).tab[t] = 0
    BY <1>1 DEF Where
  <2>2. j.d \in Frame /\ Dir(j.d) = dir[j.d] /\ Tabled(dir[j.d])
    BY <1>2, <2>1 DEF Inv, Link, Frame, Dir
  <2>3. Taken[p] = j.d /\ Pgdirs[p] # j.d
    BY <1>2, <1>3, <2>1, Apart
  <2>4. dir[j.d].kern \in Seq(Frame)
    BY <1>5, <2>2 DEF DirT
  <2> QED BY <1>4, <2>1, <2>2, <2>3, <2>4
<1> QED BY <1>1, <1>s, <1>2, <1>3, <1>4, <1>5, <1>6, <1>7 DEF k

\* setupkvm() has failed.
LEMMA GivesUp ==
    ASSUME Inv, NEW p \in Pid, job[p].pc \in {"dir", "kern"}
    PROVE  LET j == job[p]
               e == Without(job[p])
           IN  /\ e \in JobT /\ Flow(e) /\ Stage(e, NoDir, proc[p].sz) /\ e.d = 0 /\ e.mem = 0
               /\ Image(proc[p], e, dir[proc[p].pgdir], cr3[p], before[p])
               /\ (e.op = j.op /\ e.q = j.q) \/ (e.op \notin {"fork", "wait"} /\ j.op \notin {"fork", "wait"})
               /\ (Failed(p) <=> job' = [job EXCEPT ![p] = e])
<1> DEFINE j == job[p]
           k == job[p].a \div PGSIZE
           e == Without(j)
<1>1. /\ j \in JobT /\ j.op \in {"exec", "fork"} /\ Flow(j) /\ k \in Nat /\ j.a = k * PGSIZE /\ k = j.a \div PGSIZE /\ j.mem = 0
      /\ Image(proc[p], j, dir[proc[p].pgdir], cr3[p], before[p]) /\ j # NoJob
  BY InSetup
<1>2. Failed(p) <=> job' = [job EXCEPT ![p] = e]
  BY <1>1 DEF Failed, Without, Go
<1> HIDE DEF j, k, e
<1>3. /\ e \in JobT /\ Flow(e) /\ Stage(e, NoDir, proc[p].sz) /\ e.d = 0 /\ e.mem = 0
      /\ Image(proc[p], e, dir[proc[p].pgdir], cr3[p], before[p])
      /\ (e.op = j.op /\ e.q = j.q) \/ (e.op \notin {"fork", "wait"} /\ j.op \notin {"fork", "wait"})
  BY <1>1, WithoutIs DEF e
<1> QED BY <1>2, <1>3 DEF e, j

LEMMA KernKeeps == ASSUME Inv, NEW p \in Pid, Kern(p) PROVE Inv'
<1> DEFINE j == job[p]
           d == j.d
           k == j.a \div PGSIZE
           s == dir[d].kern
           e == Without(j)
<1>1. /\ j.pc = "kern" /\ UNCHANGED <<proc, cr3, ptable, bootVars, before, panicked>>
  BY DEF Kern, At
<1>2. /\ j \in JobT /\ j.op \in {"exec", "fork"} /\ Flow(j) /\ Where(j, k, Dir(j.d), proc[p].sz) /\ k \in Nat /\ j.a \in Nat
      /\ j.a = k * PGSIZE /\ k = j.a \div PGSIZE /\ j.mem = 0 /\ j.from = 0 /\ panicked = "no" /\ proc[p].sz \in Nat
      /\ Image(proc[p], j, dir[proc[p].pgdir], cr3[p], before[p]) /\ j # NoJob /\ proc[p].pgdir \in Frame
      /\ dir \in [Frame -> DirT] /\ freelist \in Seq(Frame) /\ leaked \subseteq Frame
      /\ d \in Frame /\ d # 0 /\ Dir(d) = dir[d] /\ Len(s) <= NKTAB /\ Below(dir[d], 0)
      /\ (\A t \in Table : dir[d].tab[t] = 0) /\ Taken[p] = d /\ Pgdirs[p] # d
      /\ proc[p].pgdir # d /\ Tabled(dir[d]) /\ s \in Seq(Frame)
  BY <1>1, InSetup
<1>3. \/ /\ Len(s) = NKTAB /\ UNCHANGED <<freelist, dir, leaked>>
         /\ job' = [job EXCEPT ![p] = IF j.op = "exec" THEN [j EXCEPT !.pc = "seg"] ELSE [j EXCEPT !.pc = "copy", !.a = 0]]
      \/ /\ Len(s) < NKTAB /\ freelist # <<>> /\ freelist' = Tail(freelist) /\ dir' = [dir EXCEPT ![d].kern = Append(s, Head(freelist))]
         /\ UNCHANGED <<job, leaked>>
      \/ /\ leaked' = leaked \cup {d} \cup Range(s) /\ dir' = [dir EXCEPT ![d] = NoDir] /\ Failed(p) /\ UNCHANGED freelist
  <2>0. Len(s) \in Nat
    <3> HIDE DEF s
    <3> QED BY <1>2
  <2>1. CASE Len(s) = NKTAB
    BY <2>1 DEF Kern, Go
  <2>2. CASE Len(s) < NKTAB /\ freelist # <<>>
    BY <2>0, <2>2 DEF Kern, kalloc
  <2>3. CASE Len(s) < NKTAB /\ freelist = <<>>
    BY <2>0, <2>3 DEF Kern
  <2>4. Len(s) = NKTAB \/ Len(s) < NKTAB
    <3>1. Len(s) <= NKTAB
      BY <1>2
    <3> HIDE DEF s
    <3> QED BY <2>0, <3>1
  <2>5. CASE Len(s) < NKTAB
    BY <2>2, <2>3, <2>5
  <2> QED BY <2>1, <2>4, <2>5
<1>4. CASE /\ Len(s) = NKTAB /\ UNCHANGED <<freelist, dir, leaked>>
           /\ job' = [job EXCEPT ![p] = IF j.op = "exec" THEN [j EXCEPT !.pc = "seg"] ELSE [j EXCEPT !.pc = "copy", !.a = 0]]
  <2> DEFINE b == IF j.op = "exec" THEN [j EXCEPT !.pc = "seg"] ELSE [j EXCEPT !.pc = "copy", !.a = 0]
             n == IF j.op = "exec" THEN k ELSE 0
  <2>1. /\ b \in JobT /\ b.op = j.op /\ b.q = j.q /\ b.d = j.d /\ b.mem = j.mem /\ b.from = 0 /\ b.a = n * PGSIZE /\ n = b.a \div PGSIZE
        /\ (j.op = "exec" => b.pc = "seg") /\ (j.op = "fork" => b.pc = "copy")
    <3>1. CASE j.op = "exec"
      <4>1. b = [j EXCEPT !.pc = "seg"] /\ n = k
        BY <3>1
      <4> HIDE DEF b, n, k
      <4> QED BY <1>2, <3>1, <4>1 DEF JobT, Labels
    <3>2. CASE j.op = "fork"
      <4>1. b = [j EXCEPT !.pc = "copy", !.a = 0] /\ n = 0
        BY <3>2
      <4>2. 0 \div PGSIZE = 0 /\ 0 * PGSIZE = 0 /\ 0 \in Address
        <5>1. 0 \in Address
          BY Space, Times DEF Address
        <5> QED BY <5>1
      <4> HIDE DEF b, n, k
      <4> QED BY <1>2, <3>2, <4>1, <4>2 DEF JobT, Labels
    <3> QED BY <1>2, <3>1, <3>2
  <2>2. Full(dir[d]) /\ Up(0) = 0 /\ Up(proc[p].sz) \in Nat
    <3>1. Up(0) = 0 /\ Up(proc[p].sz) \in Nat
      BY <1>2, UpIs, UpOrder
    <3> QED BY <1>4, <3>1 DEF Full
  <2>3. n \in Nat /\ (j.op = "fork" => n = 0)
    BY <1>2
  <2> HIDE DEF b, n, k, s
  <2>4. Where(b, n, dir[d], proc[p].sz)
    BY <1>2, <2>1, <2>2, <2>3 DEF Where
  <2>5. Flow(b)
    BY <1>2, <2>1 DEF Flow
  <2>6. Stage(b, Dir(b.d), proc[p].sz)
    BY <1>2, <2>1, <2>4 DEF Stage
  <2>7. UNCHANGED <<freelist, leaked, dir, proc, cr3, ptable, bootVars, before, panicked>> /\ job' = [job EXCEPT ![p] = b]
        /\ b.op # "grow" /\ job[p].pc # "user"
    BY <1>1, <1>2, <1>4, <2>1 DEF b
  <2> QED BY <2>1, <2>5, <2>6, <2>7, Quiet
<1>5. CASE /\ Len(s) < NKTAB /\ freelist # <<>> /\ freelist' = Tail(freelist) /\ dir' = [dir EXCEPT ![d].kern = Append(s, Head(freelist))]
           /\ UNCHANGED <<job, leaked>>
  <2> DEFINE f == Head(freelist)
             X == [dir EXCEPT ![d].kern = Append(s, f)]
  <2>1. f \in Frame /\ Tail(freelist) \in Seq(Frame)
    BY <1>2, <1>5
  <2>2. Append(s, f) \in Seq(Frame) /\ Len(Append(s, f)) <= NKTAB
    <3> HIDE DEF s, f
    <3> QED BY <1>2, <1>5, <2>1, SMTT(30)
  <2>3. /\ X \in [Frame -> DirT] /\ (\A c \in Frame : c # d => X[c] = dir[c]) /\ X[d].pte = dir[d].pte /\ X[d].tab = dir[d].tab
        /\ X[d].kern = Append(s, f)
    <3> HIDE DEF f
    <3> QED BY <1>2, <2>2, ZenonT(40) DEF DirT
  <2>4. OwnsNow(Tail(freelist), cpus, leaked, Unfreed, Kstacks, Pgdirs, Taken, Hands, X)
    <3> HIDE DEF d
    <3>1. d \in Frame /\ \E x \in Pid : Taken[x] = d \/ Pgdirs[x] = d
      BY <1>2, SMTT(30)
    <3> QED BY <1>5, <3>1, Holding, TakeKern
  <2> HIDE DEF X, k, f, s
  <2>5. Below(X[d], 0) /\ Tabled(X[d]) /\ Len(X[d].kern) <= NKTAB /\ (\A t \in Table : X[d].tab[t] = 0)
    BY <1>2, <2>2, <2>3 DEF Below, Tabled
  <2>6. Stage(j, X[d], proc[p].sz)
    <3>1. Where(j, k, X[d], proc[p].sz)
      BY <1>1, <1>2, <2>5 DEF Where
    <3> QED BY <1>2, <3>1 DEF Stage
  <2>7. Image(proc[p], j, X[proc[p].pgdir], cr3[p], before[p])
    BY <1>2, <2>3
  <2>8. [Taken EXCEPT ![p] = IF j.op = "grow" THEN 0 ELSE j.d] = Taken /\ [Hands EXCEPT ![p] = j.mem] = Hands
    BY HoldersStay DEF Inv
  <2>9. /\ dir' = X /\ job' = [job EXCEPT ![p] = j] /\ freelist' = Tail(freelist) /\ leaked' = leaked /\ panicked' = "no"
        /\ UNCHANGED <<proc, cr3, ptable, bootVars, before>> /\ j.pc # "user"
    BY <1>1, <1>2, <1>5 DEF X, f, Inv, Types
  <2>10. Stage(j, IF j.d = 0 THEN NoDir ELSE dir'[j.d], proc[p].sz)
    BY <1>2, <2>6, <2>9
  <2> QED BY <1>2, <2>1, <2>3, <2>4, <2>5, <2>7, <2>8, <2>9, <2>10, Inside
<1>6. CASE leaked' = leaked \cup {d} \cup Range(s) /\ dir' = [dir EXCEPT ![d] = NoDir] /\ Failed(p) /\ UNCHANGED freelist
  <2> DEFINE X == [dir EXCEPT ![d] = NoDir]
             L == leaked \cup {d} \cup Range(s)
  <2>1. /\ e \in JobT /\ Flow(e) /\ Stage(e, NoDir, proc[p].sz) /\ e.d = 0 /\ e.mem = 0
        /\ Image(proc[p], e, dir[proc[p].pgdir], cr3[p], before[p])
        /\ (e.op = j.op /\ e.q = j.q) \/ (e.op \notin {"fork", "wait"} /\ j.op \notin {"fork", "wait"})
        /\ job' = [job EXCEPT ![p] = e]
    BY <1>1, <1>6, GivesUp
  <2>2. X \in [Frame -> DirT] /\ (\A c \in Frame : c # d => X[c] = dir[c]) /\ X[d] = NoDir
    BY <1>2, NoDirT
  <2>3. OwnsNow(freelist, cpus, L, Unfreed, Kstacks, Pgdirs, [Taken EXCEPT ![p] = 0], Hands, X)
    <3>1. Taken[p] = d /\ Taken[p] # 0
      BY <1>2
    <3>2. (\A i \in Table : dir[Taken[p]].tab[i] = 0) /\ (\A g \in Page : dir[Taken[p]].pte[g] = 0)
      <4>1. \A g \in Page : ~(g < 0)
        BY DEF Page
      <4> QED BY <1>2, <4>1 DEF Below
    <3>3. OwnsNow(freelist, cpus, leaked \cup {Taken[p]} \cup Range(dir[Taken[p]].kern), Unfreed, Kstacks, Pgdirs, [Taken EXCEPT ![p] = 0], Hands,
                  [dir EXCEPT ![Taken[p]] = NoDir])
      BY <3>1, <3>2, Holding, DirLost
    <3> QED BY <3>1, <3>3
  <2>4. L \subseteq Frame
    <3>1. Range(s) \subseteq Frame
      BY <1>2 DEF Range
    <3> QED BY <1>2, <3>1
  <2> HIDE DEF X, e, L, k
  <2>5. /\ dir' = X /\ freelist' = freelist /\ leaked' = L /\ panicked' = "no" /\ UNCHANGED <<proc, cr3, ptable, bootVars, before>>
    BY <1>1, <1>2, <1>6 DEF X, L
  <2>6. [Taken EXCEPT ![p] = IF e.op = "grow" THEN 0 ELSE e.d] = [Taken EXCEPT ![p] = 0] /\ [Hands EXCEPT ![p] = e.mem] = Hands
    BY <1>2, <2>1, DropHand
  <2>7. dir'[proc[p].pgdir] = dir[proc[p].pgdir] /\ Tabled(dir'[d])
    BY <1>2, <2>2, <2>5, NoDirT
  <2>8. Stage(e, IF e.d = 0 THEN NoDir ELSE dir'[e.d], proc[p].sz)
    BY <2>1
  <2>9. OwnsNow(freelist', cpus, leaked', Unfreed, Kstacks, Pgdirs, [Taken EXCEPT ![p] = IF e.op = "grow" THEN 0 ELSE e.d],
                [Hands EXCEPT ![p] = e.mem], dir')
    BY <2>3, <2>5, <2>6
  <2>10. \A c \in Frame : c # job[p].d => dir'[c] = dir[c]
    BY <2>2, <2>5
  <2>11. Image(proc[p], e, dir'[proc[p].pgdir], cr3[p], before[p])
    BY <2>1, <2>7
  <2>12. freelist' \in Seq(Frame) /\ leaked' \subseteq Frame /\ dir' \in [Frame -> DirT] /\ job[p].pc # "user"
    BY <1>1, <1>2, <2>2, <2>4, <2>5
  <2> QED BY <2>1, <2>5, <2>7, <2>8, <2>9, <2>10, <2>11, <2>12, Inside
<1> QED BY <1>3, <1>4, <1>5, <1>6

LEMMA NewDirKeeps == ASSUME Inv, NEW p \in Pid, NewDir(p) PROVE Inv'
<1> DEFINE j == job[p]
           k == j.a \div PGSIZE
           f == Head(freelist)
<1>1. /\ j.pc = "dir" /\ UNCHANGED <<proc, cr3, ptable, bootVars, leaked, before, panicked>>
  BY DEF NewDir, At, history
<1>2. /\ j \in JobT /\ j.op \in {"exec", "fork"} /\ Flow(j) /\ Where(j, k, Dir(j.d), proc[p].sz) /\ k \in Nat /\ j.a \in Nat
      /\ j.a = k * PGSIZE /\ k = j.a \div PGSIZE /\ j.mem = 0 /\ j.from = 0 /\ panicked = "no" /\ proc[p].sz \in Nat
      /\ Image(proc[p], j, dir[proc[p].pgdir], cr3[p], before[p]) /\ j # NoJob /\ proc[p].pgdir \in Frame
      /\ dir \in [Frame -> DirT] /\ freelist \in Seq(Frame) /\ leaked \subseteq Frame /\ j.d = 0
  BY <1>1, InSetup
<1>3. \/ freelist = <<>> /\ Failed(p) /\ UNCHANGED <<freelist, dir>>
      \/ /\ freelist # <<>> /\ freelist' = Tail(freelist) /\ dir' = [dir EXCEPT ![f] = NoDir]
         /\ job' = [job EXCEPT ![p] = [j EXCEPT !.pc = "kern", !.d = f]]
  BY DEF NewDir, Go, kalloc
<1>4. CASE freelist = <<>> /\ Failed(p) /\ UNCHANGED <<freelist, dir>>
  <2> DEFINE e == Without(j)
  <2>1. /\ e \in JobT /\ Flow(e) /\ Stage(e, NoDir, proc[p].sz) /\ e.d = 0 /\ e.mem = 0
        /\ Image(proc[p], e, dir[proc[p].pgdir], cr3[p], before[p])
        /\ (e.op = j.op /\ e.q = j.q) \/ (e.op \notin {"fork", "wait"} /\ j.op \notin {"fork", "wait"})
        /\ job' = [job EXCEPT ![p] = e]
    BY <1>1, <1>4, GivesUp
  <2> HIDE DEF e, k
  <2>2. [Taken EXCEPT ![p] = IF e.op = "grow" THEN 0 ELSE e.d] = Taken /\ [Hands EXCEPT ![p] = e.mem] = Hands
    <3>1. Taken[p] = 0 /\ (IF e.op = "grow" THEN 0 ELSE e.d) = 0
      BY <1>2, <2>1 DEF Taken
    <3>2. [Taken EXCEPT ![p] = 0] = Taken
      BY <3>1 DEF Taken
    <3> QED BY <1>2, <2>1, <3>1, <3>2, DropHand
  <2>3. OwnsNow(freelist, cpus, leaked, Unfreed, Kstacks, Pgdirs, Taken, Hands, dir)
    BY Holding
  <2>4. dir' = dir /\ freelist' = freelist /\ panicked' = "no" /\ j.pc # "user" /\ leaked' = leaked
    BY <1>1, <1>2, <1>4
  <2> QED BY <1>1, <1>2, <2>1, <2>2, <2>3, <2>4, Inside
<1>5. CASE /\ freelist # <<>> /\ freelist' = Tail(freelist) /\ dir' = [dir EXCEPT ![f] = NoDir]
           /\ job' = [job EXCEPT ![p] = [j EXCEPT !.pc = "kern", !.d = f]]
  <2> DEFINE e == [j EXCEPT !.pc = "kern", !.d = f]
  <2>1. f \in Frame /\ Tail(freelist) \in Seq(Frame) /\ dir[f] = NoDir
    <3>1. PICK own : Owns(own, freelist, cpus, leaked, Unfreed, Kstacks, Pgdirs, Taken, Hands, dir)
      BY Holding DEF OwnsNow
    <3> QED BY <1>5, <3>1, Holding, FirstFree, SMTT(30)
  <2>2. dir' = dir
    BY <1>2, <1>5, <2>1
  <2> HIDE DEF f
  <2>3. f # 0 /\ f \in Link
    BY <2>1 DEF Frame, Link
  <2>4. /\ e \in JobT /\ e.pc = "kern" /\ e.op = j.op /\ e.q = j.q /\ e.d = f /\ e.mem = 0 /\ e.a = j.a /\ e.from = 0
    BY <1>2, <2>3 DEF JobT, Labels
  <2>5. OwnsNow(Tail(freelist), cpus, leaked, Unfreed, Kstacks, Pgdirs, [Taken EXCEPT ![p] = f], Hands, dir)
    <3>1. Taken[p] = 0
      BY <1>2 DEF Taken
    <3> QED BY <1>5, <3>1, Holding, TakeDir DEF f
  <2> HIDE DEF e, k
  <2>6. Where(e, k, NoDir, proc[p].sz)
    <3>1. Len(NoDir.kern) <= NKTAB
      <4>1. NoDir.kern = <<>>
        BY NoDirT
      <4> QED BY <4>1
    <3> QED BY <2>3, <2>4, <3>1, NoDirT DEF Where
  <2>7. Flow(e)
    BY <1>2, <2>4 DEF Flow
  <2>8. Stage(e, NoDir, proc[p].sz)
    BY <1>2, <2>4, <2>6 DEF Stage
  <2>9. Image(proc[p], e, dir[proc[p].pgdir], cr3[p], before[p])
    <3>1. e.op = j.op /\ j.op # "" /\ j.op # "grow"
      BY <1>2, <2>4
    <3> QED BY <1>2, <3>1, ImageKept
  <2>10. (IF e.op = "grow" THEN 0 ELSE e.d) = f /\ [Hands EXCEPT ![p] = e.mem] = Hands
    BY <1>2, <2>4, DropHand
  <2>11. /\ job' = [job EXCEPT ![p] = e] /\ freelist' = Tail(freelist) /\ leaked' = leaked /\ panicked' = "no" /\ j.pc # "user"
         /\ UNCHANGED <<proc, cr3, ptable, bootVars, before>>
    BY <1>1, <1>2, <1>5 DEF e
  <2>12. Stage(e, IF e.d = 0 THEN NoDir ELSE dir'[e.d], proc[p].sz)
    BY <2>1, <2>2, <2>4, <2>8
  <2>13. OwnsNow(freelist', cpus, leaked', Unfreed, Kstacks, Pgdirs, [Taken EXCEPT ![p] = IF e.op = "grow" THEN 0 ELSE e.d],
                [Hands EXCEPT ![p] = e.mem], dir')
    BY <2>2, <2>5, <2>10, <2>11
  <2> QED BY <1>2, <2>1, <2>2, <2>4, <2>7, <2>9, <2>11, <2>12, <2>13, Inside
<1> QED BY <1>3, <1>4, <1>5

-----------------------------------------------------------------------------
(* The steps that change the process *)

\* A process in user mode is in no call.
LEMMA Free == ASSUME Inv, NEW p \in Pid, job[p].pc = "user" PROVE job[p] = NoJob
<1>1. Thread(p) /\ job[p].op \in Ops
  BY DEF Inv, Types, JobT
<1>2. job[p].op = ""
  BY <1>1 DEF Thread, Flow, Ops
<1> QED BY <1>1, <1>2 DEF Thread, Flow

LEMMA Alive ==
    ASSUME Inv, NEW p \in Pid, proc[p].state = "run"
    PROVE  /\ boot = <<>> /\ panicked = "no" /\ Pgdirs[p] = proc[p].pgdir /\ proc[p].pgdir \in Frame /\ proc[p].kstack # 0
           /\ job[p] \in JobT /\ proc[p] \in ProcT /\ cr3[p] \in SpaceT /\ before[p] \in [Page -> Link] /\ dir[proc[p].pgdir] \in DirT
           /\ Full(dir[proc[p].pgdir]) /\ cr3[p].d = proc[p].pgdir /\ Dir(proc[p].pgdir) = dir[proc[p].pgdir]
           /\ Flow(job[p]) /\ Stage(job[p], Dir(job[p].d), proc[p].sz) /\ Image(proc[p], job[p], dir[proc[p].pgdir], cr3[p], before[p])
<1>1. /\ job[p] \in JobT /\ proc[p] \in ProcT /\ cr3[p] \in SpaceT /\ before[p] \in [Page -> Link] /\ panicked = "no"
  BY DEF Inv, Types
<1>2. Thread(p) /\ Booted
  BY DEF Inv
<1>3. boot = <<>>
  <2>1. NoProc.state = "unused"
    BY DEF NoProc
  <2> QED BY <1>2, <2>1 DEF Booted
<1>4. proc[p].kstack # 0 /\ proc[p].pgdir # 0
  BY <1>2 DEF Thread, Image
<1>5. proc[p].pgdir \in Frame
  BY <1>1, <1>4 DEF ProcT, Link, Frame
<1>6. Pgdirs[p] = proc[p].pgdir
  BY <1>4 DEF Pgdirs
<1>7. Dir(Pgdirs[p]) = dir[proc[p].pgdir] /\ dir[proc[p].pgdir] \in DirT
  BY <1>4, <1>5, <1>6 DEF Dir, Inv, Types
<1>8. Image(proc[p], job[p], dir[proc[p].pgdir], cr3[p], before[p])
  BY <1>2, <1>7 DEF Thread
<1>9. Full(dir[proc[p].pgdir]) /\ cr3[p].d = proc[p].pgdir
  BY <1>8 DEF Image
<1> QED BY <1>1, <1>2, <1>3, <1>4, <1>5, <1>6, <1>7, <1>8, <1>9 DEF Thread

\* A step that leaves the pages alone.
LEMMA Turn ==
    ASSUME Inv, NEW p \in Pid, proc[p].state = "run", NEW j \in JobT, NEW r \in ProcT, NEW c \in SpaceT, NEW b \in [Page -> Link],
           job' = [job EXCEPT ![p] = j], proc' = [proc EXCEPT ![p] = r], cr3' = [cr3 EXCEPT ![p] = c], before' = [before EXCEPT ![p] = b],
           r.state = "run", r.kstack = proc[p].kstack, r.pgdir = proc[p].pgdir, UNCHANGED <<ptable, bootVars, panicked, freelist, leaked, dir>>,
           (j.op = job[p].op /\ j.q = job[p].q) \/ (j.op \notin {"fork", "wait"} /\ job[p].op \notin {"fork", "wait"}),
           (IF j.op = "grow" THEN 0 ELSE j.d) = Taken[p], j.mem = job[p].mem,
           Flow(j), Stage(j, Dir(j.d), r.sz), Image(r, j, dir[r.pgdir], c, b)
    PROVE  Inv'
<1>1. Types /\ Owned /\ boot = <<>> /\ panicked = "no" /\ r.pgdir \in Frame
  BY Alive DEF Inv
<1>2. /\ Kstacks' = Kstacks /\ Pgdirs' = Pgdirs
      /\ Taken' = [Taken EXCEPT ![p] = IF j.op = "grow" THEN 0 ELSE j.d] /\ Hands' = [Hands EXCEPT ![p] = j.mem]
  BY <1>1, Holders
<1>3. [Taken EXCEPT ![p] = IF j.op = "grow" THEN 0 ELSE j.d] = Taken /\ [Hands EXCEPT ![p] = j.mem] = Hands
  BY DEF Taken, Hands
<1>4. Owned'
  BY <1>1, <1>2, <1>3 DEF Owned, Unfreed, bootVars
<1>5. /\ freelist' \in Seq(Frame) /\ leaked' \subseteq Frame /\ dir' \in [Frame -> DirT] /\ dir' = dir /\ panicked' = "no"
      /\ \A d \in Frame : d # job[p].d => dir'[d] = dir[d]
  BY <1>1 DEF Types
<1>6. job[p].d # 0 => job[p].pc # "user"
  BY Free, Idle
<1>7. Stage(j, IF j.d = 0 THEN NoDir ELSE dir'[j.d], r.sz) /\ Image(r, j, dir'[r.pgdir], c, b)
  BY <1>5 DEF Dir
<1>8. job[p].d # 0 => Tabled(dir'[job[p].d])
  <2>1. job[p].d \in Link
    BY LinksOf DEF Inv
  <2> QED BY <1>5, <2>1 DEF Inv, Link, Frame
<1> QED BY <1>1, <1>4, <1>5, <1>6, <1>7, <1>8, Onward

\* The page directory is loaded again.
Fresh(d) == [d |-> d, tlb |-> {}]
LEMMA FreshIs ==
    ASSUME NEW d \in Frame
    PROVE  Fresh(d) \in SpaceT /\ Fresh(d).d = d /\ \A P, n : Cached(Fresh(d), P, n)
<1>1. d \in Link
  BY DEF Link, Frame
<1> QED BY <1>1 DEF Fresh, SpaceT, Cached

LEMMA YieldKeeps == ASSUME Inv, NEW p \in Pid, yield(p) PROVE Inv'
<1> DEFINE j == job[p]
           r == proc[p]
           c == Fresh(proc[p].pgdir)
           b == before[p]
           P == dir[r.pgdir]
<1>1. r.state = "run" /\ cr3' = [cr3 EXCEPT ![p] = c] /\ UNCHANGED <<freelist, dir, proc, job, ptable, bootVars, panicked, leaked, before>>
  BY DEF yield, switchuvm, history, Fresh
<1>2. /\ job' = [job EXCEPT ![p] = j] /\ proc' = [proc EXCEPT ![p] = r] /\ before' = [before EXCEPT ![p] = b]
  BY <1>1 DEF Inv, Types
<1>3. /\ r.pgdir \in Frame /\ j \in JobT /\ r \in ProcT /\ cr3[p] \in SpaceT /\ b \in [Page -> Link]
      /\ Flow(j) /\ Stage(j, Dir(j.d), r.sz) /\ Image(r, j, P, cr3[p], b)
  BY <1>1, Alive
<1>4. c \in SpaceT /\ c.d = r.pgdir /\ \A Q, n : Cached(c, Q, n)
  BY <1>3, FreshIs
<1>5. (IF j.op = "grow" THEN 0 ELSE j.d) = Taken[p]
  BY DEF Taken
<1> HIDE DEF c, P
<1>6. Image(r, j, P, c, b)
  BY <1>1, <1>3, <1>4 DEF Image
<1> QED BY <1>1, <1>2, <1>3, <1>4, <1>5, <1>6, Turn DEF P

\* A call of growproc() at its end.
LEMMA Growing ==
    ASSUME Inv, NEW p \in Pid, job[p].pc \in {"grown", "shrunk"}
    PROVE  LET j == job[p]
           IN  /\ j.op = "grow" /\ j.mem = 0 /\ Taken[p] = 0 /\ proc[p].state = "run" /\ j.from \in Nat /\ j.to \in Nat
               /\ j.pc = "grown" => Below(dir[proc[p].pgdir], Up(j.to)) /\ j.to \in 0 .. KERNBASE
               /\ j.pc = "shrunk" => Below(dir[proc[p].pgdir], Up(j.from)) /\ j.from \in 0 .. KERNBASE
<1> DEFINE j == job[p]
           k == job[p].a \div PGSIZE
<1>1. /\ Where(j, k, Dir(j.d), proc[p].sz) /\ Flow(j) /\ j \in JobT /\ j.op # ""
  BY Here
<1>2. j.pc \in {"grown", "shrunk"} /\ j.op \in Ops /\ j.from \in Nat /\ j.to \in Nat
  BY <1>1 DEF JobT
<1> HIDE DEF k
<1>3. j.op = "grow" /\ j.mem = 0 /\ j.d # 0
  BY <1>1, <1>2 DEF Flow, Where, Ops
<1>4. proc[p].state = "run" /\ Pgdirs[p] = proc[p].pgdir
  BY <1>2, Working
<1>5. Dir(j.d) = dir[proc[p].pgdir]
  BY <1>2, <1>3, <1>4, Apart
<1>6. Taken[p] = 0
  BY <1>3 DEF Taken
<1>7. j.pc = "grown" => Below(Dir(j.d), Up(j.to)) /\ j.to < KERNBASE
  BY <1>1 DEF Where
<1>8. j.pc = "shrunk" => Below(Dir(j.d), Up(j.from)) /\ j.from < KERNBASE
  BY <1>1 DEF Where
<1>9. (j.to < KERNBASE => j.to \in 0 .. KERNBASE) /\ (j.from < KERNBASE => j.from \in 0 .. KERNBASE)
  <2> HIDE DEF j
  <2> QED BY <1>2
<1> QED BY <1>2, <1>3, <1>4, <1>5, <1>6, <1>7, <1>8, <1>9

\* The process gets another size.
LEMMA Resized ==
    ASSUME Inv, NEW p \in Pid, job[p].pc \in {"grown", "shrunk"}, NEW n \in 0 .. KERNBASE, Below(dir[proc[p].pgdir], Up(n)),
           job' = [job EXCEPT ![p] = NoJob], proc' = [proc EXCEPT ![p].sz = n], switchuvm(p, proc[p].pgdir),
           UNCHANGED <<ptable, bootVars, panicked, freelist, leaked, dir, before>>
    PROVE  Inv'
<1> DEFINE r == [proc[p] EXCEPT !.sz = n]
           c == Fresh(proc[p].pgdir)
           b == before[p]
           P == dir[proc[p].pgdir]
<1>1. job[p].op = "grow" /\ job[p].mem = 0 /\ Taken[p] = 0 /\ proc[p].state = "run"
  BY Growing
<1>2. /\ proc[p].pgdir \in Frame /\ proc[p] \in ProcT /\ b \in [Page -> Link] /\ Image(proc[p], job[p], P, cr3[p], b) /\ proc[p].kstack # 0
      /\ Full(P)
  BY <1>1, Alive
<1>3. /\ r \in ProcT /\ r.state = "run" /\ r.kstack = proc[p].kstack /\ r.pgdir = proc[p].pgdir /\ r.sz = n
  BY <1>1, <1>2 DEF ProcT
<1>4. /\ proc' = [proc EXCEPT ![p] = r] /\ before' = [before EXCEPT ![p] = b] /\ cr3' = [cr3 EXCEPT ![p] = c]
  BY DEF Inv, Types, switchuvm, Fresh
<1>5. c \in SpaceT /\ c.d = r.pgdir /\ \A Q, m : Cached(c, Q, m)
  BY <1>2, <1>3, FreshIs
<1>6. r.pgdir # 0
  BY <1>2, <1>3 DEF Frame
<1> HIDE DEF c, P, r, b
<1>7. Image(r, NoJob, P, c, b)
  <2>1. Below(P, Up(r.sz)) /\ Full(P) /\ Cached(c, P, Up(r.sz)) /\ r.kstack # 0
    BY <1>2, <1>3, <1>5 DEF P
  <2> QED BY <1>3, <1>5, <1>6, <2>1, Idle DEF Image, Shrinks
<1>8. NoJob \in JobT /\ Flow(NoJob) /\ Stage(NoJob, NoDir, r.sz) /\ Dir(NoJob.d) = NoDir
  BY IdleJob, Idle DEF Dir
<1>9. (IF NoJob.op = "grow" THEN 0 ELSE NoJob.d) = Taken[p] /\ NoJob.mem = job[p].mem /\ NoJob.op \notin {"fork", "wait"}
      /\ job[p].op \notin {"fork", "wait"}
  BY <1>1, Idle
<1>10. Image(r, NoJob, dir[r.pgdir], c, b) /\ Stage(NoJob, Dir(NoJob.d), r.sz)
  BY <1>3, <1>7, <1>8 DEF P
<1> QED BY <1>1, <1>2, <1>3, <1>4, <1>5, <1>8, <1>9, <1>10, Turn

LEMMA GrownKeeps == ASSUME Inv, NEW p \in Pid, Grown(p) PROVE Inv'
<1>1. /\ job[p].pc = "grown" /\ job' = [job EXCEPT ![p] = NoJob] /\ proc' = [proc EXCEPT ![p].sz = job[p].to] /\ switchuvm(p, proc[p].pgdir)
      /\ UNCHANGED <<ptable, bootVars, panicked, freelist, leaked, dir, before>>
  BY DEF Grown, At, Go, history
<1>2. Below(dir[proc[p].pgdir], Up(job[p].to)) /\ job[p].to \in 0 .. KERNBASE
  BY <1>1, Growing
<1> QED BY <1>1, <1>2, Resized

LEMMA ShrunkKeeps == ASSUME Inv, NEW p \in Pid, Shrunk(p) PROVE Inv'
<1>1. /\ job[p].pc = "shrunk" /\ job' = [job EXCEPT ![p] = NoJob]
      /\ UNCHANGED <<ptable, bootVars, panicked, freelist, leaked, dir, before>>
      /\ \/ job[p].from = 0 /\ UNCHANGED <<proc, cr3>>
         \/ proc' = [proc EXCEPT ![p].sz = job[p].from] /\ switchuvm(p, proc[p].pgdir)
  BY DEF Shrunk, At, Go, history
<1>2. /\ Below(dir[proc[p].pgdir], Up(job[p].from)) /\ job[p].from \in 0 .. KERNBASE
      /\ job[p].op = "grow" /\ job[p].mem = 0 /\ Taken[p] = 0 /\ proc[p].state = "run"
  BY <1>1, Growing
<1>3. CASE job[p].from = 0 /\ UNCHANGED <<proc, cr3>>
  <2> DEFINE r == proc[p]
             c == cr3[p]
             b == before[p]
             P == dir[proc[p].pgdir]
  <2>1. /\ r.pgdir \in Frame /\ r \in ProcT /\ c \in SpaceT /\ b \in [Page -> Link] /\ Image(r, job[p], P, c, b) /\ r.kstack # 0
        /\ Full(P)
    BY <1>2, Alive
  <2>2. /\ proc' = [proc EXCEPT ![p] = r] /\ before' = [before EXCEPT ![p] = b] /\ cr3' = [cr3 EXCEPT ![p] = c]
    BY <1>1, <1>3 DEF Inv, Types
  <2>3. Below(P, 0)
    BY <1>2, <1>3, UpOrder
  <2> HIDE DEF c, P, r, b
  <2>4. r.state = "run"
    BY <1>2 DEF r
  <2>5. Image(r, NoJob, P, c, b)
    <3>1. r.pgdir # 0 /\ c.d = r.pgdir
      BY <2>1, <2>4 DEF Image, Frame
    <3> QED BY <2>1, <2>3, <2>4, <3>1, Idle DEF Image, Shrinks
  <2>6. NoJob \in JobT /\ Flow(NoJob) /\ Stage(NoJob, NoDir, r.sz) /\ Dir(NoJob.d) = NoDir
    BY IdleJob, Idle DEF Dir
  <2>7. (IF NoJob.op = "grow" THEN 0 ELSE NoJob.d) = Taken[p] /\ NoJob.mem = job[p].mem /\ NoJob.op \notin {"fork", "wait"}
        /\ job[p].op \notin {"fork", "wait"}
    BY <1>2, Idle
  <2>8. Image(r, NoJob, dir[r.pgdir], c, b) /\ Stage(NoJob, Dir(NoJob.d), r.sz) /\ r.kstack = proc[p].kstack /\ r.pgdir = proc[p].pgdir
    BY <2>5, <2>6 DEF P, r
  <2> QED BY <1>1, <1>2, <2>1, <2>2, <2>4, <2>6, <2>7, <2>8, Turn
<1>4. CASE proc' = [proc EXCEPT ![p].sz = job[p].from] /\ switchuvm(p, proc[p].pgdir)
  BY <1>1, <1>2, <1>4, Resized
<1> QED BY <1>1, <1>3, <1>4

\* exec() commits to the new image.
LEMMA CommitKeeps == ASSUME Inv, NEW p \in Pid, Commit(p) PROVE Inv'
<1> DEFINE j == job[p]
           k == j.a \div PGSIZE
           d == j.d
           o == proc[p].pgdir
           i == [j EXCEPT !.op = "old", !.d = o]
           e == Bad(i)
           r == [proc[p] EXCEPT !.pgdir = d, !.sz = j.to]
           c == Fresh(d)
           b == before[p]
<1>1. /\ j.pc = "commit" /\ proc' = [proc EXCEPT ![p].pgdir = d, ![p].sz = j.to] /\ cr3' = [cr3 EXCEPT ![p] = c]
      /\ job' = [job EXCEPT ![p] = e] /\ UNCHANGED <<freelist, dir, ptable, bootVars, panicked, leaked, before>>
  BY DEF Commit, At, NewImage, switchuvm, Go, history, Fresh
<1>2. /\ Where(j, k, Dir(d), proc[p].sz) /\ Flow(j) /\ j \in JobT /\ j.op # ""
  BY <1>1, Here
<1> HIDE DEF k
<1>3. j.op = "exec" /\ j.to \in Nat /\ d \in Link
  <2>1. j.op \in Ops /\ j.to \in Nat /\ d \in Link
    BY <1>2 DEF JobT
  <2> QED BY <1>1, <1>2, <2>1 DEF Flow, Ops
<1>4. d # 0 /\ Full(Dir(d)) /\ Below(Dir(d), Up(j.to)) /\ j.to < KERNBASE /\ j.mem = 0
  BY <1>1, <1>2 DEF Where
<1>5. d \in Frame /\ Dir(d) = dir[d] /\ Tabled(dir[d]) /\ dir \in [Frame -> DirT] /\ freelist \in Seq(Frame) /\ leaked \subseteq Frame /\ panicked = "no"
  BY <1>3, <1>4 DEF Inv, Types, Link, Frame, Dir
<1>6. /\ boot = <<>> /\ proc[p].state = "run" /\ Pgdirs[p] = o /\ o \in Frame /\ proc[p].kstack # 0 /\ proc[p] \in ProcT
      /\ Image(proc[p], j, dir[o], cr3[p], b) /\ b \in [Page -> Link]
  BY <1>1, Working DEF Inv, Types
<1>7. Below(dir[o], Up(proc[p].sz)) /\ Full(dir[o]) /\ Dir(o) = dir[o] /\ o # 0 /\ o \in Link
  BY <1>3, <1>6 DEF Image, Dir, Frame, Link
<1>8. Up(proc[p].sz) \in 0 .. NPAGE
  <2> DEFINE n == proc[p].sz
  <2>1. n \in 0 .. KERNBASE
    BY <1>6 DEF ProcT
  <2> HIDE DEF n
  <2>2. n \in Nat /\ n <= KERNBASE
    BY <2>1
  <2>3. Up(n) \in 0 .. NPAGE
    BY <2>2, UpPage
  <2> QED BY <2>3 DEF n
<1>9. /\ i \in JobT /\ i.op = "old" /\ i.d = o /\ i.q = j.q
  BY <1>2, <1>7 DEF JobT, Ops
<1>10. /\ e \in JobT /\ Stage(e, dir[o], j.to) /\ e.op = "old" /\ e.q = j.q /\ e.d = o /\ e.mem = 0 /\ Flow(e)
  <2> DEFINE Q == dir[o]
  <2>1. Below(Q, Up(proc[p].sz)) /\ Full(Q) /\ i.d # 0
    BY <1>7, <1>9
  <2> HIDE DEF i, Q
  <2>2. /\ Bad(i) \in JobT /\ Stage(Bad(i), Q, j.to) /\ Bad(i).op = i.op /\ Bad(i).q = i.q /\ Bad(i).d = i.d /\ Bad(i).mem = 0
        /\ i.op \in {"exec", "old", "fork", "wait"} => Flow(Bad(i))
    BY <1>8, <1>9, <2>1, Drops
  <2> QED BY <1>9, <2>2 DEF Q
<1> HIDE DEF e
<1>11. r \in ProcT /\ r.state = "run" /\ r.kstack = proc[p].kstack /\ r.pgdir = d /\ r.sz = j.to
  <2>1. j.to \in 0 .. KERNBASE
    <3> DEFINE n == j.to
    <3>1. n \in Nat /\ n < KERNBASE
      BY <1>3, <1>4
    <3> HIDE DEF n
    <3> QED BY <3>1 DEF n
  <2> QED BY <1>3, <1>6, <2>1 DEF ProcT
<1>12. proc' = [proc EXCEPT ![p] = r] /\ before' = [before EXCEPT ![p] = b]
  BY <1>1 DEF Inv, Types
<1>13. c \in SpaceT /\ c.d = d /\ \A Q, m : Cached(c, Q, m)
  BY <1>5, FreshIs
<1> HIDE DEF c, r, b
<1>14. Image(r, e, dir[r.pgdir], c, b)
  <2>1. Below(dir[d], Up(r.sz)) /\ Full(dir[d]) /\ Cached(c, dir[d], Up(r.sz)) /\ r.kstack # 0 /\ e # NoJob
    BY <1>4, <1>5, <1>6, <1>10, <1>11, <1>13, Idle
  <2>2. r.pgdir # 0 /\ c.d = r.pgdir
    BY <1>4, <1>11, <1>13
  <2>3. Image(r, e, dir[d], c, b)
    BY <1>10, <1>11, <2>1, <2>2 DEF Image, Shrinks
  <2> QED BY <1>11, <2>3
<1>15. Owned'
  <2>1. Taken[p] = d /\ Pgdirs[p] = o /\ Hands[p] = 0
    BY <1>3, <1>4, <1>6 DEF Taken, Hands
  <2>2. OwnsNow(freelist, cpus, leaked, Unfreed, Kstacks, [Pgdirs EXCEPT ![p] = Taken[p]], [Taken EXCEPT ![p] = Pgdirs[p]], Hands, dir)
    <3>1. Taken[p] # 0 /\ Pgdirs[p] # 0
      BY <1>4, <1>7, <2>1
    <3> QED BY <3>1, Holding, Swap
  <2>3. /\ job'[p] = e /\ proc'[p] = r /\ \A x \in Pid : x # p => job'[x] = job[x] /\ proc'[x] = proc[x]
    BY <1>1, <1>12 DEF Inv, Types
  <2>4. Kstacks' = Kstacks
    <3>1. \A x \in Pid : proc'[x].kstack = proc[x].kstack
      BY <1>11, <2>3
    <3> QED BY <3>1 DEF Kstacks
  <2>5. Pgdirs' = [Pgdirs EXCEPT ![p] = d]
    <3>1. Pgdirs' = [x \in Pid |-> IF proc'[x].kstack = 0 THEN 0 ELSE proc'[x].pgdir]
      BY DEF Pgdirs
    <3>2. [Pgdirs EXCEPT ![p] = d] = [x \in Pid |-> IF x = p THEN d ELSE IF proc[x].kstack = 0 THEN 0 ELSE proc[x].pgdir]
      BY DEF Pgdirs
    <3>3. \A x \in Pid : (IF proc'[x].kstack = 0 THEN 0 ELSE proc'[x].pgdir) = (IF x = p THEN d ELSE IF proc[x].kstack = 0 THEN 0 ELSE proc[x].pgdir)
      BY <1>6, <1>11, <2>3
    <3> QED BY <3>1, <3>2, <3>3
  <2>6. Taken' = [Taken EXCEPT ![p] = o]
    <3>1. Taken' = [x \in Pid |-> IF job'[x].op = "grow" THEN 0 ELSE job'[x].d]
      BY DEF Taken
    <3>2. [Taken EXCEPT ![p] = o] = [x \in Pid |-> IF x = p THEN o ELSE IF job[x].op = "grow" THEN 0 ELSE job[x].d]
      BY DEF Taken
    <3>3. \A x \in Pid : (IF job'[x].op = "grow" THEN 0 ELSE job'[x].d) = (IF x = p THEN o ELSE IF job[x].op = "grow" THEN 0 ELSE job[x].d)
      BY <1>10, <2>3
    <3> QED BY <3>1, <3>2, <3>3
  <2>7. Hands' = Hands
    <3>1. \A x \in Pid : job'[x].mem = job[x].mem
      BY <1>4, <1>10, <2>3
    <3> QED BY <3>1 DEF Hands
  <2> QED BY <1>1, <2>1, <2>2, <2>4, <2>5, <2>6, <2>7 DEF Owned, Unfreed, bootVars
<1>16. Stage(e, IF e.d = 0 THEN NoDir ELSE dir'[e.d], r.sz)
  <2>1. e.d # 0 /\ dir'[e.d] = dir[o] /\ r.sz = j.to
    BY <1>1, <1>7, <1>10, <1>11
  <2> QED BY <1>10, <2>1
<1>17. /\ dir' \in [Frame -> DirT] /\ freelist' \in Seq(Frame) /\ leaked' \subseteq Frame /\ dir' = dir /\ panicked' = "no"
       /\ (\A f \in Frame : f # j.d => dir'[f] = dir[f]) /\ (j.d # 0 => j.pc # "user") /\ (j.d # 0 => Tabled(dir'[j.d]))
  BY <1>1, <1>5
<1>18. e.op \notin {"fork", "wait"} /\ j.op \notin {"fork", "wait"} /\ r.pgdir \in Frame /\ UNCHANGED <<ptable, bootVars>>
  BY <1>1, <1>3, <1>5, <1>10, <1>11
<1> QED BY <1>1, <1>6, <1>10, <1>11, <1>12, <1>13, <1>14, <1>15, <1>16, <1>17, <1>18, Onward

-----------------------------------------------------------------------------
(* Calls that begin *)

LEMMA UsedFrame == \A f \in Frame : f # 0
BY DEF Frame

LEMMA UpLess == \A m, n \in Nat : m <= n => Up(m) <= Up(n) /\ Up(n) \in Nat
BY UpOrder, UpIs

\* What a process is that can call.
LEMMA Caller ==
    ASSUME Inv, NEW p \in Pid, CanCall(p)
    PROVE  /\ proc[p].state = "run" /\ job[p] = NoJob /\ Below(dir[proc[p].pgdir], Up(proc[p].sz))
           /\ Cached(cr3[p], dir[proc[p].pgdir], Up(proc[p].sz)) /\ proc[p].sz \in Nat /\ proc[p].sz <= KERNBASE
           /\ Taken[p] = 0 /\ panicked = "no"
<1>1. proc[p].state = "run" /\ job[p].pc = "user" /\ dir[proc[p].pgdir].pte[0] # 0
  BY DEF CanCall
<1>2. job[p] = NoJob
  BY <1>1, Free
<1>3. /\ Image(proc[p], job[p], dir[proc[p].pgdir], cr3[p], before[p]) /\ proc[p] \in ProcT /\ panicked = "no"
  BY <1>1, Alive
<1>4. 0 \in Page
  BY Space DEF Page
<1>5. ~Below(dir[proc[p].pgdir], 0)
  BY <1>1, <1>4 DEF Below
<1>6. Below(dir[proc[p].pgdir], Up(proc[p].sz)) /\ Cached(cr3[p], dir[proc[p].pgdir], Up(proc[p].sz))
  BY <1>1, <1>2, <1>3, <1>5, Idle DEF Image
<1>7. proc[p].sz \in 0 .. KERNBASE
  BY <1>3 DEF ProcT
<1>8. \A n \in 0 .. KERNBASE : n \in Nat /\ n <= KERNBASE
  OBVIOUS
<1>9. Taken[p] = 0
  BY <1>2, Idle DEF Taken
<1> QED BY <1>1, <1>2, <1>3, <1>6, <1>7, <1>8, <1>9

\* The process has touched its pages.
Touched(c, d) == [c EXCEPT !.tlb = @ \cup Pages(d)]
LEMMA TouchedIs ==
    ASSUME NEW d \in Frame, dir[d] \in DirT, NEW c \in SpaceT, NEW n \in Nat, Below(dir[d], n), Cached(c, dir[d], n)
    PROVE  Touched(c, d) \in SpaceT /\ Touched(c, d).d = c.d /\ Cached(Touched(c, d), dir[d], n)
<1>1. \A f \in Pages(d) : f \in Frame /\ \E g \in Page : dir[d].pte[g] = f
  <2>1. dir[d].pte \in [Page -> Link]
    BY DEF DirT
  <2>2. ASSUME NEW f \in Pages(d) PROVE f \in Frame /\ \E g \in Page : dir[d].pte[g] = f
    <3>1. f # 0 /\ f \in {dir[d].pte[g] : g \in DOMAIN dir[d].pte}
      BY DEF Pages, Range
    <3>2. PICK g \in Page : f = dir[d].pte[g]
      BY <2>1, <3>1
    <3>3. f \in Link
      BY <2>1, <3>2
    <3> QED BY <3>1, <3>2, <3>3 DEF Link, Frame
  <2> QED BY <2>2
<1>2. \A f \in Pages(d) : \E g \in Page : g < n /\ dir[d].pte[g] = f
  <2> SUFFICES ASSUME NEW f \in Pages(d) PROVE \E g \in Page : g < n /\ dir[d].pte[g] = f
    OBVIOUS
  <2>1. PICK g \in Page : dir[d].pte[g] = f
    BY <1>1
  <2>2. f # 0
    BY <1>1 DEF Frame
  <2> QED BY <2>1, <2>2 DEF Below
<1>3. Touched(c, d).tlb = c.tlb \cup Pages(d) /\ Touched(c, d).d = c.d /\ Touched(c, d) \in SpaceT
  BY <1>1 DEF Touched, SpaceT
<1> QED BY <1>2, <1>3 DEF Cached

\* A call that needs no lock begins.
LEMMA Entered ==
    ASSUME Inv, NEW p \in Pid, CanCall(p), Called(p), NEW j \in JobT, job' = [job EXCEPT ![p] = j],
           UNCHANGED <<freelist, dir, proc, ptable, bootVars, panicked, leaked>>,
           j.mem = 0, j.op \in {"", "exec", "grow"}, j.op # "grow" => j.d = 0, Flow(j), Stage(j, Dir(j.d), proc[p].sz),
           j.op = "grow" => j.d = proc[p].pgdir, Shrinks(j) => j.to = proc[p].sz /\ j.from < proc[p].sz,
           j.op = "grow" /\ ~Shrinks(j) => j.from = proc[p].sz
    PROVE  Inv'
<1> DEFINE r == proc[p]
           P == dir[r.pgdir]
           c == Touched(cr3[p], r.pgdir)
           b == P.pte
           n == Up(r.sz)
<1>1. /\ r.state = "run" /\ job[p] = NoJob /\ Below(P, n) /\ Cached(cr3[p], P, n) /\ Taken[p] = 0 /\ n \in Nat
  BY Caller, UpIs
<1>2. /\ r.pgdir \in Frame /\ r \in ProcT /\ P \in DirT /\ Full(P) /\ cr3[p] \in SpaceT /\ cr3[p].d = r.pgdir /\ r.kstack # 0
  BY <1>1, Alive
<1>3. c \in SpaceT /\ c.d = r.pgdir /\ Cached(c, P, n)
  BY <1>1, <1>2, TouchedIs
<1>4. /\ proc' = [proc EXCEPT ![p] = r] /\ before' = [before EXCEPT ![p] = b] /\ cr3' = [cr3 EXCEPT ![p] = c]
  BY DEF Inv, Types, Called, Touched
<1>5. b \in [Page -> Link]
  BY <1>2 DEF DirT
<1>6. b = [g \in Page |-> IF g < n THEN P.pte[g] ELSE 0]
  <2>1. \A g \in Page : ~(g < n) => P.pte[g] = 0
    BY <1>1 DEF Below
  <2> QED BY <1>5, <2>1
<1>7. r.pgdir # 0
  <2>1. \A f \in Frame : f # 0
    BY UsedFrame
  <2> QED BY <1>2, <2>1
<1>8. (IF j.op = "grow" THEN 0 ELSE j.d) = Taken[p] /\ j.mem = job[p].mem /\ j.op \notin {"fork", "wait"} /\ job[p].op \notin {"fork", "wait"}
  BY <1>1, Idle
<1>9. Image(r, j, P, c, b)
  <2>1. /\ j.op = "grow" => j.d = r.pgdir
        /\ Shrinks(j) => j.to = r.sz /\ j.from < r.sz
        /\ j.op = "grow" /\ ~Shrinks(j) => j.from = r.sz
    OBVIOUS
  <2>2. b = P.pte
    OBVIOUS
  <2> HIDE DEF c, b, P, r
  <2> QED BY <1>1, <1>2, <1>3, <1>6, <1>7, <2>1, <2>2 DEF Image, Shrinks
<1>10. /\ r.kstack = proc[p].kstack /\ r.pgdir = proc[p].pgdir /\ Stage(j, Dir(j.d), r.sz) /\ Image(r, j, dir[r.pgdir], c, b)
  BY <1>9
<1> HIDE DEF c, b, P, r, n
<1>11. proc[p].state = "run"
  BY <1>1 DEF r
<1> QED BY <1>1, <1>2, <1>3, <1>4, <1>5, <1>8, <1>10, <1>11, Turn

LEMMA ExecKeeps == ASSUME Inv, NEW p \in Pid, NEW segs \in Programs, NEW fits \in BOOLEAN, Exec(p, segs, fits) PROVE Inv'
<1> DEFINE j == [NoJob EXCEPT !.op = "exec", !.pc = "dir", !.segs = segs, !.fits = fits]
<1>1. /\ CanCall(p) /\ Called(p) /\ job' = [job EXCEPT ![p] = j] /\ UNCHANGED <<freelist, dir, proc, ptable, bootVars, panicked, leaked>>
  BY DEF Exec
<1>2. NoJob \in JobT
  BY IdleJob
<1>3. segs \in Seq(Segs)
  <2>1. Programs \subseteq Seq([end : Nat, fault : STRING])
    BY MemoryAssumption
  <2> QED BY <2>1 DEF Segs
<1>4. j \in JobT
  BY <1>2, <1>3 DEF JobT, Labels, Ops
<1>5. /\ j.op = "exec" /\ j.pc = "dir" /\ j.d = 0 /\ j.mem = 0 /\ j.a = 0 /\ j.from = 0 /\ j.next = ""
  BY DEF NoJob
<1> HIDE DEF j
<1>6. 0 \div PGSIZE = 0 /\ 0 * PGSIZE = 0
  OBVIOUS
<1>7. Flow(j) /\ Where(j, 0, Dir(j.d), proc[p].sz)
  BY <1>5 DEF Flow, Where
<1>8. Stage(j, Dir(j.d), proc[p].sz)
  BY <1>5, <1>6, <1>7 DEF Stage
<1> QED BY <1>1, <1>4, <1>5, <1>7, <1>8, Entered DEF Shrinks

LEMMA SbrkKeeps == ASSUME Inv, NEW p \in Pid, NEW n \in Grow, Sbrk(p, n) PROVE Inv'
<1> DEFINE sz == proc[p].sz
           d == proc[p].pgdir
           P == dir[d]
           u == [NoJob EXCEPT !.op = "grow", !.pc = "page", !.d = d, !.from = sz, !.to = sz + n, !.a = PGROUNDUP(sz), !.next = "grown"]
           s == [NoJob EXCEPT !.op = "grow", !.pc = "dealloc", !.d = d, !.from = sz + n, !.to = sz, !.a = PGROUNDUP(sz + n),
                              !.next = "shrunk"]
<1>1. /\ CanCall(p) /\ Called(p) /\ UNCHANGED <<freelist, dir, proc, ptable, bootVars, panicked, leaked>>
      /\ \/ n > 0 /\ sz + n < KERNBASE /\ job' = [job EXCEPT ![p] = u]
         \/ n < 0 /\ sz + n >= 0 /\ job' = [job EXCEPT ![p] = s]
         \/ job' = job
  BY DEF Sbrk, Go
<1>2. /\ proc[p].state = "run" /\ job[p] = NoJob /\ Below(P, Up(sz)) /\ sz \in Nat /\ sz <= KERNBASE
  BY <1>1, Caller
<1>3. d \in Frame /\ P \in DirT /\ Full(P) /\ Dir(d) = P
  BY <1>2, Alive
<1>4. n \in Int
  BY MemoryAssumption
<1>5. NoJob \in JobT /\ d \in Link /\ d # 0
  BY <1>3, IdleJob DEF Link, Frame
<1>6. CASE n > 0 /\ sz + n < KERNBASE /\ job' = [job EXCEPT ![p] = u]
  <2>1. sz + n \in Nat /\ sz <= sz + n
    BY <1>2, <1>4, <1>6
  <2>2. /\ PGROUNDUP(sz) \in Address /\ PGROUNDUP(sz) \div PGSIZE = Up(sz) /\ Up(sz) \in Nat
        /\ PGROUNDUP(sz) = (PGROUNDUP(sz) \div PGSIZE) * PGSIZE
    BY <1>2, Rounded
  <2>3. Up(sz) <= Up(sz + n)
    BY <1>2, <2>1, UpOrder
  <2>4. u \in JobT
    BY <1>5, <1>2, <2>1, <2>2, ZenonT(40) DEF JobT, Labels, Ops, Nexts
  <2>5. /\ u.op = "grow" /\ u.pc = "page" /\ u.d = d /\ u.mem = 0 /\ u.a = PGROUNDUP(sz) /\ u.from = sz /\ u.to = sz + n
        /\ u.next = "grown"
    BY DEF NoJob
  <2> HIDE DEF u, P
  <2>6. Flow(u)
    BY <2>5 DEF Flow
  <2>7. Where(u, Up(sz), P, sz)
    <3> DEFINE t == sz + n
    <3>1. u.to = t /\ sz <= t /\ t < KERNBASE /\ Up(sz) <= Up(t) /\ Up(sz) <= Up(sz)
      BY <1>6, <2>1, <2>2, <2>3, <2>5
    <3> HIDE DEF t
    <3> QED BY <1>2, <1>3, <1>5, <2>5, <3>1 DEF Where
  <2>8. Stage(u, Dir(u.d), sz)
    BY <1>3, <2>2, <2>5, <2>7 DEF Stage
  <2>9. ~Shrinks(u)
    BY <2>5 DEF Shrinks
  <2> QED BY <1>1, <1>6, <2>4, <2>5, <2>6, <2>8, <2>9, Entered
<1>7. CASE n < 0 /\ sz + n >= 0 /\ job' = [job EXCEPT ![p] = s]
  <2> DEFINE t == sz + n
  <2>1. t \in Nat /\ t < sz /\ t <= KERNBASE /\ t < KERNBASE
    BY <1>2, <1>4, <1>7
  <2>2. s = [NoJob EXCEPT !.op = "grow", !.pc = "dealloc", !.d = d, !.from = t, !.to = sz, !.a = PGROUNDUP(t), !.next = "shrunk"]
    OBVIOUS
  <2> HIDE DEF t, s
  <2>3. /\ PGROUNDUP(t) \in Address /\ PGROUNDUP(t) \div PGSIZE = Up(t) /\ Up(t) \in Nat
        /\ PGROUNDUP(t) = (PGROUNDUP(t) \div PGSIZE) * PGSIZE
    BY <2>1, Rounded
  <2>4. Up(t) <= Up(sz) /\ Up(sz) \in Nat
    <3>1. t <= sz
      BY <1>2, <2>1
    <3> QED BY <1>2, <2>1, <3>1, UpLess
  <2>5. s \in JobT
    BY <1>5, <1>2, <2>1, <2>2, <2>3, ZenonT(40) DEF JobT, Labels, Ops, Nexts
  <2>6. /\ s.op = "grow" /\ s.pc = "dealloc" /\ s.d = d /\ s.mem = 0 /\ s.a = PGROUNDUP(t) /\ s.from = t /\ s.to = sz
        /\ s.next = "shrunk"
    BY <2>2 DEF NoJob
  <2> HIDE DEF P
  <2>7. Flow(s)
    BY <2>6 DEF Flow
  <2>8. Gap(P, Up(t), Up(t), Up(sz))
    <3>1. \A g \in Page : g < Up(sz) <=> (g < Up(t) \/ (Up(t) <= g /\ g < Up(sz)))
      <4> DEFINE x == Up(t)
                 y == Up(sz)
      <4>1. x \in Nat /\ y \in Nat /\ x <= y /\ \A g \in Page : g \in Nat
        BY <2>3, <2>4 DEF Page
      <4> HIDE DEF x, y
      <4>2. \A g \in Page : g < y <=> (g < x \/ (x <= g /\ g < y))
        BY <4>1
      <4> QED BY <4>2 DEF x, y
    <3> QED BY <1>2, <3>1 DEF Below, Gap
  <2>9. Where(s, Up(t), P, sz)
    <3>1. Up(sz) \in 0 .. Up(sz) /\ Up(t) <= Up(t)
      BY <2>3, <2>4
    <3> QED BY <1>2, <1>3, <1>5, <2>1, <2>6, <2>8, <3>1 DEF Where
  <2>10. Stage(s, Dir(s.d), sz)
    BY <1>3, <2>3, <2>6, <2>9 DEF Stage
  <2>11. Shrinks(s)
    BY <2>6 DEF Shrinks
  <2> QED BY <1>1, <1>7, <2>1, <2>5, <2>6, <2>7, <2>10, <2>11, Entered
<1>8. CASE job' = job
  <2>1. job' = [job EXCEPT ![p] = NoJob]
    BY <1>2, <1>8 DEF Inv, Types
  <2>2. Flow(NoJob) /\ Stage(NoJob, Dir(NoJob.d), sz) /\ NoJob \in JobT
    BY IdleJob, Idle DEF Dir
  <2> QED BY <1>1, <2>1, <2>2, Idle, Entered DEF Shrinks
<1> QED BY <1>1, <1>6, <1>7, <1>8

-----------------------------------------------------------------------------
(* fork(), exit() and wait() *)

LEMMA HoldersMove ==
    ASSUME NEW p \in Pid, NEW q \in Pid, \A x \in Pid : x # p => job'[x] = job[x], \A x \in Pid : x # q => proc'[x] = proc[x]
    PROVE  /\ Kstacks' = [Kstacks EXCEPT ![q] = proc'[q].kstack]
           /\ Pgdirs' = [Pgdirs EXCEPT ![q] = IF proc'[q].kstack = 0 THEN 0 ELSE proc'[q].pgdir]
           /\ Taken' = [Taken EXCEPT ![p] = IF job'[p].op = "grow" THEN 0 ELSE job'[p].d] /\ Hands' = [Hands EXCEPT ![p] = job'[p].mem]
<1>3. Kstacks' = [Kstacks EXCEPT ![q] = proc'[q].kstack]
  <2>1. \A x \in Pid : proc'[x].kstack = IF x = q THEN proc'[q].kstack ELSE proc[x].kstack
    OBVIOUS
  <2> QED BY <2>1 DEF Kstacks
<1>4. Pgdirs' = [Pgdirs EXCEPT ![q] = IF proc'[q].kstack = 0 THEN 0 ELSE proc'[q].pgdir]
  <2> DEFINE t == IF proc'[q].kstack = 0 THEN 0 ELSE proc'[q].pgdir
             v(x) == IF proc[x].kstack = 0 THEN 0 ELSE proc[x].pgdir
  <2>1. \A x \in Pid : (IF proc'[x].kstack = 0 THEN 0 ELSE proc'[x].pgdir) = IF x = q THEN t ELSE v(x)
    OBVIOUS
  <2>2. Pgdirs = [x \in Pid |-> v(x)]
    BY DEF Pgdirs
  <2> HIDE DEF t, v
  <2>3. Pgdirs' = [x \in Pid |-> IF x = q THEN t ELSE v(x)]
    BY <2>1 DEF Pgdirs
  <2>4. Pgdirs' = [Pgdirs EXCEPT ![q] = t]
    BY <2>2, <2>3
  <2> QED BY <2>4 DEF t
<1>5. Taken' = [Taken EXCEPT ![p] = IF job'[p].op = "grow" THEN 0 ELSE job'[p].d]
  <2> DEFINE t == IF job'[p].op = "grow" THEN 0 ELSE job'[p].d
             v(x) == IF job[x].op = "grow" THEN 0 ELSE job[x].d
  <2>1. \A x \in Pid : (IF job'[x].op = "grow" THEN 0 ELSE job'[x].d) = IF x = p THEN t ELSE v(x)
    OBVIOUS
  <2>2. Taken = [x \in Pid |-> v(x)]
    BY DEF Taken
  <2> HIDE DEF t, v
  <2>3. Taken' = [x \in Pid |-> IF x = p THEN t ELSE v(x)]
    BY <2>1 DEF Taken
  <2>4. Taken' = [Taken EXCEPT ![p] = t]
    BY <2>2, <2>3
  <2> QED BY <2>4 DEF t
<1>6. Hands' = [Hands EXCEPT ![p] = job'[p].mem]
  <2>1. \A x \in Pid : job'[x].mem = IF x = p THEN job'[p].mem ELSE job[x].mem
    OBVIOUS
  <2> QED BY <2>1 DEF Hands
<1> QED BY <1>3, <1>4, <1>5, <1>6

LEMMA HoldersBoth ==
    ASSUME Types, NEW p \in Pid, NEW q \in Pid, NEW j, job' = [job EXCEPT ![p] = j], NEW r, proc' = [proc EXCEPT ![q] = r]
    PROVE  /\ Kstacks' = [Kstacks EXCEPT ![q] = r.kstack] /\ Pgdirs' = [Pgdirs EXCEPT ![q] = IF r.kstack = 0 THEN 0 ELSE r.pgdir]
           /\ Taken' = [Taken EXCEPT ![p] = IF j.op = "grow" THEN 0 ELSE j.d] /\ Hands' = [Hands EXCEPT ![p] = j.mem]
<1>1. proc'[q] = r /\ \A x \in Pid : x # q => proc'[x] = proc[x]
  BY DEF Types
<1>2. job'[p] = j /\ \A x \in Pid : x # p => job'[x] = job[x]
  BY DEF Types
<1> QED BY <1>1, <1>2, HoldersMove

\* A step of a call that also changes the process it makes or frees.
LEMMA Paired ==
    ASSUME Inv, NEW p \in Pid, NEW q \in Pid, p # q, proc[p].state = "run", proc[q].state # "run", NEW j \in JobT, NEW r \in ProcT,
           job' = [job EXCEPT ![p] = j], proc' = [proc EXCEPT ![q] = r], UNCHANGED <<bootVars, panicked, leaked, dir>>,
           cr3' \in [Pid -> SpaceT], before' \in [Pid -> [Page -> Link]],
           \A x \in Pid : x \notin {p, q} => cr3'[x] = cr3[x] /\ before'[x] = before[x],
           freelist' \in Seq(Frame), Owned', ptable' \in 0 .. NPROC, Locks',
           Flow(j), Stage(j, Dir(j.d), proc[p].sz), Image(proc[p], j, dir[proc[p].pgdir], cr3'[p], before'[p]),
           Image(r, NoJob, Dir(IF r.kstack = 0 THEN 0 ELSE r.pgdir), cr3'[q], before'[q])
    PROVE  Inv'
<1>1. Types'
  BY DEF Inv, Types, bootVars
<1>2. /\ job'[p] = j /\ proc'[q] = r /\ proc'[p] = proc[p] /\ job'[q] = job[q] /\ dir' = dir
      /\ \A x \in Pid : x \notin {p, q} => job'[x] = job[x] /\ proc'[x] = proc[x]
  BY DEF Inv, Types
<1>3. boot = <<>> /\ proc[p].pgdir \in Frame /\ proc[p].kstack # 0
  BY Alive
<1>4. job[q] = NoJob
  <2>1. Thread(q)
    BY DEF Inv
  <2> QED BY <2>1 DEF Thread, Image
<1>5. Thread(p)'
  <2>1. Dir(job[p].d)' = Dir(j.d)
    BY <1>2 DEF Dir
  <2>2. Dir(Pgdirs[p])' = dir[proc[p].pgdir]
    <3>1. Pgdirs'[p] = proc[p].pgdir /\ proc[p].pgdir # 0
      BY <1>2, <1>3, UsedFrame DEF Pgdirs
    <3> QED BY <1>2, <3>1 DEF Dir
  <2> QED BY <1>2, <2>1, <2>2 DEF Thread
<1>6. Thread(q)'
  <2>1. Dir(job[q].d)' = NoDir
    BY <1>2, <1>4, Idle DEF Dir
  <2>2. Dir(Pgdirs[q])' = Dir(IF r.kstack = 0 THEN 0 ELSE r.pgdir)
    <3>1. Pgdirs'[q] = IF r.kstack = 0 THEN 0 ELSE r.pgdir
      BY <1>2 DEF Pgdirs
    <3> QED BY <1>2, <3>1 DEF Dir
  <2>3. Flow(NoJob) /\ Stage(NoJob, NoDir, r.sz)
    BY IdleJob
  <2> QED BY <1>2, <1>4, <2>1, <2>2, <2>3 DEF Thread
<1>7. ASSUME NEW x \in Pid, x \notin {p, q} PROVE Thread(x)'
  <2>1. Thread(x) /\ job[x].d \in Link /\ Pgdirs[x] \in Link
    BY LinksOf DEF Inv
  <2> QED BY <1>2, <1>7, <2>1, ThreadKept
<1>8. \A x \in Pid : Thread(x)'
  BY <1>5, <1>6, <1>7
<1>9. Booted' /\ \A d \in Frame : Tabled(dir'[d])
  BY <1>2, <1>3 DEF Inv, Booted, bootVars
<1> QED BY <1>1, <1>8, <1>9 DEF Inv

\* ptable.lock is taken, or released.
LEMMA Unlocked ==
    ASSUME Inv, ptable = 0
    PROVE  /\ \A x \in Pid : job[x].op \notin {"fork", "wait"} /\ proc[x].state # "embryo"
           /\ \A x \in Pid : proc[x].state = "zombie" => proc[x].kstack # 0
<1>1. Locks /\ \A x \in Pid : x # 0
  BY DEF Inv, Pid
<1> QED BY <1>1 DEF Locks, Helps

LEMMA Acquired ==
    ASSUME Inv, NEW p \in Pid, NEW q \in Pid, p # q, NEW j, NEW r, job' = [job EXCEPT ![p] = j], proc' = [proc EXCEPT ![q] = r],
           ptable = 0, ptable' = p, j.q = q,
           (j.op = "fork" /\ r.state = "embryo") \/ (j.op = "wait" /\ r.state = "zombie" /\ r.kstack = 0)
    PROVE  Locks' /\ ptable' \in 0 .. NPROC
<1>1. /\ job'[p] = j /\ proc'[q] = r /\ \A x \in Pid : (x # p => job'[x] = job[x]) /\ (x # q => proc'[x] = proc[x])
  BY DEF Inv, Types
<1>2. /\ \A x \in Pid : job[x].op \notin {"fork", "wait"} /\ proc[x].state # "embryo"
      /\ \A x \in Pid : proc[x].state = "zombie" => proc[x].kstack # 0
  BY Unlocked
<1>3. p # 0 /\ p \in 0 .. NPROC
  BY DEF Pid
<1>4. \A x \in Pid : ptable' = x <=> job'[x].op \in {"fork", "wait"}
  BY <1>1, <1>2
<1>5. /\ \A x \in Pid : job'[x].op = "fork" => job'[x].q \in Pid /\ proc'[job'[x].q].state = "embryo"
      /\ \A x \in Pid : job'[x].op = "wait" => job'[x].q \in Pid /\ proc'[job'[x].q].state = "zombie" /\ proc'[job'[x].q].kstack = 0
  BY <1>1, <1>2
<1>6. /\ \A x \in Pid : proc'[x].state = "embryo" => Helps("fork", x)'
      /\ \A x \in Pid : proc'[x].state = "zombie" /\ proc'[x].kstack = 0 => Helps("wait", x)'
  BY <1>1, <1>2, <1>3 DEF Helps
<1> QED BY <1>3, <1>4, <1>5, <1>6 DEF Locks

LEMMA Released ==
    ASSUME Inv, NEW p \in Pid, job[p].op \in {"fork", "wait"}, NEW q, q = job[p].q, NEW j, NEW r, job' = [job EXCEPT ![p] = j],
           proc' = [proc EXCEPT ![q] = r], release(p), j.op \notin {"fork", "wait"}, r.state \in {"run", "unused"}
    PROVE  Locks' /\ ptable' \in 0 .. NPROC
<1>1. ptable = p /\ q \in Pid /\ Locks
  BY DEF Inv, Locks
<1>2. /\ job'[p] = j /\ proc'[q] = r /\ \A x \in Pid : (x # p => job'[x] = job[x]) /\ (x # q => proc'[x] = proc[x])
  BY <1>1 DEF Inv, Types
<1>3. ptable' = 0 /\ 0 \in 0 .. NPROC /\ \A x \in Pid : x # 0
  BY <1>1 DEF release, Pid
<1>4. \A x \in Pid : job'[x].op \notin {"fork", "wait"}
  BY <1>1, <1>2 DEF Locks
<1>5. \A x \in Pid : proc'[x].state # "embryo" /\ ~(proc'[x].state = "zombie" /\ proc'[x].kstack = 0)
  BY <1>1, <1>2 DEF Locks, Helps
<1> QED BY <1>3, <1>4, <1>5 DEF Locks

\* The process that a call makes or frees.
LEMMA Helped ==
    ASSUME Inv, NEW p \in Pid, job[p].op \in {"fork", "wait"}
    PROVE  LET q == job[p].q
           IN  /\ q \in Pid /\ q # p /\ proc[p].state = "run" /\ job[p].pc # "user" /\ job[q] = NoJob
               /\ job[p].op = "fork" => proc[q].state = "embryo" /\ proc[q].kstack # 0 /\ proc[q].pgdir = 0 /\ Pgdirs[q] = 0
               /\ job[p].op = "wait" => proc[q].state = "zombie" /\ proc[q].kstack = 0 /\ Pgdirs[q] = 0
<1> DEFINE q == job[p].q
<1>1. q \in Pid /\ (job[p].op = "fork" => proc[q].state = "embryo") /\ (job[p].op = "wait" => proc[q].state = "zombie" /\ proc[q].kstack = 0)
  BY DEF Inv, Locks
<1>2. job[p].pc # "user"
  BY Free, Idle
<1>3. proc[p].state = "run"
  BY <1>2, Working
<1>4. Thread(q)
  BY <1>1 DEF Inv
<1>5. job[q] = NoJob /\ (proc[q].state = "embryo" => proc[q].pgdir = 0 /\ proc[q].kstack # 0)
  BY <1>1, <1>4 DEF Thread, Image
<1>6. Pgdirs[q] = 0
  BY <1>1, <1>5 DEF Pgdirs
<1> QED BY <1>1, <1>2, <1>3, <1>5, <1>6

LEMMA ForkKeeps == ASSUME Inv, NEW p \in Pid, NEW q \in Pid, Fork(p, q) PROVE Inv'
<1> DEFINE r == [NoProc EXCEPT !.state = "embryo", !.kstack = Head(freelist)]
           j == [NoJob EXCEPT !.op = "fork", !.pc = "dir", !.q = q]
           P == dir[proc[p].pgdir]
           c == Touched(cr3[p], proc[p].pgdir)
           n == Up(proc[p].sz)
<1>1. CanCall(p) /\ Called(p) /\ q = Min({x \in Pid : proc[x].state = "unused"} \cup {NPROC + 1})
      /\ UNCHANGED <<dir, bootVars, panicked, leaked>>
  BY DEF Fork
<1>2. /\ proc[p].state = "run" /\ job[p] = NoJob /\ Below(P, n) /\ Cached(cr3[p], P, n) /\ Taken[p] = 0 /\ n \in Nat
  BY <1>1, Caller, UpIs
<1>3. CASE freelist = <<>>
  <2>1. UNCHANGED <<freelist, proc, job, ptable>>
    BY <1>3 DEF Fork
  <2>2. job' = [job EXCEPT ![p] = NoJob]
    BY <1>2, <2>1 DEF Inv, Types
  <2>3. Flow(NoJob) /\ Stage(NoJob, Dir(NoJob.d), proc[p].sz) /\ NoJob \in JobT
    BY IdleJob, Idle DEF Dir
  <2> QED BY <1>1, <2>1, <2>2, <2>3, Idle, Entered DEF Shrinks
<1>4. CASE freelist # <<>>
  <2>1. /\ ptable = 0 /\ ptable' = p /\ freelist' = Tail(freelist) /\ proc' = [proc EXCEPT ![q] = r] /\ job' = [job EXCEPT ![p] = j]
    BY <1>4 DEF Fork, acquire, kalloc
  <2>2. proc[q].state = "unused"
    <3> DEFINE S == {x \in Pid : proc[x].state = "unused"} \cup {NPROC + 1}
    <3>1. S \in SUBSET Nat /\ S # {}
      BY DEF Pid
    <3>2. q \in S
      <4> HIDE DEF S
      <4> QED BY <1>1, <3>1, MinIn DEF S
    <3>3. q # NPROC + 1
      BY DEF Pid
    <3> QED BY <3>2, <3>3
  <2>3. q # p
    BY <1>2, <2>2
  <2>4. proc[q] = NoProc
    <3>1. Thread(q)
      BY DEF Inv
    <3> QED BY <2>2, <3>1 DEF Thread, Image
  <2>5. Typed(freelist, cpus, leaked, Kstacks, Pgdirs, Taken, Hands, dir)
        /\ OwnsNow(freelist, cpus, leaked, Unfreed, Kstacks, Pgdirs, Taken, Hands, dir)
    BY Holding
  <2>6. Kstacks[q] = 0 /\ Pgdirs[q] = 0 /\ Hands[p] = 0
    <3>1. NoProc.kstack = 0
      BY DEF NoProc
    <3>2. Kstacks[q] = 0 /\ Pgdirs[q] = 0
      BY <2>4, <3>1 DEF Kstacks, Pgdirs
    <3>3. Hands[p] = 0
      BY <1>2, Idle DEF Hands
    <3> QED BY <3>2, <3>3
  <2>7. Head(freelist) \in Frame /\ Head(freelist) \in Link /\ Tail(freelist) \in Seq(Frame)
    <3>1. freelist \in Seq(Frame)
      BY DEF Inv, Types
    <3>2. Head(freelist) \in Frame /\ Tail(freelist) \in Seq(Frame)
      BY <1>4, <3>1
    <3> QED BY <3>2 DEF Frame, Link
  <2>8. r \in ProcT /\ r.state = "embryo" /\ r.kstack = Head(freelist) /\ r.pgdir = 0 /\ r.kstack # 0 /\ r # NoProc
    <3>1. Head(freelist) # 0
      BY <2>7, UsedFrame
    <3>2. 0 \in Link /\ 0 \in 0 .. KERNBASE /\ 0 \in 0 .. NPROC
      BY DEF Link
    <3> QED BY <2>7, <3>1, <3>2 DEF ProcT, NoProc
  <2>9. NoJob \in JobT /\ q \in 0 .. NPROC
    BY IdleJob DEF Pid
  <2>10. j \in JobT
    BY <2>9 DEF JobT, Labels, Ops
  <2>11. /\ j.op = "fork" /\ j.pc = "dir" /\ j.q = q /\ j.d = 0 /\ j.mem = 0 /\ j.a = 0 /\ j.from = 0 /\ j.next = ""
    BY DEF NoJob
  <2> HIDE DEF j, r
  <2>12. Owned'
    <3>1. Kstacks' = [Kstacks EXCEPT ![q] = Head(freelist)] /\ Pgdirs' = [Pgdirs EXCEPT ![q] = 0]
          /\ Taken' = [Taken EXCEPT ![p] = 0] /\ Hands' = [Hands EXCEPT ![p] = 0]
      <4>1. Types
        BY DEF Inv
      <4>2. /\ Kstacks' = [Kstacks EXCEPT ![q] = r.kstack] /\ Pgdirs' = [Pgdirs EXCEPT ![q] = IF r.kstack = 0 THEN 0 ELSE r.pgdir]
            /\ Taken' = [Taken EXCEPT ![p] = IF j.op = "grow" THEN 0 ELSE j.d] /\ Hands' = [Hands EXCEPT ![p] = j.mem]
        BY <2>1, <4>1, HoldersBoth
      <4> QED BY <2>8, <2>11, <4>2
    <3>2. Pgdirs' = Pgdirs /\ Taken' = Taken /\ Hands' = Hands
      <4>1. Pgdirs \in [Pid -> Link] /\ Taken \in [Pid -> Link] /\ Hands \in [Pid -> Link]
        BY <2>5 DEF Typed
      <4> QED BY <1>2, <2>6, <3>1, <4>1
    <3>3. OwnsNow(Tail(freelist), cpus, leaked, Unfreed, [Kstacks EXCEPT ![q] = Head(freelist)], Pgdirs, Taken, Hands, dir)
      BY <1>4, <2>5, <2>6, TakeKstack
    <3> QED BY <1>1, <2>1, <3>1, <3>2, <3>3 DEF Owned, Unfreed, bootVars
  <2>13. Locks' /\ ptable' \in 0 .. NPROC
    BY <2>1, <2>3, <2>8, <2>11, Acquired
  <2>14. Flow(j) /\ Stage(j, Dir(j.d), proc[p].sz)
    <3>1. 0 \div PGSIZE = 0 /\ 0 * PGSIZE = 0
      OBVIOUS
    <3>2. Flow(j) /\ Where(j, 0, Dir(j.d), proc[p].sz)
      BY <2>11 DEF Flow, Where
    <3> QED BY <2>11, <3>1, <3>2 DEF Stage
  <2>15. /\ P \in DirT /\ proc[p].pgdir \in Frame /\ cr3[p] \in SpaceT /\ cr3[p].d = proc[p].pgdir /\ Full(P)
         /\ proc[p].kstack # 0
    BY <1>2, Alive
  <2>16. c \in SpaceT /\ c.d = proc[p].pgdir /\ Cached(c, P, n)
    BY <1>2, <2>15, TouchedIs
  <2>17. /\ cr3' = [cr3 EXCEPT ![p] = c] /\ before' = [before EXCEPT ![p] = P.pte] /\ P.pte \in [Page -> Link]
    BY <1>1, <2>15 DEF Called, Touched, Inv, Types, DirT
  <2>18. /\ cr3' \in [Pid -> SpaceT] /\ before' \in [Pid -> [Page -> Link]] /\ cr3'[p] = c
         /\ \A x \in Pid : x \notin {p, q} => cr3'[x] = cr3[x] /\ before'[x] = before[x]
    BY <2>16, <2>17 DEF Inv, Types
  <2>19. Image(proc[p], j, P, cr3'[p], before'[p])
    <3> DEFINE b == before'[p]
    <3>1. proc[p].pgdir # 0
      BY <2>15, UsedFrame
    <3> HIDE DEF P, c, b
    <3>2. Image(proc[p], j, P, c, b)
      BY <1>2, <2>11, <2>15, <2>16, <3>1 DEF Image, Shrinks
    <3> QED BY <2>18, <3>2 DEF b
  <2>20. Image(r, NoJob, Dir(IF r.kstack = 0 THEN 0 ELSE r.pgdir), cr3'[q], before'[q])
    BY <2>8, Idle DEF Image, Shrinks
  <2>21. freelist' \in Seq(Frame) /\ proc[q].state # "run"
    BY <2>1, <2>2, <2>7
  <2> QED BY <1>1, <1>2, <2>1, <2>3, <2>8, <2>10, <2>12, <2>13, <2>14, <2>18, <2>19, <2>20, <2>21, Paired
<1> QED BY <1>3, <1>4

LEMMA ExitKeeps == ASSUME Inv, NEW p \in Pid, Exit(p) PROVE Inv'
<1>1. /\ proc[p].state = "run" /\ job[p].pc = "user" /\ UNCHANGED <<freelist, dir, job, ptable, bootVars, panicked, history>>
      /\ proc' = [q \in Pid |-> IF q = p THEN [proc[q] EXCEPT !.state = "zombie"]
                                ELSE IF proc[q].parent = p THEN [proc[q] EXCEPT !.parent = 1] ELSE proc[q]]
      /\ cr3' = [cr3 EXCEPT ![p] = NoSpace]
  BY DEF Exit
<1>2. /\ boot = <<>> /\ proc[p].pgdir \in Frame /\ proc[p].kstack # 0 /\ job[p] = NoJob /\ Full(dir[proc[p].pgdir]) /\ proc[p] \in ProcT
      /\ Image(proc[p], job[p], dir[proc[p].pgdir], cr3[p], before[p])
  BY <1>1, Alive, Free
<1>3. /\ proc \in [Pid -> ProcT] /\ p # 0 /\ 1 \in 0 .. NPROC /\ Types
  BY DEF Inv, Types, Pid
<1>4. \A x \in Pid : /\ proc'[x] \in ProcT /\ proc'[x].kstack = proc[x].kstack /\ proc'[x].pgdir = proc[x].pgdir /\ proc'[x].sz = proc[x].sz
                     /\ (x # p => proc'[x].state = proc[x].state) /\ (x = p => proc'[x].state = "zombie")
  <2> SUFFICES ASSUME NEW x \in Pid
               PROVE  /\ proc'[x] \in ProcT /\ proc'[x].kstack = proc[x].kstack /\ proc'[x].pgdir = proc[x].pgdir
                      /\ proc'[x].sz = proc[x].sz /\ (x # p => proc'[x].state = proc[x].state) /\ (x = p => proc'[x].state = "zombie")
    OBVIOUS
  <2>1. proc[x] \in ProcT
    BY <1>3
  <2>2. CASE x = p
    <3>1. proc'[x] = [proc[x] EXCEPT !.state = "zombie"]
      BY <1>1, <2>2
    <3> QED BY <2>1, <2>2, <3>1 DEF ProcT
  <2>3. CASE x # p
    <3>1. proc'[x] = [proc[x] EXCEPT !.parent = 1] \/ proc'[x] = proc[x]
      BY <1>1, <2>3
    <3> QED BY <1>3, <2>1, <2>3, <3>1 DEF ProcT
  <2> QED BY <2>2, <2>3
<1>5. Kstacks' = Kstacks /\ Pgdirs' = Pgdirs /\ Taken' = Taken /\ Hands' = Hands
  BY <1>1, <1>4 DEF Kstacks, Pgdirs, Taken, Hands
<1>6. Owned'
  BY <1>1, <1>5 DEF Inv, Owned, Unfreed, bootVars, history
<1>7. NoSpace \in SpaceT
  BY DEF NoSpace, SpaceT, Link
<1>8. Types'
  <2>1. proc' \in [Pid -> ProcT]
    BY <1>1, <1>4
  <2>2. cr3' \in [Pid -> SpaceT]
    BY <1>1, <1>7 DEF Inv, Types
  <2> QED BY <1>1, <2>1, <2>2 DEF Inv, Types, bootVars, history
<1>9. Locks'
  <2>1. /\ ptable' = ptable /\ job' = job /\ \A x \in Pid : proc'[x].kstack = proc[x].kstack /\ (x # p => proc'[x].state = proc[x].state)
        /\ proc'[p].state = "zombie" /\ proc'[p].kstack # 0
    BY <1>1, <1>2, <1>4
  <2>2. Locks
    BY DEF Inv
  <2>3. \A x \in Pid : job[x].op \in {"fork", "wait"} => job[x].q # p
    BY <1>1, <2>2 DEF Locks
  <2>4. \A op \in {"fork", "wait"}, x \in Pid : Helps(op, x) => Helps(op, x)'
    BY <2>1 DEF Helps
  <2> QED BY <2>1, <2>2, <2>3, <2>4 DEF Locks
<1>10. ASSUME NEW x \in Pid PROVE Thread(x)'
  <2>1. Thread(x) /\ job'[x] = job[x] /\ dir' = dir /\ Pgdirs'[x] = Pgdirs[x] /\ proc'[x].sz = proc[x].sz /\ before'[x] = before[x]
    BY <1>1, <1>4, <1>5 DEF Inv, history
  <2>2. Dir(job[x].d)' = Dir(job[x].d) /\ Dir(Pgdirs[x])' = Dir(Pgdirs[x])
    BY <2>1 DEF Dir
  <2>3. Image(proc'[x], job[x], Dir(Pgdirs[x]), cr3'[x], before[x])
    <3>1. CASE x = p
      <4> DEFINE r == proc'[p]
                 P == dir[proc[p].pgdir]
                 c == cr3'[p]
                 b == before[p]
      <4>1. Pgdirs[p] = proc[p].pgdir /\ proc[p].pgdir # 0
        BY <1>2, UsedFrame DEF Pgdirs
      <4>2. Dir(Pgdirs[x]) = P
        BY <3>1, <4>1 DEF Dir
      <4>3. \E n \in 0 .. NPAGE : Below(P, n)
        <5>1. Below(P, 0) \/ Below(P, Up(proc[p].sz))
          BY <1>1, <1>2, Idle DEF Image
        <5>2. proc[p].sz \in 0 .. KERNBASE
          BY <1>2 DEF ProcT
        <5>3. \A m \in 0 .. KERNBASE : m \in Nat /\ m <= KERNBASE
          OBVIOUS
        <5>4. Up(proc[p].sz) \in 0 .. NPAGE
          BY <5>2, <5>3, UpPage
        <5>5. 0 \in 0 .. NPAGE
          BY Space
        <5> QED BY <5>1, <5>4, <5>5
      <4>4. r.state = "zombie" /\ r.pgdir # 0 /\ Full(P)
        BY <1>2, <1>4, <4>1
      <4> HIDE DEF r, P, c, b
      <4>5. Image(r, NoJob, P, c, b)
        BY <4>3, <4>4, Idle DEF Image, Shrinks
      <4> QED BY <1>2, <3>1, <4>2, <4>5 DEF r, c, b
    <3>2. CASE x # p
      <4> DEFINE P == Dir(Pgdirs[x])
                 c == cr3[x]
                 b == before[x]
                 j == job[x]
                 r == proc[x]
                 e == proc'[x]
      <4>1. Image(r, j, P, c, b) /\ cr3'[x] = c
        BY <1>1, <1>3, <2>1, <3>2 DEF Thread, Types
      <4>2. e.state = r.state /\ e.kstack = r.kstack /\ e.pgdir = r.pgdir /\ e.sz = r.sz
        BY <1>4, <3>2
      <4>3. e.state = "unused" => e = NoProc
        <5>1. r.state = "unused" => r = NoProc
          BY <4>1 DEF Image
        <5>2. r = NoProc => e = r
          BY <1>1, <1>3, <3>2 DEF NoProc
        <5> QED BY <4>2, <5>1, <5>2
      <4> HIDE DEF P, c, b, j, r, e
      <4>4. Image(e, j, P, c, b)
        BY <4>1, <4>2, <4>3 DEF Image, Shrinks
      <4> QED BY <4>1, <4>4 DEF P, b, j, e
    <3> QED BY <3>1, <3>2
  <2>4. Flow(job[x]) /\ Stage(job[x], Dir(job[x].d), proc[x].sz)
    BY <2>1 DEF Thread
  <2> QED BY <2>1, <2>2, <2>3, <2>4 DEF Thread
<1>11. Booted' /\ \A d \in Frame : Tabled(dir'[d])
  BY <1>1, <1>2 DEF Inv, Booted, bootVars
<1> QED BY <1>6, <1>8, <1>9, <1>10, <1>11 DEF Inv

LEMMA WaitKeeps == ASSUME Inv, NEW p \in Pid, NEW q \in Pid, Wait(p, q) PROVE Inv'
<1> DEFINE r == [proc[q] EXCEPT !.kstack = 0]
           d == proc[q].pgdir
           j == [NoJob EXCEPT !.op = "wait", !.q = q, !.pc = "dealloc", !.d = d, !.to = KERNBASE, !.next = "tables"]
           f == proc[q].kstack
           P == dir[proc[p].pgdir]
           n == Up(proc[p].sz)
           c == cr3[p]
           b == before[p]
<1>1. /\ CanCall(p) /\ proc[q].state = "zombie" /\ ptable = 0 /\ ptable' = p /\ freelist' = <<f>> \o freelist
      /\ proc' = [proc EXCEPT ![q] = r] /\ job' = [job EXCEPT ![p] = j] /\ UNCHANGED <<dir, cr3, bootVars, panicked, history>>
  BY DEF Wait, acquire, kfree
<1>2. /\ proc[p].state = "run" /\ job[p] = NoJob /\ Below(P, n) /\ Cached(c, P, n) /\ Taken[p] = 0
  BY <1>1, Caller
<1>3. q # p
  BY <1>1, <1>2
<1>4. f # 0
  BY <1>1, Unlocked
<1>5. /\ d # 0 /\ d \in Link /\ d \in Frame /\ Full(dir[d]) /\ (\E m \in 0 .. NPAGE : Below(dir[d], m)) /\ Dir(d) = dir[d]
      /\ Pgdirs[q] = d /\ proc[q] \in ProcT /\ f \in Frame
  <2>1. Thread(q) /\ proc[q] \in ProcT
    BY DEF Inv, Types
  <2>2. d # 0 /\ Full(Dir(Pgdirs[q])) /\ \E m \in 0 .. NPAGE : Below(Dir(Pgdirs[q]), m)
    BY <1>1, <1>4, <2>1 DEF Thread, Image
  <2>3. d \in Link /\ f \in Link
    BY <2>1 DEF ProcT
  <2>4. Pgdirs[q] = d
    BY <1>4 DEF Pgdirs
  <2>5. d \in Frame /\ f \in Frame
    BY <1>4, <2>2, <2>3 DEF Link, Frame
  <2>6. Dir(d) = dir[d]
    BY <2>2 DEF Dir
  <2> QED BY <2>1, <2>2, <2>3, <2>4, <2>5, <2>6
<1>6. NoJob \in JobT /\ q \in 0 .. NPROC
  BY IdleJob DEF Pid
<1>7. j \in JobT
  BY <1>5, <1>6 DEF JobT, Labels, Ops, Nexts
<1>8. /\ j.op = "wait" /\ j.pc = "dealloc" /\ j.q = q /\ j.d = d /\ j.mem = 0 /\ j.a = 0 /\ j.from = 0 /\ j.to = KERNBASE
      /\ j.next = "tables"
  BY DEF NoJob
<1>9. /\ r \in ProcT /\ r.state = "zombie" /\ r.kstack = 0
  <2>1. 0 \in Link
    BY DEF Link
  <2> QED BY <1>1, <1>5, <2>1 DEF ProcT
<1> HIDE DEF j, r
<1>10. Locks' /\ ptable' \in 0 .. NPROC
  BY <1>1, <1>3, <1>8, <1>9, Acquired
<1>11. freelist \in Seq(Frame) /\ freelist' \in Seq(Frame)
  BY <1>1, <1>5 DEF Inv, Types
<1>12. Owned'
  <2>1. Types
    BY DEF Inv
  <2>2. /\ Kstacks' = [Kstacks EXCEPT ![q] = r.kstack] /\ Pgdirs' = [Pgdirs EXCEPT ![q] = IF r.kstack = 0 THEN 0 ELSE r.pgdir]
        /\ Taken' = [Taken EXCEPT ![p] = IF j.op = "grow" THEN 0 ELSE j.d] /\ Hands' = [Hands EXCEPT ![p] = j.mem]
    BY <1>1, <2>1, HoldersBoth
  <2>3. /\ Kstacks' = [Kstacks EXCEPT ![q] = 0] /\ Pgdirs' = [Pgdirs EXCEPT ![q] = 0]
        /\ Taken' = [Taken EXCEPT ![p] = d] /\ Hands' = [Hands EXCEPT ![p] = 0]
    BY <1>8, <1>9, <2>2
  <2>4. Typed(freelist, cpus, leaked, Kstacks, Pgdirs, Taken, Hands, dir)
        /\ OwnsNow(freelist, cpus, leaked, Unfreed, Kstacks, Pgdirs, Taken, Hands, dir)
    BY Holding
  <2>5. Hands' = Hands
    <3>1. Hands \in [Pid -> Link]
      BY <2>4 DEF Typed
    <3>2. Hands[p] = 0
      BY <1>2, Idle DEF Hands
    <3> QED BY <2>3, <3>1, <3>2
  <2>6. Kstacks[q] = f
    BY DEF Kstacks
  <2>7. OwnsNow(<<f>> \o freelist, cpus, leaked, Unfreed, [Kstacks EXCEPT ![q] = 0], Pgdirs, Taken, Hands, dir)
    BY <1>4, <2>4, <2>6, KstackToFree
  <2>8. Typed(<<f>> \o freelist, cpus, leaked, [Kstacks EXCEPT ![q] = 0], Pgdirs, Taken, Hands, dir)
    <3>1. 0 \in Link
      BY DEF Link
    <3> QED BY <1>1, <1>11, <2>4, <3>1 DEF Typed
  <2>9. OwnsNow(<<f>> \o freelist, cpus, leaked, Unfreed, [Kstacks EXCEPT ![q] = 0], [Pgdirs EXCEPT ![q] = 0],
                [Taken EXCEPT ![p] = Pgdirs[q]], Hands, dir)
    BY <1>2, <1>5, <2>7, <2>8, TakeOver
  <2> QED BY <1>1, <1>5, <2>3, <2>5, <2>9 DEF Owned, Unfreed, bootVars, history
<1>13. Flow(j) /\ Stage(j, Dir(j.d), proc[p].sz)
  <2>1. 0 \div PGSIZE = 0 /\ 0 * PGSIZE = 0
    OBVIOUS
  <2>2. Flow(j)
    BY <1>8 DEF Flow
  <2>3. Where(j, 0, dir[d], proc[p].sz)
    <3>1. Up(KERNBASE) = NPAGE /\ KERNBASE <= KERNBASE /\ 0 <= 0
      BY UpOrder
    <3>2. PICK m \in 0 .. NPAGE : Below(dir[d], m)
      BY <1>5
    <3>3. Gap(dir[d], 0, 0, m)
      <4>1. \A g \in Page : g < m <=> (g < 0 \/ (0 <= g /\ g < m))
        BY DEF Page
      <4> QED BY <3>2, <4>1 DEF Below, Gap
    <3> HIDE DEF d
    <3> QED BY <1>5, <1>8, <3>1, <3>2, <3>3 DEF Where
  <2> QED BY <1>5, <1>8, <2>1, <2>2, <2>3 DEF Stage
<1>14. /\ cr3' \in [Pid -> SpaceT] /\ before' \in [Pid -> [Page -> Link]] /\ cr3' = cr3 /\ before' = before /\ leaked' = leaked
       /\ UNCHANGED <<bootVars, panicked, leaked, dir>>
  BY <1>1 DEF Inv, Types, history
<1>15. Image(proc[p], j, P, c, b)
  <2>1. /\ proc[p].pgdir # 0 /\ Full(P) /\ c.d = proc[p].pgdir /\ proc[p].kstack # 0
    BY <1>2, Alive, UsedFrame
  <2> HIDE DEF P, c, b
  <2> QED BY <1>2, <1>8, <2>1 DEF Image, Shrinks
<1>16. Image(r, NoJob, Dir(IF r.kstack = 0 THEN 0 ELSE r.pgdir), cr3[q], before[q])
  BY <1>9, Idle DEF Image, Shrinks
<1>17. Image(proc[p], j, dir[proc[p].pgdir], cr3'[p], before'[p])
       /\ Image(r, NoJob, Dir(IF r.kstack = 0 THEN 0 ELSE r.pgdir), cr3'[q], before'[q])
       /\ \A x \in Pid : x \notin {p, q} => cr3'[x] = cr3[x] /\ before'[x] = before[x]
  BY <1>14, <1>15, <1>16
<1>18. proc[q].state # "run"
  BY <1>1
<1> QED BY <1>1, <1>2, <1>3, <1>7, <1>9, <1>10, <1>11, <1>12, <1>13, <1>14, <1>17, <1>18, Paired

\* The call is over: what its process is then.
LEMMA Relaxed ==
    ASSUME NEW r, NEW j, NEW P, NEW c, NEW b, Image(r, j, P, c, b), j.op \in {"fork", "wait"}, r.state = "run"
    PROVE  Image(r, NoJob, P, c, b)
BY Idle DEF Image, Shrinks

\* A process gets another page.
Put(h, p, f) == [h EXCEPT ![p] = f]
LEMMA HoldersEnd ==
    ASSUME NEW p \in Pid, NEW q \in Pid, job'[p] = NoJob,
           \A x \in Pid : x # p => job'[x] = job[x], \A x \in Pid : x # q => proc'[x] = proc[x]
    PROVE  /\ Kstacks' = Put(Kstacks, q, proc'[q].kstack) /\ Pgdirs' = Put(Pgdirs, q, IF proc'[q].kstack = 0 THEN 0 ELSE proc'[q].pgdir)
           /\ Taken' = Put(Taken, p, 0) /\ Hands' = Put(Hands, p, 0)
<1>1. /\ Kstacks' = [Kstacks EXCEPT ![q] = proc'[q].kstack]
      /\ Pgdirs' = [Pgdirs EXCEPT ![q] = IF proc'[q].kstack = 0 THEN 0 ELSE proc'[q].pgdir]
      /\ Taken' = [Taken EXCEPT ![p] = IF job'[p].op = "grow" THEN 0 ELSE job'[p].d] /\ Hands' = [Hands EXCEPT ![p] = job'[p].mem]
  BY HoldersMove
<1>2. job'[p].op # "grow" /\ job'[p].d = 0 /\ job'[p].mem = 0
  BY Idle
<1> QED BY <1>1, <1>2 DEF Put

\* A call that holds ptable.lock ends.
LEMMA Ended ==
    ASSUME Inv, NEW p \in Pid, job[p].op \in {"fork", "wait"}, NEW q, q = job[p].q, NEW r \in ProcT, r.state \in {"run", "unused"},
           job' = [job EXCEPT ![p] = NoJob], proc' = [proc EXCEPT ![q] = r], release(p),
           UNCHANGED <<dir, bootVars, panicked, leaked, before>>, freelist' \in Seq(Frame),
           cr3' \in [Pid -> SpaceT], \A x \in Pid : x # q => cr3'[x] = cr3[x],
           OwnsNow(freelist', cpus, leaked, Unfreed, Put(Kstacks, q, r.kstack),
                   Put(Pgdirs, q, IF r.kstack = 0 THEN 0 ELSE r.pgdir), Put(Taken, p, 0), Put(Hands, p, 0), dir),
           Image(r, NoJob, Dir(IF r.kstack = 0 THEN 0 ELSE r.pgdir), cr3'[q], before[q])
    PROVE  Inv'
<1>1. q \in Pid /\ q # p /\ proc[p].state = "run" /\ job[p].pc # "user" /\ proc[q].state # "run"
  BY Helped
<1>2. Image(proc[p], job[p], dir[proc[p].pgdir], cr3[p], before[p])
  BY <1>1, Alive
<1>3. Image(proc[p], NoJob, dir[proc[p].pgdir], cr3[p], before[p])
  BY <1>1, <1>2, Relaxed
<1>4. NoJob \in JobT /\ Flow(NoJob) /\ Stage(NoJob, Dir(NoJob.d), proc[p].sz)
  BY IdleJob, Idle DEF Dir
<1>5. Locks' /\ ptable' \in 0 .. NPROC
  BY Released, Idle
<1>6. Owned'
  <2>1. proc'[q] = r /\ job'[p] = NoJob /\ (\A x \in Pid : x # q => proc'[x] = proc[x]) /\ (\A x \in Pid : x # p => job'[x] = job[x])
    BY <1>1 DEF Inv, Types
  <2>2. /\ Kstacks' = Put(Kstacks, q, r.kstack) /\ Pgdirs' = Put(Pgdirs, q, IF r.kstack = 0 THEN 0 ELSE r.pgdir)
        /\ Taken' = Put(Taken, p, 0) /\ Hands' = Put(Hands, p, 0)
    <3>1. /\ Kstacks' = Put(Kstacks, q, proc'[q].kstack) /\ Pgdirs' = Put(Pgdirs, q, IF proc'[q].kstack = 0 THEN 0 ELSE proc'[q].pgdir)
          /\ Taken' = Put(Taken, p, 0) /\ Hands' = Put(Hands, p, 0)
      BY <1>1, <2>1, HoldersEnd
    <3> QED BY <2>1, <3>1
  <2> QED BY <2>2 DEF Owned, Unfreed, bootVars
<1>7. /\ before' \in [Pid -> [Page -> Link]] /\ \A x \in Pid : x \notin {p, q} => cr3'[x] = cr3[x] /\ before'[x] = before[x]
  BY DEF Inv, Types
<1>8. Image(proc[p], NoJob, dir[proc[p].pgdir], cr3'[p], before'[p])
      /\ Image(r, NoJob, Dir(IF r.kstack = 0 THEN 0 ELSE r.pgdir), cr3'[q], before'[q])
  BY <1>1, <1>3
<1> QED BY <1>1, <1>4, <1>5, <1>6, <1>7, <1>8, Paired

\* What a finished fork() or wait() had.
LEMMA InPair ==
    ASSUME Inv, NEW p \in Pid, job[p].pc \in {"born", "unfork", "reaped"}
    PROVE  LET j == job[p]
           IN  /\ j.op = (IF j.pc = "reaped" THEN "wait" ELSE "fork") /\ j.mem = 0 /\ Hands[p] = 0 /\ Taken[p] = j.d
               /\ j.pc \in {"unfork", "reaped"} => j.d = 0
               /\ j.pc = "born" => j.d \in Frame /\ Dir(j.d) = dir[j.d] /\ Full(dir[j.d]) /\ Below(dir[j.d], Up(proc[p].sz))
<1> DEFINE j == job[p]
           k == job[p].a \div PGSIZE
<1>1. /\ Where(j, k, Dir(j.d), proc[p].sz) /\ Flow(j) /\ j \in JobT /\ j.op # ""
  BY Here
<1>2. j.pc \in {"born", "unfork", "reaped"} /\ j.op \in Ops /\ j.d \in Link
  BY <1>1 DEF JobT
<1> HIDE DEF k
<1>3. j.op = (IF j.pc = "reaped" THEN "wait" ELSE "fork")
  BY <1>1, <1>2 DEF Flow, Ops
<1>4. j.mem = 0 /\ (j.d = 0 <=> j.pc \in {"unfork", "reaped"}) /\ (j.pc = "born" => Full(Dir(j.d)) /\ Below(Dir(j.d), Up(proc[p].sz)))
  BY <1>1, <1>2 DEF Where
<1>5. Hands[p] = 0 /\ Taken[p] = j.d
  BY <1>3, <1>4 DEF Hands, Taken
<1>6. j.pc = "born" => j.d \in Frame /\ Dir(j.d) = dir[j.d]
  BY <1>2, <1>4 DEF Link, Frame, Dir
<1> QED BY <1>3, <1>4, <1>5, <1>6

LEMMA BornKeeps == ASSUME Inv, NEW p \in Pid, Born(p) PROVE Inv'
<1> DEFINE q == job[p].q
           d == job[p].d
           r == [proc[q] EXCEPT !.state = "run", !.pgdir = d, !.sz = proc[p].sz, !.parent = p]
           c == Fresh(d)
           P == dir[d]
<1>1. /\ job[p].pc = "born" /\ release(p) /\ cr3' = [cr3 EXCEPT ![q] = c] /\ job' = [job EXCEPT ![p] = NoJob]
      /\ proc' = [proc EXCEPT ![q] = r] /\ UNCHANGED <<freelist, dir, bootVars, panicked, history>>
  BY DEF Born, At, switchuvm, Go, Fresh
<1>2. job[p].op = "fork" /\ Hands[p] = 0 /\ Taken[p] = d /\ d \in Frame /\ Dir(d) = P /\ Full(P) /\ Below(P, Up(proc[p].sz))
  BY <1>1, InPair
<1>3. q \in Pid /\ q # p /\ proc[q].state = "embryo" /\ proc[q].kstack # 0 /\ Pgdirs[q] = 0
  BY <1>2, Helped
<1>4. /\ proc[p] \in ProcT /\ proc[q] \in ProcT /\ d \in Link /\ d # 0 /\ p \in 0 .. NPROC
  <2>1. d # 0
    BY <1>2, UsedFrame
  <2> QED BY <1>2, <1>3, <2>1 DEF Inv, Types, Link, Frame, Pid
<1>5. r \in ProcT /\ r.state = "run" /\ r.kstack = proc[q].kstack /\ r.pgdir = d /\ r.sz = proc[p].sz /\ r.kstack # 0
  BY <1>3, <1>4 DEF ProcT
<1>6. c \in SpaceT /\ c.d = d /\ \A Q, m : Cached(c, Q, m)
  BY <1>2, FreshIs
<1> HIDE DEF r, c
<1>7. /\ cr3' \in [Pid -> SpaceT] /\ cr3'[q] = c /\ \A x \in Pid : x # q => cr3'[x] = cr3[x]
  BY <1>1, <1>3, <1>6 DEF Inv, Types
<1>8. Image(r, NoJob, Dir(IF r.kstack = 0 THEN 0 ELSE r.pgdir), cr3'[q], before[q])
  <2> DEFINE b == before[q]
  <2>1. Dir(IF r.kstack = 0 THEN 0 ELSE r.pgdir) = P /\ r.pgdir # 0 /\ c.d = r.pgdir /\ Below(P, Up(r.sz)) /\ Full(P)
        /\ Cached(c, P, Up(r.sz))
    BY <1>2, <1>4, <1>5, <1>6
  <2> HIDE DEF P, b
  <2>2. Image(r, NoJob, P, c, b)
    BY <1>5, <2>1, Idle DEF Image, Shrinks
  <2> QED BY <1>7, <2>1, <2>2 DEF b
<1>9. OwnsNow(freelist, cpus, leaked, Unfreed, Put(Kstacks, q, r.kstack), Put(Pgdirs, q, d), Put(Taken, p, 0), Put(Hands, p, 0), dir)
  <2>1. Typed(freelist, cpus, leaked, Kstacks, Pgdirs, Taken, Hands, dir)
        /\ OwnsNow(freelist, cpus, leaked, Unfreed, Kstacks, Pgdirs, Taken, Hands, dir)
    BY Holding
  <2>2. OwnsNow(freelist, cpus, leaked, Unfreed, Kstacks, [Pgdirs EXCEPT ![q] = Taken[p]], [Taken EXCEPT ![p] = 0], Hands, dir)
    BY <1>2, <1>3, <1>4, <2>1, Inherit
  <2>3. [Kstacks EXCEPT ![q] = r.kstack] = Kstacks /\ [Hands EXCEPT ![p] = 0] = Hands
    <3>1. Kstacks \in [Pid -> Link] /\ Hands \in [Pid -> Link] /\ Kstacks[q] = r.kstack
      BY <1>3, <1>5, <2>1 DEF Typed, Kstacks
    <3> QED BY <1>2, <3>1
  <2> QED BY <1>2, <2>2, <2>3 DEF Put
<1>10. OwnsNow(freelist', cpus, leaked, Unfreed, Put(Kstacks, q, r.kstack), Put(Pgdirs, q, IF r.kstack = 0 THEN 0 ELSE r.pgdir),
               Put(Taken, p, 0), Put(Hands, p, 0), dir)
       /\ freelist' \in Seq(Frame) /\ UNCHANGED <<dir, bootVars, panicked, leaked, before>>
  BY <1>1, <1>5, <1>9 DEF Inv, Types, history
<1> QED BY <1>1, <1>2, <1>5, <1>7, <1>8, <1>10, Ended

\* A process goes back to the table.
LEMMA NoProcIs ==
    /\ NoProc \in ProcT /\ NoProc.state = "unused" /\ NoProc.kstack = 0 /\ NoProc.pgdir = 0
    /\ \A P, c, b : Image(NoProc, NoJob, P, c, b)
<1>1. 0 \in Link /\ 0 \in 0 .. KERNBASE /\ 0 \in 0 .. NPROC
  BY DEF Link
<1>2. NoProc \in ProcT /\ NoProc.state = "unused" /\ NoProc.kstack = 0 /\ NoProc.pgdir = 0
  BY <1>1 DEF NoProc, ProcT
<1>3. \A P, c, b : Image(NoProc, NoJob, P, c, b)
  BY <1>2, Idle DEF Image, Shrinks
<1> QED BY <1>2, <1>3

LEMMA UnforkKeeps == ASSUME Inv, NEW p \in Pid, Unfork(p) PROVE Inv'
<1> DEFINE q == job[p].q
           f == proc[q].kstack
<1>1. /\ job[p].pc = "unfork" /\ release(p) /\ job' = [job EXCEPT ![p] = NoJob] /\ freelist' = <<f>> \o freelist
      /\ proc' = [proc EXCEPT ![q] = NoProc] /\ UNCHANGED <<dir, cr3, bootVars, panicked, history>>
  BY DEF Unfork, At, Go, kfree
<1>2. job[p].op = "fork" /\ Hands[p] = 0 /\ Taken[p] = 0
  BY <1>1, InPair
<1>3. q \in Pid /\ f # 0 /\ Pgdirs[q] = 0
  BY <1>2, Helped
<1>4. f \in Frame /\ freelist \in Seq(Frame)
  <2>1. proc[q] \in ProcT /\ freelist \in Seq(Frame)
    BY <1>3 DEF Inv, Types
  <2>2. f \in Link
    BY <2>1 DEF ProcT
  <2> HIDE DEF f
  <2> QED BY <1>3, <2>1, <2>2 DEF Link, Frame
<1>5. freelist' \in Seq(Frame) /\ cr3' \in [Pid -> SpaceT] /\ cr3' = cr3 /\ UNCHANGED <<dir, bootVars, panicked, leaked, before>>
  BY <1>1, <1>4 DEF Inv, Types, history
<1>6. OwnsNow(freelist', cpus, leaked, Unfreed, Put(Kstacks, q, 0), Put(Pgdirs, q, 0), Put(Taken, p, 0), Put(Hands, p, 0), dir)
  <2>1. Typed(freelist, cpus, leaked, Kstacks, Pgdirs, Taken, Hands, dir)
        /\ OwnsNow(freelist, cpus, leaked, Unfreed, Kstacks, Pgdirs, Taken, Hands, dir)
    BY Holding
  <2>2. Kstacks[q] = f
    BY <1>3 DEF Kstacks
  <2>3. OwnsNow(<<f>> \o freelist, cpus, leaked, Unfreed, [Kstacks EXCEPT ![q] = 0], Pgdirs, Taken, Hands, dir)
    BY <1>3, <2>1, <2>2, KstackToFree
  <2>4. [Pgdirs EXCEPT ![q] = 0] = Pgdirs /\ [Taken EXCEPT ![p] = 0] = Taken /\ [Hands EXCEPT ![p] = 0] = Hands
    <3>1. Pgdirs \in [Pid -> Link] /\ Taken \in [Pid -> Link] /\ Hands \in [Pid -> Link]
      BY <2>1 DEF Typed
    <3> QED BY <1>2, <1>3, <3>1
  <2> QED BY <1>1, <2>3, <2>4 DEF Put
<1> DEFINE r == NoProc
<1>7. /\ r \in ProcT /\ r.state \in {"run", "unused"} /\ r.kstack = 0 /\ proc' = [proc EXCEPT ![q] = r]
      /\ Image(r, NoJob, Dir(IF r.kstack = 0 THEN 0 ELSE r.pgdir), cr3'[q], before[q])
  BY <1>1, NoProcIs
<1> HIDE DEF r
<1>8. OwnsNow(freelist', cpus, leaked, Unfreed, Put(Kstacks, q, r.kstack), Put(Pgdirs, q, IF r.kstack = 0 THEN 0 ELSE r.pgdir),
              Put(Taken, p, 0), Put(Hands, p, 0), dir)
  BY <1>6, <1>7
<1> QED BY <1>1, <1>2, <1>5, <1>7, <1>8, Ended

LEMMA ReapedKeeps == ASSUME Inv, NEW p \in Pid, Reaped(p) PROVE Inv'
<1> DEFINE q == job[p].q
<1>1. /\ job[p].pc = "reaped" /\ release(p) /\ job' = [job EXCEPT ![p] = NoJob]
      /\ proc' = [proc EXCEPT ![q] = NoProc] /\ UNCHANGED <<freelist, dir, cr3, bootVars, panicked, history>>
  BY DEF Reaped, At, Go
<1>2. job[p].op = "wait" /\ Hands[p] = 0 /\ Taken[p] = 0
  BY <1>1, InPair
<1>3. q \in Pid /\ proc[q].kstack = 0 /\ Pgdirs[q] = 0
  BY <1>2, Helped
<1>5. freelist' \in Seq(Frame) /\ cr3' \in [Pid -> SpaceT] /\ cr3' = cr3 /\ UNCHANGED <<dir, bootVars, panicked, leaked, before>>
  BY <1>1 DEF Inv, Types, history
<1>6. OwnsNow(freelist', cpus, leaked, Unfreed, Put(Kstacks, q, 0), Put(Pgdirs, q, 0), Put(Taken, p, 0), Put(Hands, p, 0), dir)
  <2>1. Typed(freelist, cpus, leaked, Kstacks, Pgdirs, Taken, Hands, dir)
        /\ OwnsNow(freelist, cpus, leaked, Unfreed, Kstacks, Pgdirs, Taken, Hands, dir)
    BY Holding
  <2>2. Kstacks[q] = 0
    BY <1>3 DEF Kstacks
  <2>3. [Pgdirs EXCEPT ![q] = 0] = Pgdirs /\ [Taken EXCEPT ![p] = 0] = Taken /\ [Hands EXCEPT ![p] = 0] = Hands
        /\ [Kstacks EXCEPT ![q] = 0] = Kstacks
    <3>1. Pgdirs \in [Pid -> Link] /\ Taken \in [Pid -> Link] /\ Hands \in [Pid -> Link] /\ Kstacks \in [Pid -> Link]
      BY <2>1 DEF Typed
    <3> QED BY <1>2, <1>3, <2>2, <3>1
  <2> QED BY <1>1, <2>1, <2>3 DEF Put
<1> DEFINE r == NoProc
<1>7. /\ r \in ProcT /\ r.state \in {"run", "unused"} /\ r.kstack = 0 /\ proc' = [proc EXCEPT ![q] = r]
      /\ Image(r, NoJob, Dir(IF r.kstack = 0 THEN 0 ELSE r.pgdir), cr3'[q], before[q])
  BY <1>1, NoProcIs
<1> HIDE DEF r
<1>8. OwnsNow(freelist', cpus, leaked, Unfreed, Put(Kstacks, q, r.kstack), Put(Pgdirs, q, IF r.kstack = 0 THEN 0 ELSE r.pgdir),
              Put(Taken, p, 0), Put(Hands, p, 0), dir)
  BY <1>6, <1>7
<1> QED BY <1>1, <1>2, <1>5, <1>7, <1>8, Ended

-----------------------------------------------------------------------------
(* The machine starts *)

LEMMA JoinOnce ==
    ASSUME NEW S, NEW s \in Seq(S), NEW t \in Seq(S), Once(s), Once(t), Range(s) \cap Range(t) = {}
    PROVE  s \o t \in Seq(S) /\ Once(s \o t) /\ Range(s \o t) = Range(s) \cup Range(t) /\ Len(s \o t) = Len(s) + Len(t)
<1> DEFINE u == s \o t
           m == Len(s)
           n == Len(t)
<1>1. /\ u \in Seq(S) /\ m \in Nat /\ n \in Nat /\ DOMAIN s = 1 .. m /\ DOMAIN t = 1 .. n /\ DOMAIN u = 1 .. (m + n)
      /\ (\A i \in 1 .. m : u[i] = s[i]) /\ (\A i \in 1 .. n : u[m + i] = t[i]) /\ Len(u) = m + n
  OBVIOUS
<1> HIDE DEF u, m, n
<1>2. \A i \in 1 .. (m + n) : (i \in 1 .. m /\ u[i] = s[i]) \/ (i - m \in 1 .. n /\ u[i] = t[i - m])
  <2> SUFFICES ASSUME NEW i \in 1 .. (m + n), i \notin 1 .. m PROVE i - m \in 1 .. n /\ u[i] = t[i - m]
    BY <1>1
  <2>1. i - m \in 1 .. n /\ m + (i - m) = i
    BY <1>1
  <2>2. u[m + (i - m)] = t[i - m]
    BY <1>1, <2>1
  <2> QED BY <2>1, <2>2
<1>3. /\ \A i, k \in 1 .. m : s[i] = s[k] => i = k
      /\ \A i, k \in 1 .. n : t[i] = t[k] => i = k
      /\ \A i \in 1 .. m, k \in 1 .. n : s[i] # t[k]
  <2>1. (\A i, k \in 1 .. m : s[i] = s[k] => i = k) /\ (\A i, k \in 1 .. n : t[i] = t[k] => i = k)
    BY <1>1 DEF Once
  <2>2. \A i \in 1 .. m, k \in 1 .. n : s[i] \in Range(s) /\ t[k] \in Range(t)
    BY <1>1 DEF Range
  <2> QED BY <2>1, <2>2
<1>4. Once(u)
  <2> SUFFICES ASSUME NEW i \in 1 .. (m + n), NEW k \in 1 .. (m + n), u[i] = u[k] PROVE i = k
    BY <1>1 DEF Once
  <2>1. (i \in 1 .. m /\ u[i] = s[i]) \/ (i - m \in 1 .. n /\ u[i] = t[i - m])
    BY <1>2
  <2>2. (k \in 1 .. m /\ u[k] = s[k]) \/ (k - m \in 1 .. n /\ u[k] = t[k - m])
    BY <1>2
  <2>3. CASE i \in 1 .. m /\ u[i] = s[i]
    BY <1>3, <2>2, <2>3
  <2>4. CASE i - m \in 1 .. n /\ u[i] = t[i - m]
    <3>1. k - m \in 1 .. n /\ t[i - m] = t[k - m]
      BY <1>3, <2>2, <2>4
    <3>2. i - m = k - m
      BY <1>3, <2>4, <3>1
    <3> QED BY <1>1, <3>2
  <2> QED BY <2>1, <2>3, <2>4
<1>5. ASSUME NEW y PROVE y \in Range(u) <=> y \in Range(s) \cup Range(t)
  <2>1. ASSUME y \in Range(u) PROVE y \in Range(s) \cup Range(t)
    <3>1. PICK i \in 1 .. (m + n) : y = u[i]
      BY <1>1, <2>1 DEF Range
    <3>2. (i \in 1 .. m /\ u[i] = s[i]) \/ (i - m \in 1 .. n /\ u[i] = t[i - m])
      BY <1>2
    <3> QED BY <1>1, <3>1, <3>2 DEF Range
  <2>2. ASSUME y \in Range(s) PROVE y \in Range(u)
    <3>1. PICK i \in 1 .. m : y = s[i]
      BY <1>1, <2>2 DEF Range
    <3>2. i \in 1 .. (m + n) /\ u[i] = y
      BY <1>1, <3>1
    <3> QED BY <1>1, <3>2 DEF Range
  <2>3. ASSUME y \in Range(t) PROVE y \in Range(u)
    <3>1. PICK i \in 1 .. n : y = t[i]
      BY <1>1, <2>3 DEF Range
    <3>2. m + i \in 1 .. (m + n) /\ u[m + i] = y
      BY <1>1, <3>1
    <3> QED BY <1>1, <3>2 DEF Range
  <2> QED BY <2>1, <2>2, <2>3
<1>6. Range(u) = Range(s) \cup Range(t)
  BY <1>5
<1> QED BY <1>1, <1>4, <1>6 DEF u, m, n

Cut(s, m, a, b) == a = SubSeq(s, 1, m) /\ b = SubSeq(s, m + 1, Len(s))

LEMMA SplitOnce ==
    ASSUME NEW S, NEW s \in Seq(S), Once(s), NEW m \in 0 .. Len(s), NEW a, NEW b, Cut(s, m, a, b)
    PROVE  /\ a \in Seq(S) /\ b \in Seq(S) /\ Once(a) /\ Once(b) /\ Range(s) = Range(a) \cup Range(b)
           /\ Range(a) \cap Range(b) = {} /\ Len(a) = m /\ Len(b) = Len(s) - m
<1> DEFINE n == Len(s)
<1>0. a = SubSeq(s, 1, m) /\ b = SubSeq(s, m + 1, n)
  BY DEF Cut
<1>1. /\ n \in Nat /\ m \in Nat /\ m <= n /\ DOMAIN s = 1 .. n /\ a \in Seq(S) /\ Len(a) = m /\ DOMAIN a = 1 .. m
      /\ \A i \in 1 .. m : a[i] = s[i]
  BY <1>0
<1>2. b \in Seq(S) /\ Len(b) = n - m /\ DOMAIN b = 1 .. (n - m) /\ \A i \in 1 .. (n - m) : b[i] = s[m + i]
  <2>1. m + 1 \in 1 .. n + 1 /\ n \in m .. n
    OBVIOUS
  <2>2. \A i \in (m + 1) .. n : s[i] \in S
    OBVIOUS
  <2>3. SubSeq(s, m + 1, n) \in Seq(S) /\ Len(SubSeq(s, m + 1, n)) = IF m + 1 <= n THEN n - (m + 1) + 1 ELSE 0
    BY <2>1
  <2>4. \A i \in 1 .. (n - m) : SubSeq(s, m + 1, n)[i] = s[(m + 1) + i - 1]
    OBVIOUS
  <2>5. \A i \in 1 .. (n - m) : (m + 1) + i - 1 = m + i
    BY <1>1
  <2>6. (IF m + 1 <= n THEN n - (m + 1) + 1 ELSE 0) = n - m
    <3>1. \A x, y \in Nat : x <= y => (IF x + 1 <= y THEN y - (x + 1) + 1 ELSE 0) = y - x
      OBVIOUS
    <3> HIDE DEF n
    <3> QED BY <1>1, <3>1
  <2>7. b \in Seq(S) /\ Len(b) = n - m /\ \A i \in 1 .. (n - m) : b[i] = s[m + i]
    BY <1>0, <2>3, <2>4, <2>5, <2>6
  <2>8. DOMAIN b = 1 .. Len(b)
    BY <2>7
  <2> QED BY <2>7, <2>8
<1> HIDE DEF n
<1>3. \A i, k \in 1 .. n : s[i] = s[k] => i = k
  BY <1>1 DEF Once
<1>4. Once(a)
  <2>1. \A i \in 1 .. m : i \in 1 .. n
    BY <1>1
  <2> QED BY <1>1, <1>3, <2>1 DEF Once
<1>5. \A i \in 1 .. (n - m) : m + i \in 1 .. n /\ m + i \notin 1 .. m
  BY <1>1
<1>6. Once(b)
  <2> SUFFICES ASSUME NEW i \in 1 .. (n - m), NEW k \in 1 .. (n - m), b[i] = b[k] PROVE i = k
    BY <1>2 DEF Once
  <2>1. m + i = m + k
    BY <1>2, <1>3, <1>5
  <2> QED BY <1>1, <2>1
<1>7. Range(a) \cap Range(b) = {}
  <2> SUFFICES ASSUME NEW y, y \in Range(a), y \in Range(b) PROVE FALSE
    OBVIOUS
  <2>1. PICK i \in 1 .. m : y = s[i]
    BY <1>1 DEF Range
  <2>2. PICK k \in 1 .. (n - m) : y = s[m + k]
    BY <1>2 DEF Range
  <2>3. i \in 1 .. n
    BY <1>1
  <2> QED BY <1>3, <1>5, <2>1, <2>2, <2>3
<1>8. ASSUME NEW y PROVE y \in Range(s) <=> y \in Range(a) \cup Range(b)
  <2>1. ASSUME y \in Range(s) PROVE y \in Range(a) \cup Range(b)
    <3>1. PICK i \in 1 .. n : y = s[i]
      BY <1>1, <2>1 DEF Range
    <3>2. CASE i <= m
      <4>1. i \in 1 .. m
        BY <1>1, <3>2
      <4> QED BY <1>1, <3>1, <4>1 DEF Range
    <3>3. CASE ~(i <= m)
      <4>1. i - m \in 1 .. (n - m) /\ m + (i - m) = i
        BY <1>1, <3>3
      <4>2. b[i - m] = y
        BY <1>2, <3>1, <4>1
      <4> QED BY <1>2, <4>1, <4>2 DEF Range
    <3> QED BY <3>2, <3>3
  <2>2. ASSUME y \in Range(a) PROVE y \in Range(s)
    <3>1. PICK i \in 1 .. m : y = s[i]
      BY <1>1, <2>2 DEF Range
    <3>2. i \in 1 .. n
      BY <1>1
    <3> QED BY <1>1, <3>1, <3>2 DEF Range
  <2>3. ASSUME y \in Range(b) PROVE y \in Range(s)
    <3>1. PICK k \in 1 .. (n - m) : y = s[m + k]
      BY <1>2, <2>3 DEF Range
    <3> QED BY <1>1, <1>5, <3>1 DEF Range
  <2> QED BY <2>1, <2>2, <2>3
<1>9. Range(s) = Range(a) \cup Range(b)
  BY <1>8
<1> QED BY <1>1, <1>2, <1>4, <1>6, <1>7, <1>9 DEF n

\* freerange() of n pages after page m.
LEMMA FreeRange ==
    ASSUME NEW m \in Nat, NEW n \in Nat, m + n <= NFRAME
    PROVE  LET s == Reverse([k \in 1 .. n |-> m + k])
           IN  s \in Seq(Frame) /\ Once(s) /\ Range(s) = (m + 1) .. (m + n) /\ Len(s) = n
<1> DEFINE t == [k \in 1 .. n |-> m + k]
           s == Reverse(t)
<1>1. t \in Seq(Frame) /\ Len(t) = n
  <2>1. \A k \in 1 .. n : m + k \in Frame
    BY DEF Frame
  <2> QED BY <2>1
<1>2. s = [i \in 1 .. n |-> t[(n - i) + 1]]
  BY <1>1 DEF Reverse
<1>3. \A i \in 1 .. n : (n - i) + 1 \in 1 .. n /\ s[i] = m + ((n - i) + 1) /\ s[i] \in Frame
  <2> TAKE i \in 1 .. n
  <2>1. (n - i) + 1 \in 1 .. n
    OBVIOUS
  <2>2. s[i] = m + ((n - i) + 1)
    BY <1>2, <2>1
  <2>3. m + ((n - i) + 1) \in Frame
    BY <2>1 DEF Frame
  <2> QED BY <2>1, <2>2, <2>3
<1>4. s \in Seq(Frame) /\ Len(s) = n /\ DOMAIN s = 1 .. n
  <2>1. \A i \in 1 .. n : t[(n - i) + 1] \in Frame
    BY <1>2, <1>3
  <2> HIDE DEF s, t
  <2> QED BY <1>2, <2>1
<1> HIDE DEF s, t
<1>5. Once(s)
  <2> SUFFICES ASSUME NEW i \in 1 .. n, NEW k \in 1 .. n, s[i] = s[k] PROVE i = k
    BY <1>4 DEF Once
  <2>1. m + ((n - i) + 1) = m + ((n - k) + 1)
    BY <1>3
  <2> QED BY <2>1
<1>6. ASSUME NEW y PROVE y \in Range(s) <=> y \in (m + 1) .. (m + n)
  <2>1. ASSUME y \in Range(s) PROVE y \in (m + 1) .. (m + n)
    <3>1. PICK i \in 1 .. n : y = m + ((n - i) + 1)
      BY <1>3, <1>4, <2>1 DEF Range
    <3> QED BY <3>1
  <2>2. ASSUME y \in (m + 1) .. (m + n) PROVE y \in Range(s)
    <3> DEFINE i == n - (y - m) + 1
    <3>1. i \in 1 .. n /\ m + ((n - i) + 1) = y
      BY <2>2
    <3> HIDE DEF i
    <3>2. s[i] = y
      BY <1>3, <3>1
    <3> QED BY <1>4, <3>1, <3>2 DEF Range
  <2> QED BY <2>1, <2>2
<1>7. Range(s) = (m + 1) .. (m + n)
  BY <1>6
<1> QED BY <1>4, <1>5, <1>7 DEF s, t

\* The allocator gets the pages of F2, which nothing had.
LEMMA Supply ==
    ASSUME NEW F, NEW C, NEW L, NEW N, NEW ks, NEW pd, NEW nd, NEW hd, NEW D, Typed(F, C, L, ks, pd, nd, hd, D),
           OwnsNow(F, C, L, N, ks, pd, nd, hd, D), NEW F2 \in Seq(Frame), Once(F2), Range(F2) \subseteq N
    PROVE  /\ OwnsNow(F2 \o F, C, L, N \ Range(F2), ks, pd, nd, hd, D)
           /\ F2 \o F \in Seq(Frame) /\ Range(F2 \o F) = Range(F2) \cup Range(F) /\ Len(F2 \o F) = Len(F2) + Len(F)
<1>1. PICK own : Owns(own, F, C, L, N, ks, pd, nd, hd, D)
  BY DEF OwnsNow
<1> DEFINE R == Range(F2)
           own2 == [f \in Frame |-> IF f \in R THEN <<"free", 0, 0>> ELSE own[f]]
<1>2. R \subseteq N /\ own \in [Frame -> Uses] /\ F \in Seq(Frame) /\ Once(F) /\ Once(C) /\ DirUses(own, D)
  BY <1>1 DEF Owns, Typed
<1>3. \A f \in Frame : f \in N => own[f] = <<"none", 0, 0>> /\ own[f][1] = "none"
  <2>1. \A f \in Frame : f \in N => own[f] = <<"none", 0, 0>>
    BY <1>1 DEF Owns, OfSet
  <2> QED BY <2>1
<1>4. \A f \in Frame : f \in Range(F) <=> own[f] = <<"free", 0, 0>>
  BY <1>1 DEF Owns, OfSet
<1>5. own2 \in [Frame -> Uses]
  <2>1. <<"free", 0, 0>> \in Uses
    BY DEF Uses
  <2> QED BY <1>2, <2>1
<1>6. \A f \in Frame : (f \in R => own2[f] = <<"free", 0, 0>>) /\ (f \notin R => own2[f] = own[f])
  OBVIOUS
<1>7. R \cap Range(F) = {}
  <2> SUFFICES ASSUME NEW f, f \in R, f \in Range(F) PROVE FALSE
    OBVIOUS
  <2>1. f \in Frame
    BY <1>2 DEF Range
  <2>2. own[f] = <<"free", 0, 0>> /\ own[f] = <<"none", 0, 0>>
    BY <1>2, <1>3, <1>4, <2>1
  <2> QED BY <2>2
<1>8. /\ F2 \o F \in Seq(Frame) /\ Once(F2 \o F) /\ Range(F2 \o F) = R \cup Range(F) /\ Len(F2 \o F) = Len(F2) + Len(F)
  BY <1>2, <1>7, JoinOnce
<1> HIDE DEF own2, R
<1>9. OfSet(own2, "free", Range(F2 \o F)) /\ OfSet(own2, "none", N \ R)
  <2>1. ASSUME NEW f \in Frame PROVE (own2[f] = <<"free", 0, 0>> <=> f \in R \cup Range(F)) /\ (own2[f] = <<"none", 0, 0>> <=> f \in N \ R)
    <3>1. CASE f \in R
      BY <1>2, <1>6, <3>1
    <3>2. CASE f \notin R
      <4>1. own[f] = <<"none", 0, 0>> <=> f \in N
        BY <1>1 DEF Owns, OfSet
      <4> QED BY <1>4, <1>6, <3>2, <4>1
    <3> QED BY <3>1, <3>2
  <2> QED BY <1>8, <2>1 DEF OfSet
<1>10. \A f \in Frame : own2[f] = own[f] \/ (own[f][1] \in {"none", "free"} /\ own2[f][1] \in {"none", "free"})
  <2> TAKE f \in Frame
  <2>1. CASE f \in R
    <3>1. own2[f][1] = "free" /\ own[f][1] = "none"
      BY <1>2, <1>3, <1>6, <2>1
    <3> QED BY <3>1
  <2> QED BY <1>6, <2>1
<1>11. /\ OfSet(own2, "cpu", Range(C)) /\ OfSet(own2, "lost", L)
       /\ OfProc(own2, "kstack", ks) /\ OfProc(own2, "pgdir", pd) /\ OfProc(own2, "newdir", nd)
       /\ OfProc(own2, "hand", hd) /\ OfKern(own2, D) /\ OfTab(own2, D) /\ OfPage(own2, D)
  <2> DEFINE K == {"none", "free"}
  <2>1. /\ "cpu" \notin K /\ "lost" \notin K /\ "kstack" \notin K /\ "pgdir" \notin K /\ "newdir" \notin K
        /\ "hand" \notin K /\ "kern" \notin K /\ "tab" \notin K /\ "page" \notin K
    OBVIOUS
  <2>2. \A f \in Frame : own2[f] = own[f] \/ (own[f][1] \in K /\ own2[f][1] \in K)
    BY <1>10
  <2> HIDE DEF K
  <2> QED BY <1>1, <2>1, <2>2, Alike
<1>12. DirUses(own2, D)
  <2>1. /\ \A f \in Frame : D[f] # NoDir => own[f][1] \in {"kvm", "pgdir", "newdir"}
        /\ \A f \in Frame : own[f] = <<"kvm", 0, 0>> => D[f] # NoDir
        /\ \A d \in Frame : Once(D[d].kern)
    BY <1>2 DEF DirUses
  <2>2. ASSUME NEW f \in Frame
        PROVE  (D[f] # NoDir => own2[f][1] \in {"kvm", "pgdir", "newdir"}) /\ (own2[f] = <<"kvm", 0, 0>> => D[f] # NoDir)
    <3>1. CASE f \in R
      <4>1. own2[f] = <<"free", 0, 0>> /\ own[f][1] = "none"
        BY <1>2, <1>3, <1>6, <3>1
      <4> QED BY <2>1, <4>1
    <3>2. CASE f \notin R
      BY <1>6, <2>1, <3>2
    <3> QED BY <3>1, <3>2
  <2> QED BY <2>1, <2>2 DEF DirUses
<1>13. Owns(own2, F2 \o F, C, L, N \ R, ks, pd, nd, hd, D)
  BY <1>2, <1>5, <1>8, <1>9, <1>11, <1>12 DEF Owns
<1> QED BY <1>8, <1>13 DEF OwnsNow, R

\* The kernel's tables of a new directory, taken from the list together.
LEMMA TakeRun ==
    ASSUME NEW F, NEW C, NEW L, NEW N, NEW ks, NEW pd, NEW nd, NEW hd, NEW D, Typed(F, C, L, ks, pd, nd, hd, D),
           OwnsNow(F, C, L, N, ks, pd, nd, hd, D), NEW a \in Seq(Frame), NEW b \in Seq(Frame), Once(a), Once(b),
           Range(F) = Range(a) \cup Range(b), Range(a) \cap Range(b) = {},
           NEW d \in Frame, \E p \in Pid : nd[p] = d \/ pd[p] = d, D[d].kern = <<>>
    PROVE  OwnsNow(b, C, L, N, ks, pd, nd, hd, [D EXCEPT ![d].kern = a])
<1>1. PICK own : Owns(own, F, C, L, N, ks, pd, nd, hd, D)
  BY DEF OwnsNow
<1> DEFINE R == Range(a)
           own2 == [f \in Frame |-> IF f \in R THEN <<"kern", d, 0>> ELSE own[f]]
           D2 == [D EXCEPT ![d].kern = a]
<1>2. own \in [Frame -> Uses] /\ Once(C) /\ DirUses(own, D) /\ R \subseteq Range(F)
  BY <1>1 DEF Owns
<1>3. \A f \in Frame : (f \in Range(F) <=> own[f] = <<"free", 0, 0>>) /\ (f \in R => own[f][1] = "free")
  <2>1. \A f \in Frame : f \in Range(F) <=> own[f] = <<"free", 0, 0>>
    BY <1>1 DEF Owns, OfSet
  <2> QED BY <1>2, <2>1
<1>4. own2 \in [Frame -> Uses]
  <2>1. <<"kern", d, 0>> \in Uses
    BY DEF Uses
  <2> QED BY <1>2, <2>1
<1>5. \A f \in Frame : (f \in R => own2[f] = <<"kern", d, 0>>) /\ (f \notin R => own2[f] = own[f])
  OBVIOUS
<1>6. /\ \A c \in Frame : D2[c].tab = D[c].tab /\ D2[c].pte = D[c].pte
      /\ \A c \in Frame : c # d => D2[c] = D[c]
      /\ D2[d].kern = a
  BY DEF Typed, DirT
<1> HIDE DEF own2, R, D2
<1>7. OfSet(own2, "free", Range(b))
  <2>1. ASSUME NEW f \in Frame PROVE own2[f] = <<"free", 0, 0>> <=> f \in Range(b)
    <3>1. f \in Range(F) <=> f \in R \/ f \in Range(b)
      BY DEF R
    <3>2. ~(f \in R /\ f \in Range(b))
      BY DEF R
    <3>3. CASE f \in R
      BY <1>5, <3>2, <3>3
    <3>4. CASE f \notin R
      BY <1>3, <1>5, <3>1, <3>4
    <3> QED BY <3>3, <3>4
  <2> QED BY <2>1 DEF OfSet
<1>8. \A f \in Frame : own2[f] = own[f] \/ (own[f][1] \in {"kern", "free"} /\ own2[f][1] \in {"kern", "free"})
  <2> TAKE f \in Frame
  <2>1. CASE f \in R
    <3>1. own2[f][1] = "kern" /\ own[f][1] = "free"
      BY <1>3, <1>5, <2>1
    <3> QED BY <3>1
  <2> QED BY <1>5, <2>1
<1>9. /\ OfSet(own2, "cpu", Range(C)) /\ OfSet(own2, "lost", L) /\ OfSet(own2, "none", N)
      /\ OfProc(own2, "kstack", ks) /\ OfProc(own2, "pgdir", pd) /\ OfProc(own2, "newdir", nd)
      /\ OfProc(own2, "hand", hd) /\ OfTab(own2, D) /\ OfPage(own2, D)
  <2> DEFINE K == {"kern", "free"}
  <2>1. /\ "cpu" \notin K /\ "lost" \notin K /\ "none" \notin K /\ "kstack" \notin K /\ "pgdir" \notin K
        /\ "newdir" \notin K /\ "hand" \notin K /\ "tab" \notin K /\ "page" \notin K
    OBVIOUS
  <2>2. \A f \in Frame : own2[f] = own[f] \/ (own[f][1] \in K /\ own2[f][1] \in K)
    BY <1>8
  <2> HIDE DEF K
  <2> QED BY <1>1, <2>1, <2>2, Alike
<1>10. OfKern(own2, D2)
  <2> SUFFICES ASSUME NEW f \in Frame, NEW c \in Frame PROVE own2[f] = <<"kern", c, 0>> <=> f \in Range(D2[c].kern)
    BY DEF OfKern
  <2>1. own[f] = <<"kern", c, 0>> <=> f \in Range(D[c].kern)
    BY <1>1 DEF Owns, OfKern
  <2>2. Range(D[d].kern) = {}
    BY DEF Range
  <2>3. CASE f \in R
    <3>1. own[f] # <<"kern", c, 0>>
      BY <1>3, <2>3
    <3>2. own2[f] = <<"kern", c, 0>> <=> c = d
      BY <1>5, <2>3
    <3>3. c # d => f \notin Range(D2[c].kern)
      BY <1>6, <2>1, <3>1
    <3> QED BY <1>6, <2>3, <3>2, <3>3 DEF R
  <2>4. CASE f \notin R
    <3>1. c = d => f \notin Range(D2[c].kern) /\ own[f] # <<"kern", c, 0>>
      BY <1>6, <2>1, <2>2, <2>4 DEF R
    <3> QED BY <1>5, <1>6, <2>1, <2>4, <3>1
  <2> QED BY <2>3, <2>4
<1>11. DirUses(own2, D2)
  <2>1. /\ \A f \in Frame : D[f] # NoDir => own[f][1] \in {"kvm", "pgdir", "newdir"}
        /\ \A f \in Frame : own[f] = <<"kvm", 0, 0>> => D[f] # NoDir
        /\ \A c \in Frame : Once(D[c].kern)
    BY <1>2 DEF DirUses
  <2>2. own[d][1] \in {"pgdir", "newdir"} /\ own[d] # <<"kvm", 0, 0>>
    BY <1>1, WhoseDir
  <2>3. d \notin R
    BY <1>3, <2>2
  <2>4. own2[d] = own[d]
    BY <1>5, <2>3
  <2>5. DirUses(own2, D)
    <3>1. ASSUME NEW f \in Frame
          PROVE  (D[f] # NoDir => own2[f][1] \in {"kvm", "pgdir", "newdir"}) /\ (own2[f] = <<"kvm", 0, 0>> => D[f] # NoDir)
      <4>1. CASE f \in R
        <5>1. own2[f] = <<"kern", d, 0>> /\ own[f][1] = "free"
          BY <1>3, <1>5, <4>1
        <5> QED BY <2>1, <5>1
      <4>2. CASE f \notin R
        BY <1>5, <2>1, <4>2
      <4> QED BY <4>1, <4>2
    <3> QED BY <2>1, <3>1 DEF DirUses
  <2>6. own2[d][1] \in {"pgdir", "newdir"} /\ Once(D2[d].kern)
    BY <1>6, <2>2, <2>4
  <2> QED BY <1>6, <2>5, <2>6, DirChanged
<1>12. OfTab(own2, D2) /\ OfPage(own2, D2)
  BY <1>6, <1>9, SameTab, SamePage
<1>13. Owns(own2, b, C, L, N, ks, pd, nd, hd, D2)
  BY <1>2, <1>4, <1>7, <1>9, <1>10, <1>11, <1>12 DEF Owns
<1> QED BY <1>13 DEF OwnsNow, D2

\* A directory becomes that of the kernel.
LEMMA Settle ==
    ASSUME NEW F, NEW C, NEW L, NEW N, NEW ks, NEW pd, NEW nd, NEW hd, NEW D, Typed(F, C, L, ks, pd, nd, hd, D),
           OwnsNow(F, C, L, N, ks, pd, nd, hd, D), NEW p \in Pid, nd[p] # 0, D[nd[p]] # NoDir
    PROVE  OwnsNow(F, C, L, N, ks, pd, [nd EXCEPT ![p] = 0], hd, D)
<1>1. PICK own : Owns(own, F, C, L, N, ks, pd, nd, hd, D)
  BY DEF OwnsNow
<1> DEFINE f == nd[p]
           x == <<"kvm", 0, 0>>
           own2 == [own EXCEPT ![f] = x]
<1>2. f \in Frame /\ own[f][1] = "newdir"
  <2>1. f \in Frame
    BY DEF Typed, Link, Frame
  <2>2. own[f] = <<"newdir", p, 0>>
    BY <1>1, <2>1 DEF Owns, OfProc
  <2> QED BY <2>1, <2>2
<1>3. own2 \in [Frame -> Uses] /\ Move(own, own2, f, x) /\ x[1] = "kvm"
  <2>1. x \in Uses /\ own \in [Frame -> Uses]
    BY <1>1 DEF Uses, Owns
  <2> QED BY <1>2, <2>1 DEF Move
<1> HIDE DEF own2
<1>5. OfProc(own2, "newdir", [nd EXCEPT ![p] = 0])
  <2>1. \A r \in Pid : x # <<"newdir", r, 0>>
    OBVIOUS
  <2>2. nd \in [Pid -> Link] /\ nd[p] = f /\ OfProc(own, "newdir", nd)
    BY <1>1 DEF Owns, Typed
  <2> QED BY <1>3, <2>1, <2>2, ProcLeft
<1>7. DirUses(own2, D)
  <2>1. /\ \A h \in Frame : own[h] = <<"kvm", 0, 0>> => D[h] # NoDir
        /\ \A d \in Frame : Once(D[d].kern)
    BY <1>1 DEF Owns, DirUses
  <2>2. \A h \in Frame : D[h] # NoDir => own2[h][1] \in {"kvm", "pgdir", "newdir"}
    <3>1. \A h \in Frame : D[h] # NoDir => own[h][1] \in {"kvm", "pgdir", "newdir"}
      BY <1>1 DEF Owns, DirUses
    <3> QED BY <1>3, <3>1 DEF Move
  <2>3. \A h \in Frame : own2[h] = <<"kvm", 0, 0>> => D[h] # NoDir
    BY <1>3, <2>1 DEF Move
  <2> QED BY <2>1, <2>2, <2>3 DEF DirUses
<1>8. Owns(own2, F, C, L, N, ks, pd, [nd EXCEPT ![p] = 0], hd, D)
  <2> HIDE DEF x, f
  <2>1. own[f][1] = "newdir" /\ x[1] = "kvm" /\ Once(C) /\ Once(F) /\ own2 \in [Frame -> Uses]
    BY <1>1, <1>2, <1>3 DEF Owns
  <2>2. /\ OfSet(own2, "cpu", Range(C)) /\ OfSet(own2, "lost", L) /\ OfSet(own2, "none", N)
        /\ OfSet(own2, "free", Range(F)) /\ OfProc(own2, "kstack", ks) /\ OfProc(own2, "hand", hd) /\ OfProc(own2, "pgdir", pd)
        /\ OfKern(own2, D) /\ OfTab(own2, D) /\ OfPage(own2, D)
    BY <1>1, <1>3, <2>1, Others DEF DirKinds
  <2> QED BY <1>5, <1>7, <2>1, <2>2 DEF Owns
<1> QED BY <1>8 DEF OwnsNow

LEMMA Tails ==
    ASSUME NEW S, NEW s \in Seq(S), s # <<>>
    PROVE  /\ Tail(s) \in Seq(S) /\ Len(Tail(s)) = Len(s) - 1 /\ Tail(s) = SubSeq(s, 2, Len(s)) /\ Head(s) = s[1]
           /\ \A i \in 1 .. Len(s) - 1 : Tail(s)[i] = s[i + 1]
           /\ \A i, k \in Nat : 1 <= i /\ k <= Len(s) - 1 => SubSeq(Tail(s), i, k) = SubSeq(s, i + 1, k + 1)
<1> DEFINE t == Tail(s)
           n == Len(s)
<1>1. t \in Seq(S) /\ n \in Nat /\ n >= 1 /\ Len(t) = n - 1 /\ t = SubSeq(s, 2, n) /\ Head(s) = s[1]
  OBVIOUS
<1>2. \A i \in 1 .. n - 1 : t[i] = s[i + 1]
  OBVIOUS
<1>3. ASSUME NEW i \in Nat, NEW k \in Nat, 1 <= i, k <= n - 1 PROVE SubSeq(t, i, k) = SubSeq(s, i + 1, k + 1)
  <2> DEFINE u == SubSeq(t, i, k)
             v == SubSeq(s, i + 1, k + 1)
  <2>1. \A x \in i .. k : t[x] \in S
    BY <1>1, <1>3
  <2>2. u \in Seq(S) /\ (Len(u) = IF i <= k THEN k - i + 1 ELSE 0) /\ \A x \in 1 .. k - i + 1 : u[x] = t[i + x - 1]
    <3>1. i \in Int /\ k \in Int
      OBVIOUS
    <3> HIDE DEF t, n
    <3> QED BY <2>1, <3>1, SubSeqProperties
  <2>3. \A x \in (i + 1) .. (k + 1) : s[x] \in S
    BY <1>1, <1>3
  <2>4. /\ v \in Seq(S) /\ (Len(v) = IF i + 1 <= k + 1 THEN (k + 1) - (i + 1) + 1 ELSE 0)
        /\ \A x \in 1 .. (k + 1) - (i + 1) + 1 : v[x] = s[(i + 1) + x - 1]
    <3>1. i + 1 \in Int /\ k + 1 \in Int
      OBVIOUS
    <3> HIDE DEF t, n
    <3> QED BY <2>3, <3>1, SubSeqProperties
  <2> HIDE DEF u, v, t, n
  <2>5. (k + 1) - (i + 1) + 1 = k - i + 1 /\ (i + 1 <= k + 1 <=> i <= k) /\ (i <= k => k - i + 1 \in Nat)
    OBVIOUS
  <2>6. ASSUME NEW x \in 1 .. k - i + 1 PROVE u[x] = v[x]
    <3>1. i + x - 1 \in 1 .. n - 1 /\ (i + x - 1) + 1 = (i + 1) + x - 1
      BY <1>1, <1>3
    <3>2. t[i + x - 1] = s[(i + 1) + x - 1]
      BY <1>2, <3>1
    <3>3. x \in 1 .. (k + 1) - (i + 1) + 1
      BY <2>5
    <3> QED BY <2>2, <2>4, <3>2, <3>3
  <2>7. Len(u) = Len(v) /\ \A x \in 1 .. Len(u) : x \in 1 .. k - i + 1
    BY <2>2, <2>4, <2>5
  <2>8. u = v
    BY <2>2, <2>4, <2>6, <2>7, SeqEqual
  <2> QED BY <2>8 DEF u, v
<1> QED BY <1>1, <1>2, <1>3

\* setupkvm() while the machine starts.
LEMMA Setup ==
    ASSUME NEW F, NEW C, NEW L, NEW N, NEW ks, NEW pd, NEW nd, NEW hd, NEW D, Typed(F, C, L, ks, pd, nd, hd, D),
           OwnsNow(F, C, L, N, ks, pd, nd, hd, D), Len(F) > NKTAB, NEW p \in Pid, nd[p] = 0
    PROVE  LET k == SubSeq(F, 2, NKTAB + 1)
               b == SubSeq(F, NKTAB + 2, Len(F))
               D2 == [D EXCEPT ![Head(F)] = Kvm(F)]
           IN  /\ OwnsNow(b, C, L, N, ks, pd, [nd EXCEPT ![p] = Head(F)], hd, D2)
               /\ Typed(b, C, L, ks, pd, [nd EXCEPT ![p] = Head(F)], hd, D2)
               /\ Kvm(F) \in DirT /\ Kvm(F).kern = k /\ Len(k) = NKTAB /\ Kvm(F).pte = NoDir.pte /\ Kvm(F).tab = NoDir.tab
               /\ Head(F) \in Frame /\ Range(b) \subseteq Range(F) /\ Len(b) = Len(F) - NKTAB - 1
<1> DEFINE d == Head(F)
           T == Tail(F)
           a == SubSeq(T, 1, NKTAB)
           b == SubSeq(T, NKTAB + 1, Len(T))
           nd2 == [nd EXCEPT ![p] = d]
           D2 == [D EXCEPT ![d].kern = a]
<1>1. PICK own : Owns(own, F, C, L, N, ks, pd, nd, hd, D)
  BY DEF OwnsNow
<1>2. F \in Seq(Frame) /\ Once(F) /\ NKTAB \in Nat /\ NKTAB >= 1 /\ F # <<>>
  <2>1. F \in Seq(Frame) /\ Once(F) /\ NKTAB \in Nat /\ NKTAB >= 1
    BY <1>1, Sizes DEF Owns, Typed
  <2> QED BY <2>1
<1>3. d \in Frame /\ D[d] = NoDir /\ T \in Seq(Frame) /\ Once(T)
  BY <1>1, <1>2, FirstFree
<1>4. /\ Len(T) = Len(F) - 1 /\ a = SubSeq(F, 2, NKTAB + 1) /\ b = SubSeq(F, NKTAB + 2, Len(F)) /\ NKTAB \in 0 .. Len(T)
      /\ Len(F) \in Nat /\ Len(T) \in Nat
  <2>1. Len(T) = Len(F) - 1 /\ \A i, k \in Nat : 1 <= i /\ k <= Len(F) - 1 => SubSeq(T, i, k) = SubSeq(F, i + 1, k + 1)
    BY <1>2, Tails
  <2>2. Len(F) \in Nat /\ Len(T) \in Nat
    BY <1>2, <1>3
  <2> HIDE DEF T
  <2>3. NKTAB \in 0 .. Len(T) /\ NKTAB <= Len(F) - 1 /\ NKTAB + 1 \in Nat /\ 1 <= NKTAB + 1 /\ (Len(F) - 1) + 1 = Len(F)
        /\ (NKTAB + 1) + 1 = NKTAB + 2
    BY <1>2, <2>1, <2>2
  <2>4. SubSeq(T, 1, NKTAB) = SubSeq(F, 1 + 1, NKTAB + 1)
    BY <1>2, <2>1, <2>3
  <2>5. SubSeq(T, NKTAB + 1, Len(T)) = SubSeq(F, (NKTAB + 1) + 1, Len(T) + 1)
    BY <2>1, <2>2, <2>3
  <2>6. Len(T) + 1 = Len(F) /\ 1 + 1 = 2
    BY <2>1, <2>2
  <2> QED BY <2>1, <2>2, <2>3, <2>4, <2>5, <2>6
<1> HIDE DEF d, T
<1>5. /\ a \in Seq(Frame) /\ b \in Seq(Frame) /\ Once(a) /\ Once(b) /\ Range(T) = Range(a) \cup Range(b)
      /\ Range(a) \cap Range(b) = {} /\ Len(a) = NKTAB /\ Len(b) = Len(T) - NKTAB
  <2>1. Cut(T, NKTAB, a, b)
    BY DEF Cut
  <2>2. T \in Seq(Frame) /\ Once(T) /\ NKTAB \in 0 .. Len(T)
    BY <1>3, <1>4
  <2> HIDE DEF a, b
  <2> QED BY <2>1, <2>2, SplitOnce
<1> HIDE DEF a, b
<1>6. OwnsNow(T, C, L, N, ks, pd, nd2, hd, D)
  BY <1>2, TakeDir DEF T, d
<1>7. /\ Typed(T, C, L, ks, pd, nd2, hd, D) /\ nd2[p] = d
      /\ d \in Link /\ nd \in [Pid -> Link] /\ D \in [Frame -> DirT] /\ D[d].kern = <<>>
  <2>1. d \in Link /\ nd \in [Pid -> Link] /\ D \in [Frame -> DirT]
    BY <1>3 DEF Typed, Link, Frame
  <2>2. D[d].kern = <<>>
    BY <1>3, NoDirT
  <2> QED BY <1>3, <2>1, <2>2 DEF Typed
<1>8. OwnsNow(b, C, L, N, ks, pd, nd2, hd, D2)
  <2> HIDE DEF nd2, D2
  <2>1. OwnsNow(b, C, L, N, ks, pd, nd2, hd, [D EXCEPT ![d].kern = a])
    BY <1>3, <1>5, <1>6, <1>7, TakeRun
  <2> QED BY <2>1 DEF D2
<1>9. /\ Kvm(F) \in DirT /\ Kvm(F).kern = a /\ Kvm(F).pte = NoDir.pte /\ Kvm(F).tab = NoDir.tab
      /\ Kvm(F) = [NoDir EXCEPT !.kern = a]
  <2>1. Kvm(F) = [NoDir EXCEPT !.kern = a] /\ NoDir \in DirT
    BY <1>4, NoDirT DEF Kvm
  <2>2. [NoDir EXCEPT !.kern = a] \in DirT
    BY <1>5, <2>1 DEF DirT
  <2>4. /\ [NoDir EXCEPT !.kern = a].kern = a /\ [NoDir EXCEPT !.kern = a].pte = NoDir.pte
        /\ [NoDir EXCEPT !.kern = a].tab = NoDir.tab
    BY <2>1 DEF DirT
  <2> QED BY <2>1, <2>2, <2>4
<1>10. D2 = [D EXCEPT ![d] = Kvm(F)]
  <2>1. D2 = [D EXCEPT ![d] = [D[d] EXCEPT !.kern = a]]
    BY <1>3, <1>7
  <2>2. [D[d] EXCEPT !.kern = a] = Kvm(F)
    BY <1>3, <1>9
  <2> QED BY <2>1, <2>2
<1>11. Typed(b, C, L, ks, pd, nd2, hd, D2)
  <2>1. D2 \in [Frame -> DirT]
    BY <1>7, <1>9, <1>10
  <2> QED BY <1>5, <1>7, <2>1 DEF Typed
<1>12. Range(b) \subseteq Range(F) /\ Len(b) = Len(F) - NKTAB - 1
  <2>1. Range(T) \subseteq Range(F)
    BY <1>2, TailOnce DEF T
  <2> QED BY <1>2, <1>4, <1>5, <2>1
<1> HIDE DEF D2, nd2
<1>13. OwnsNow(SubSeq(F, NKTAB + 2, Len(F)), C, L, N, ks, pd, nd2, hd, D2) /\ Typed(SubSeq(F, NKTAB + 2, Len(F)), C, L, ks, pd, nd2, hd, D2)
       /\ Range(SubSeq(F, NKTAB + 2, Len(F))) \subseteq Range(F) /\ Len(SubSeq(F, NKTAB + 2, Len(F))) = Len(F) - NKTAB - 1
  BY <1>4, <1>8, <1>11, <1>12
<1>14. Kvm(F).kern = SubSeq(F, 2, NKTAB + 1) /\ Len(SubSeq(F, 2, NKTAB + 1)) = NKTAB
  BY <1>4, <1>5, <1>9
<1> QED BY <1>3, <1>9, <1>10, <1>13, <1>14 DEF D2, nd2, d

\* b, nd2 and D2 come from F, nd and D when setupkvm() gets its pages.
Carved(F, p, b, nd, nd2, D, D2) == /\ b = SubSeq(F, NKTAB + 2, Len(F)) /\ nd2 = [nd EXCEPT ![p] = Head(F)]
                                   /\ D2 = [D EXCEPT ![Head(F)] = Kvm(F)]

LEMMA SetUp ==
    ASSUME NEW F, NEW C, NEW L, NEW N, NEW ks, NEW pd, NEW nd, NEW hd, NEW D, Typed(F, C, L, ks, pd, nd, hd, D),
           OwnsNow(F, C, L, N, ks, pd, nd, hd, D), Len(F) > NKTAB, NEW p \in Pid, nd[p] = 0,
           NEW b, NEW nd2, NEW D2, Carved(F, p, b, nd, nd2, D, D2)
    PROVE  /\ OwnsNow(b, C, L, N, ks, pd, nd2, hd, D2) /\ Typed(b, C, L, ks, pd, nd2, hd, D2)
           /\ Kvm(F) \in DirT /\ Kvm(F).kern = SubSeq(F, 2, NKTAB + 1) /\ Len(SubSeq(F, 2, NKTAB + 1)) = NKTAB
           /\ Kvm(F).pte = NoDir.pte /\ Kvm(F).tab = NoDir.tab
           /\ Head(F) \in Frame /\ Range(b) \subseteq Range(F) /\ Len(b) = Len(F) - NKTAB - 1
<1>1. b = SubSeq(F, NKTAB + 2, Len(F)) /\ nd2 = [nd EXCEPT ![p] = Head(F)] /\ D2 = [D EXCEPT ![Head(F)] = Kvm(F)]
  BY DEF Carved
<1> QED BY <1>1, Setup

\* What is so while the machine starts.
LEMMA Early ==
    ASSUME Inv, boot # <<>>
    PROVE  /\ Kstacks = [p \in Pid |-> 0] /\ Pgdirs = [p \in Pid |-> 0] /\ Taken = [p \in Pid |-> 0] /\ Hands = [p \in Pid |-> 0]
           /\ Typed(freelist, cpus, leaked, Kstacks, Pgdirs, Taken, Hands, dir)
           /\ OwnsNow(freelist, cpus, leaked, Unfreed, Kstacks, Pgdirs, Taken, Hands, dir)
           /\ ptable = 0 /\ proc = [p \in Pid |-> NoProc] /\ job = [p \in Pid |-> NoJob] /\ 1 \in Pid
           /\ \A f \in Frame : Below(dir[f], 0) /\ Tabled(dir[f])
<1>1. /\ ptable = 0 /\ proc = [p \in Pid |-> NoProc] /\ job = [p \in Pid |-> NoJob] /\ (\A f \in Frame : Below(dir[f], 0))
      /\ (\A f \in Frame : Tabled(dir[f])) /\ Types /\ Owned
  BY DEF Inv, Booted
<1>2. Kstacks = [p \in Pid |-> 0] /\ Hands = [p \in Pid |-> 0] /\ Taken = [p \in Pid |-> 0] /\ Pgdirs = [p \in Pid |-> 0]
  <2>1. \A p \in Pid : proc[p].kstack = 0 /\ job[p].mem = 0 /\ job[p].d = 0
    BY <1>1, Idle, NoProcIs
  <2> QED BY <2>1 DEF Kstacks, Hands, Taken, Pgdirs
<1>3. 1 \in Pid /\ 0 \in Link
  BY DEF Pid, Link
<1>4. cpus \in Seq(Frame)
  <2>1. cpus \in Seq(1 .. NLOW) /\ 1 .. NLOW \subseteq Frame
    BY <1>1 DEF Types, Frame
  <2> QED BY <2>1
<1>5. Typed(freelist, cpus, leaked, Kstacks, Pgdirs, Taken, Hands, dir)
  BY <1>1, <1>2, <1>3, <1>4 DEF Typed, Types
<1> QED BY <1>1, <1>2, <1>3, <1>5 DEF Owned

\* Nobody is in a call: each process is at rest.
LEMMA Starts ==
    ASSUME Types', Owned', Booted', ptable' = 0, \A p \in Pid : job'[p] = NoJob,
           \A p \in Pid : proc'[p].state \in {"unused", "run"} /\ Image(proc'[p], NoJob, Dir(Pgdirs[p])', cr3'[p], before'[p]),
           \A d \in Frame : Tabled(dir'[d])
    PROVE  Inv'
<1>1. ASSUME NEW p \in Pid PROVE Thread(p)'
  <2>1. NoJob.d = 0 /\ job'[p] = NoJob
    BY Idle
  <2>2. Flow(NoJob) /\ Stage(NoJob, NoDir, proc'[p].sz)
    BY IdleJob
  <2>3. Dir(job[p].d)' = NoDir
    BY <2>1 DEF Dir
  <2> QED BY <2>1, <2>2, <2>3 DEF Thread
<1>2. Locks'
  <2>1. \A p \in Pid : p # 0
    BY DEF Pid
  <2>2. \A p \in Pid : job'[p].op = ""
    BY Idle
  <2> QED BY <2>1, <2>2 DEF Locks
<1> QED BY <1>1, <1>2 DEF Inv

\* While it starts, a step that leaves the processes alone.
LEMMA Alone ==
    ASSUME Inv, boot # <<>>, Types', Owned', Booted', UNCHANGED <<proc, cr3, job, ptable, before>>,
           \A d \in Frame : Tabled(dir'[d])
    PROVE  Inv'
<1>1. ptable' = 0 /\ \A p \in Pid : job'[p] = NoJob /\ proc'[p] = NoProc
  BY Early
<1>2. \A p \in Pid : proc'[p].state \in {"unused", "run"} /\ Image(proc'[p], NoJob, Dir(Pgdirs[p])', cr3'[p], before'[p])
  BY <1>1, NoProcIs
<1> QED BY <1>1, <1>2, Starts

LEMMA Kinit1Keeps == ASSUME Inv, kinit1 PROVE Inv'
<1> DEFINE F2 == Reverse([k \in 1 .. NLOW |-> k])
<1>1. /\ boot[1] = "kinit1" /\ boot # <<>> /\ boot' = Tail(boot) /\ freelist' = F2 \o freelist
      /\ UNCHANGED <<use_lock, dir, proc, cr3, job, ptable, cpus, panicked, calls, leaked, before>>
  BY DEF kinit1, Booting, BootStep, freerange, history
<1>2. boot = main /\ freelist = <<>> /\ ~use_lock /\ cpus = <<>>
  BY <1>1 DEF Inv, Booted, main
<1>3. boot' = <<"kvmalloc", "startothers", "kinit2", "userinit">>
  BY <1>1, <1>2 DEF main
<1>4. F2 \in Seq(Frame) /\ Once(F2) /\ Range(F2) = 1 .. NLOW /\ Len(F2) = NLOW
  <2>1. [k \in 1 .. NLOW |-> k] = [k \in 1 .. NLOW |-> 0 + k]
    OBVIOUS
  <2>2. LET s == Reverse([k \in 1 .. NLOW |-> 0 + k])
        IN  s \in Seq(Frame) /\ Once(s) /\ Range(s) = (0 + 1) .. (0 + NLOW) /\ Len(s) = NLOW
    BY FreeRange
  <2>3. (0 + 1) .. (0 + NLOW) = 1 .. NLOW
    OBVIOUS
  <2> QED BY <2>1, <2>2, <2>3
<1> HIDE DEF F2
<1>5. Unfreed = Frame /\ Unfreed' = Frame \ Range(F2)
  <2>1. Unfreed = Frame
    BY <1>2 DEF Unfreed
  <2>2. Unfreed' = {f \in Frame : f > NLOW}
    BY <1>1, <1>2, <1>3 DEF Unfreed, main
  <2>3. {f \in Frame : f > NLOW} = Frame \ (1 .. NLOW)
    BY DEF Frame
  <2> QED BY <1>4, <2>1, <2>2, <2>3
<1>6. /\ OwnsNow(F2 \o freelist, cpus, leaked, Unfreed \ Range(F2), Kstacks, Pgdirs, Taken, Hands, dir)
      /\ F2 \o freelist \in Seq(Frame) /\ Range(F2 \o freelist) = Range(F2) \cup Range(freelist)
      /\ Len(F2 \o freelist) = Len(F2) + Len(freelist)
  <2>1. Range(F2) \subseteq Unfreed
    BY <1>4, <1>5 DEF Frame
  <2>2. /\ Typed(freelist, cpus, leaked, Kstacks, Pgdirs, Taken, Hands, dir)
        /\ OwnsNow(freelist, cpus, leaked, Unfreed, Kstacks, Pgdirs, Taken, Hands, dir)
    BY <1>1, Early
  <2>3. F2 \in Seq(Frame) /\ Once(F2)
    BY <1>4
  <2> QED BY <2>1, <2>2, <2>3, Supply
<1>7. Kstacks' = Kstacks /\ Pgdirs' = Pgdirs /\ Taken' = Taken /\ Hands' = Hands
  BY <1>1 DEF Kstacks, Pgdirs, Taken, Hands
<1>8. Owned'
  BY <1>1, <1>5, <1>6, <1>7 DEF Owned
<1>9. Range(freelist) = {} /\ Len(freelist) = 0
  BY <1>2 DEF Range
<1>10. Types'
  BY <1>1, <1>6 DEF Inv, Types
<1>11. Booted'
  <2>1. Len(freelist') = NLOW /\ Range(freelist') \subseteq 1 .. NLOW
    BY <1>1, <1>4, <1>6, <1>9
  <2>2. boot' # <<>> /\ boot' \notin {<<"userinit">>, <<>>}
    BY <1>3
  <2>3. cpus' = <<>> /\ ~use_lock'
    BY <1>1, <1>2
  <2>4. /\ ptable' = 0 /\ proc' = [p \in Pid |-> NoProc] /\ job' = [p \in Pid |-> NoJob]
        /\ \A f \in Frame : Below(dir'[f], 0)
    BY <1>1, Early
  <2> QED BY <1>3, <2>1, <2>2, <2>3, <2>4 DEF Booted
<1>12. \A d \in Frame : Tabled(dir'[d])
  BY <1>1, Early
<1> QED BY <1>1, <1>8, <1>10, <1>11, <1>12, Alone

LEMMA Kinit2Keeps == ASSUME Inv, kinit2 PROVE Inv'
<1> DEFINE F2 == Reverse([k \in 1 .. (NFRAME - NLOW) |-> NLOW + k])
<1>1. /\ boot[1] = "kinit2" /\ boot # <<>> /\ boot' = Tail(boot) /\ freelist' = F2 \o freelist /\ use_lock' = TRUE
      /\ UNCHANGED <<dir, proc, cr3, job, ptable, cpus, panicked, calls, leaked, before>>
  BY DEF kinit2, Booting, BootStep, freerange, history
<1>2. boot = <<"kinit2", "userinit">> /\ Len(freelist) = NLOW - NKTAB - NCPU /\ ~use_lock
  BY <1>1 DEF Inv, Booted, main
<1>3. boot' = <<"userinit">>
  BY <1>1, <1>2
<1>4. F2 \in Seq(Frame) /\ Once(F2) /\ Range(F2) = (NLOW + 1) .. NFRAME /\ Len(F2) = NFRAME - NLOW
  <2>1. NFRAME - NLOW \in Nat /\ NLOW + (NFRAME - NLOW) = NFRAME
    OBVIOUS
  <2> DEFINE n == NFRAME - NLOW
  <2>2. n \in Nat /\ NLOW + n = NFRAME /\ F2 = Reverse([k \in 1 .. n |-> NLOW + k])
    BY <2>1
  <2> HIDE DEF n, F2
  <2>3. NLOW \in Nat /\ NLOW + n <= NFRAME
    BY <2>2
  <2>4. LET s == Reverse([k \in 1 .. n |-> NLOW + k])
        IN  s \in Seq(Frame) /\ Once(s) /\ Range(s) = (NLOW + 1) .. (NLOW + n) /\ Len(s) = n
    BY <2>2, <2>3, FreeRange
  <2> QED BY <2>2, <2>4 DEF n
<1> HIDE DEF F2
<1>5. Unfreed = Range(F2) /\ Unfreed' = {}
  <2>1. Unfreed = {f \in Frame : f > NLOW}
    BY <1>2 DEF Unfreed, main
  <2>2. Unfreed' = {}
    <3>1. boot' # main
      <4>1. boot'[1] = "userinit" /\ main[1] = "kinit1"
        BY <1>3 DEF main
      <4> QED BY <4>1
    <3> QED BY <1>1, <3>1 DEF Unfreed
  <2>3. {f \in Frame : f > NLOW} = (NLOW + 1) .. NFRAME
    BY DEF Frame
  <2> QED BY <1>4, <2>1, <2>2, <2>3
<1>6. /\ OwnsNow(F2 \o freelist, cpus, leaked, Unfreed \ Range(F2), Kstacks, Pgdirs, Taken, Hands, dir)
      /\ F2 \o freelist \in Seq(Frame) /\ Len(F2 \o freelist) = Len(F2) + Len(freelist)
  <2>1. Range(F2) \subseteq Unfreed
    BY <1>5
  <2>2. /\ Typed(freelist, cpus, leaked, Kstacks, Pgdirs, Taken, Hands, dir)
        /\ OwnsNow(freelist, cpus, leaked, Unfreed, Kstacks, Pgdirs, Taken, Hands, dir)
    BY <1>1, Early
  <2>3. F2 \in Seq(Frame) /\ Once(F2)
    BY <1>4
  <2> QED BY <2>1, <2>2, <2>3, Supply, ZenonT(40)
<1>7. Kstacks' = Kstacks /\ Pgdirs' = Pgdirs /\ Taken' = Taken /\ Hands' = Hands
  BY <1>1 DEF Kstacks, Pgdirs, Taken, Hands
<1>8. Owned'
  <2>1. Unfreed \ Range(F2) = Unfreed'
    BY <1>5
  <2> QED BY <1>1, <1>6, <1>7, <2>1 DEF Owned
<1>10. Types'
  BY <1>1, <1>6 DEF Inv, Types
<1>11. Booted'
  <2>1. Len(freelist') = NFRAME - NKTAB - NCPU
    BY <1>1, <1>2, <1>4, <1>6
  <2>4. /\ ptable' = 0 /\ proc' = [p \in Pid |-> NoProc] /\ job' = [p \in Pid |-> NoJob]
        /\ \A f \in Frame : Below(dir'[f], 0)
    BY <1>1, Early
  <2> QED BY <1>1, <1>3, <2>1, <2>4 DEF Booted
<1>12. \A d \in Frame : Tabled(dir'[d])
  BY <1>1, Early
<1> QED BY <1>1, <1>8, <1>10, <1>11, <1>12, Alone

LEMMA StartothersKeeps == ASSUME Inv, startothers PROVE Inv'
<1>1. /\ boot[1] = "startothers" /\ boot # <<>> /\ UNCHANGED <<use_lock, dir, proc, cr3, job, ptable, panicked, calls, leaked, before>>
  BY DEF startothers, Booting, history
<1>2. /\ boot = <<"startothers", "kinit2", "userinit">> /\ Len(freelist) + Len(cpus) = NLOW - NKTAB - 1 /\ Len(cpus) < NCPU
      /\ ~use_lock /\ Range(freelist) \subseteq 1 .. NLOW
  BY <1>1 DEF Inv, Booted, main
<1>3. Types /\ freelist \in Seq(Frame) /\ cpus \in Seq(1 .. NLOW) /\ Len(freelist) \in Nat /\ Len(cpus) \in Nat
  BY DEF Inv, Types
<1>4. Kstacks' = Kstacks /\ Pgdirs' = Pgdirs /\ Taken' = Taken /\ Hands' = Hands
  BY <1>1 DEF Kstacks, Pgdirs, Taken, Hands
<1>5. /\ Typed(freelist, cpus, leaked, Kstacks, Pgdirs, Taken, Hands, dir)
      /\ OwnsNow(freelist, cpus, leaked, Unfreed, Kstacks, Pgdirs, Taken, Hands, dir)
      /\ ptable' = 0 /\ proc' = [p \in Pid |-> NoProc] /\ job' = [p \in Pid |-> NoJob]
      /\ \A f \in Frame : Below(dir'[f], 0) /\ Tabled(dir'[f])
  BY <1>1, Early
<1>6. CASE Len(cpus) = NCPU - 1
  <2>1. boot' = <<"kinit2", "userinit">> /\ freelist' = freelist /\ cpus' = cpus
    BY <1>2, <1>6 DEF startothers, BootStep
  <2>2. Unfreed' = Unfreed
    BY <1>1, <1>2, <2>1 DEF Unfreed, main
  <2>3. Owned'
    BY <1>1, <1>4, <1>5, <2>1, <2>2 DEF Owned
  <2>4. Types'
    BY <1>1, <1>3, <2>1 DEF Types
  <2>5. Len(freelist') = NLOW - NKTAB - NCPU
    BY <1>2, <1>3, <1>6, <2>1
  <2>6. Booted'
    BY <1>1, <1>2, <1>5, <2>1, <2>5 DEF Booted
  <2> QED BY <1>1, <1>5, <2>3, <2>4, <2>6, Alone
<1>7. CASE Len(cpus) # NCPU - 1
  <2>1. freelist' = Tail(freelist) /\ cpus' = Append(cpus, Head(freelist)) /\ boot' = boot
    BY <1>7 DEF startothers, kalloc
  <2>2. freelist # <<>>
    <3>1. Len(freelist) > 0
      BY <1>2, <1>3, <1>7
    <3> QED BY <3>1
  <2>3. OwnsNow(Tail(freelist), Append(cpus, Head(freelist)), leaked, Unfreed, Kstacks, Pgdirs, Taken, Hands, dir)
    BY <1>5, <2>2, TakeCpu
  <2>4. Unfreed' = Unfreed
    BY <1>1, <2>1 DEF Unfreed
  <2>5. Owned'
    BY <1>1, <1>4, <2>1, <2>3, <2>4 DEF Owned
  <2>6. /\ Head(freelist) \in Range(freelist) /\ Tail(freelist) \in Seq(Frame) /\ Range(Tail(freelist)) \subseteq Range(freelist)
        /\ Len(Tail(freelist)) = Len(freelist) - 1
    <3>1. Once(freelist)
      BY DEF Inv, Owned, OwnsNow, Owns
    <3>2. Len(Tail(freelist)) = Len(freelist) - 1
      BY <1>3, <2>2
    <3> QED BY <1>3, <2>2, <3>1, <3>2, TailOnce
  <2>7. Head(freelist) \in 1 .. NLOW
    BY <1>2, <2>6
  <2>8. cpus' \in Seq(1 .. NLOW) /\ Len(cpus') = Len(cpus) + 1
    BY <1>3, <2>1, <2>7
  <2>9. Types'
    BY <1>1, <1>3, <2>1, <2>6, <2>8 DEF Types
  <2>10. Len(freelist') + Len(cpus') = NLOW - NKTAB - 1 /\ Len(cpus') < NCPU
    BY <1>2, <1>3, <1>7, <2>1, <2>6, <2>8, SMTT(30)
  <2>11. Range(freelist') \subseteq 1 .. NLOW
    BY <1>2, <2>1, <2>6
  <2>12. Booted'
    BY <1>1, <1>2, <1>5, <2>1, <2>10, <2>11 DEF Booted
  <2> QED BY <1>1, <1>5, <2>1, <2>5, <2>9, <2>12, Alone
<1> QED BY <1>6, <1>7

LEMMA KvmallocKeeps == ASSUME Inv, kvmalloc PROVE Inv'
<1> DEFINE F == freelist
           b == SubSeq(F, NKTAB + 2, Len(F))
           D2 == [dir EXCEPT ![Head(F)] = Kvm(F)]
           nd == [Taken EXCEPT ![1] = Head(F)]
<1>1. /\ boot[1] = "kvmalloc" /\ boot # <<>> /\ boot' = Tail(boot) /\ dir' = D2 /\ freelist' = b
      /\ UNCHANGED <<use_lock, proc, cr3, job, ptable, cpus, panicked, calls, leaked, before>>
  BY DEF kvmalloc, Booting, BootStep, history
<1>2. /\ boot = <<"kvmalloc", "startothers", "kinit2", "userinit">> /\ Len(F) = NLOW /\ ~use_lock /\ cpus = <<>>
      /\ Range(F) \subseteq 1 .. NLOW
  BY <1>1 DEF Inv, Booted, main
<1>3. boot' = <<"startothers", "kinit2", "userinit">>
  BY <1>1, <1>2
<1>4. /\ Typed(F, cpus, leaked, Kstacks, Pgdirs, Taken, Hands, dir)
      /\ OwnsNow(F, cpus, leaked, Unfreed, Kstacks, Pgdirs, Taken, Hands, dir)
      /\ Taken = [p \in Pid |-> 0] /\ 1 \in Pid
      /\ \A f \in Frame : Below(dir[f], 0) /\ Tabled(dir[f])
  BY <1>1, Early
<1>5. Len(F) > NKTAB /\ Taken[1] = 0
  BY <1>2, <1>4
<1> HIDE DEF F
<1>6. /\ OwnsNow(b, cpus, leaked, Unfreed, Kstacks, Pgdirs, nd, Hands, D2)
      /\ Typed(b, cpus, leaked, Kstacks, Pgdirs, nd, Hands, D2)
      /\ Kvm(F) \in DirT /\ Kvm(F).kern = SubSeq(F, 2, NKTAB + 1) /\ Len(SubSeq(F, 2, NKTAB + 1)) = NKTAB
      /\ Kvm(F).pte = NoDir.pte /\ Kvm(F).tab = NoDir.tab
      /\ Head(F) \in Frame /\ Range(b) \subseteq Range(F) /\ Len(b) = Len(F) - NKTAB - 1
  <2>1. Carved(F, 1, b, Taken, nd, dir, D2)
    BY DEF Carved
  <2>2. /\ Typed(F, cpus, leaked, Kstacks, Pgdirs, Taken, Hands, dir)
        /\ OwnsNow(F, cpus, leaked, Unfreed, Kstacks, Pgdirs, Taken, Hands, dir)
    BY <1>4
  <2>3. Len(F) > NKTAB /\ 1 \in Pid /\ Taken[1] = 0
    BY <1>4, <1>5
  <2> HIDE DEF b, D2, nd
  <2> QED BY <2>1, <2>2, <2>3, SetUp
<1>7. nd[1] = Head(F) /\ Head(F) # 0 /\ [nd EXCEPT ![1] = 0] = Taken /\ dir \in [Frame -> DirT] /\ D2[Head(F)] = Kvm(F)
      /\ \A f \in Frame : f # Head(F) => D2[f] = dir[f]
  <2>1. dir \in [Frame -> DirT]
    BY <1>4 DEF Typed
  <2>2. Head(F) # 0
    BY <1>6, UsedFrame
  <2> QED BY <1>4, <1>6, <2>1, <2>2
<1>8. Kvm(F) # NoDir
  <2>1. NoDir.kern = <<>> /\ Len(Kvm(F).kern) = NKTAB /\ NKTAB # 0 /\ Len(<<>>) = 0
    BY <1>6, NoDirT
  <2> QED BY <2>1
<1> HIDE DEF b, D2, nd
<1>9. OwnsNow(b, cpus, leaked, Unfreed, Kstacks, Pgdirs, Taken, Hands, D2)
  <2>1. nd[1] # 0 /\ D2[nd[1]] # NoDir
    BY <1>7, <1>8
  <2>2. OwnsNow(b, cpus, leaked, Unfreed, Kstacks, Pgdirs, [nd EXCEPT ![1] = 0], Hands, D2)
    BY <1>4, <1>6, <2>1, Settle
  <2> QED BY <1>7, <2>2
<1>10. Kstacks' = Kstacks /\ Pgdirs' = Pgdirs /\ Taken' = Taken /\ Hands' = Hands
  BY <1>1 DEF Kstacks, Pgdirs, Taken, Hands
<1>11. Unfreed' = Unfreed
  BY <1>1, <1>2, <1>3 DEF Unfreed, main
<1>12. Owned'
  BY <1>1, <1>9, <1>10, <1>11 DEF Owned
<1>13. Types'
  <2>1. b \in Seq(Frame) /\ D2 \in [Frame -> DirT]
    BY <1>6 DEF Typed
  <2> QED BY <1>1, <2>1 DEF Inv, Types
<1>14. ASSUME NEW f \in Frame PROVE Below(D2[f], 0) /\ Tabled(D2[f])
  <2>1. CASE f = Head(F)
    <3>1. D2[f].pte = NoDir.pte /\ \A g \in Page : NoDir.pte[g] = 0 /\ ~(g < 0)
      BY <1>6, <1>7, <2>1 DEF NoDir, Page
    <3> QED BY <3>1 DEF Below, Tabled
  <2>2. CASE f # Head(F)
    BY <1>4, <1>7, <2>2
  <2> QED BY <2>1, <2>2
<1>15. Booted'
  <2>1. Len(freelist') + Len(cpus') = NLOW - NKTAB - 1 /\ Len(cpus') < NCPU
    <3>1. Len(cpus') = 0
      BY <1>1, <1>2
    <3> QED BY <1>1, <1>2, <1>6, <3>1
  <2>2. Range(freelist') \subseteq 1 .. NLOW
    BY <1>1, <1>2, <1>6
  <2>3. /\ ptable' = 0 /\ proc' = [p \in Pid |-> NoProc] /\ job' = [p \in Pid |-> NoJob]
    BY <1>1, Early
  <2>4. \A f \in Frame : Below(dir'[f], 0)
    BY <1>1, <1>14
  <2> QED BY <1>1, <1>2, <1>3, <2>1, <2>2, <2>3, <2>4 DEF Booted
<1>16. \A d \in Frame : Tabled(dir'[d])
  BY <1>1, <1>14
<1> QED BY <1>1, <1>12, <1>13, <1>15, <1>16, Alone

\* b is s from place n on.
From(s, n, b) == b = SubSeq(s, n, Len(s))

\* The two pages that follow the kernel's tables.
LEMMA NextTwo ==
    ASSUME NEW S, NEW s \in Seq(S), NEW n \in Nat \ {0}, n + 1 <= Len(s), NEW b, From(s, n, b)
    PROVE  /\ b # <<>> /\ Head(b) = s[n] /\ Head(b) \in S /\ Tail(b) # <<>> /\ Tail(b) \in Seq(S)
           /\ Head(Tail(b)) = s[n + 1] /\ Head(Tail(b)) \in S /\ Tail(Tail(b)) = SubSeq(s, n + 2, Len(s))
           /\ Tail(Tail(b)) \in Seq(S) /\ Len(Tail(Tail(b))) = Len(s) - n - 1
<1> DEFINE m == Len(s)
<1>1. m \in Nat /\ n \in 1 .. m /\ m \in n .. m /\ n + 1 \in 1 .. m /\ m \in (n + 1) .. m
  OBVIOUS
<1>2. \A i \in 1 .. m : s[i] \in S
  OBVIOUS
<1>3. Head(SubSeq(s, n, m)) = s[n] /\ Tail(SubSeq(s, n, m)) = SubSeq(s, n + 1, m)
  BY <1>1, HeadTailOfSubSeq
<1>4. Head(SubSeq(s, n + 1, m)) = s[n + 1] /\ Tail(SubSeq(s, n + 1, m)) = SubSeq(s, (n + 1) + 1, m)
  BY <1>1, HeadTailOfSubSeq
<1>5. (n + 1) + 1 = n + 2
  OBVIOUS
<1> HIDE DEF m
<1>6. ASSUME NEW i \in Nat, 1 <= i, i <= m + 1
      PROVE  SubSeq(s, i, m) \in Seq(S) /\ (Len(SubSeq(s, i, m)) = IF i <= m THEN m - i + 1 ELSE 0)
  <2>1. \A x \in i .. m : s[x] \in S
    BY <1>1, <1>2, <1>6
  <2>2. i \in Int /\ m \in Int
    BY <1>1
  <2> QED BY <2>1, <2>2, SubSeqProperties
<1>7. /\ SubSeq(s, n, m) \in Seq(S) /\ Len(SubSeq(s, n, m)) > 0 /\ SubSeq(s, n + 1, m) \in Seq(S)
      /\ Len(SubSeq(s, n + 1, m)) > 0
  BY <1>1, <1>6
<1>8. SubSeq(s, n + 2, m) \in Seq(S) /\ Len(SubSeq(s, n + 2, m)) = m - n - 1
  <2>1. n + 2 \in Nat /\ 1 <= n + 2 /\ n + 2 <= m + 1 /\ (IF n + 2 <= m THEN m - (n + 2) + 1 ELSE 0) = m - n - 1
    BY <1>1
  <2> QED BY <1>6, <2>1
<1>9. SubSeq(s, n, m) # <<>> /\ SubSeq(s, n + 1, m) # <<>>
  <2>1. \A t \in Seq(S) : Len(t) > 0 => t # <<>>
    OBVIOUS
  <2> QED BY <1>7, <2>1
<1>10. b = SubSeq(s, n, m)
  BY DEF From, m
<1> QED BY <1>1, <1>2, <1>3, <1>4, <1>5, <1>7, <1>8, <1>9, <1>10 DEF m

LEMMA UserinitKeeps == ASSUME Inv, userinit PROVE Inv'
<1> DEFINE F == freelist
           s == Tail(F)
           d == Head(s)
           n == NKTAB + 2
           b == SubSeq(s, n, Len(s))
           P == [Kvm(s) EXCEPT !.pte[0] = s[n], !.tab[0] = s[n + 1]]
           r == [state |-> "run", kstack |-> Head(F), pgdir |-> d, sz |-> PGSIZE, parent |-> 0]
           ks == [Kstacks EXCEPT ![1] = Head(F)]
           nd == [Taken EXCEPT ![1] = d]
           pd == [Pgdirs EXCEPT ![1] = d]
           D2 == [dir EXCEPT ![d] = Kvm(s)]
           D3 == [D2 EXCEPT ![d].pte[0] = Head(b)]
           D4 == [D3 EXCEPT ![d].tab[0] = Head(Tail(b))]
<1>1. boot[1] = "userinit" /\ boot # <<>> /\ UNCHANGED <<use_lock, job, ptable, cpus, panicked, calls, leaked, before>>
  BY DEF userinit, Booting, history
<1>2. boot = <<"userinit">> /\ Len(F) = NFRAME - NKTAB - NCPU /\ use_lock /\ panicked = "no"
  BY <1>1 DEF Inv, Types, Booted, main
<1>3. /\ Typed(F, cpus, leaked, Kstacks, Pgdirs, Taken, Hands, dir)
      /\ OwnsNow(F, cpus, leaked, Unfreed, Kstacks, Pgdirs, Taken, Hands, dir)
      /\ Kstacks = [p \in Pid |-> 0] /\ Pgdirs = [p \in Pid |-> 0] /\ Taken = [p \in Pid |-> 0]
      /\ 1 \in Pid /\ ptable = 0 /\ proc = [p \in Pid |-> NoProc] /\ job = [p \in Pid |-> NoJob]
      /\ \A f \in Frame : Below(dir[f], 0) /\ Tabled(dir[f])
  BY <1>1, Early
<1>4. F \in Seq(Frame) /\ Len(F) \in Nat /\ Len(F) >= NKTAB + 4 /\ F # <<>>
  <2>1. F \in Seq(Frame)
    BY <1>3 DEF Typed
  <2>2. Len(F) \in Nat /\ Len(F) >= NKTAB + 4
    BY <1>2, <2>1
  <2> QED BY <2>1, <2>2
<1>5. /\ s \in Seq(Frame) /\ s = SubSeq(F, 2, Len(F)) /\ Len(s) = Len(F) - 1 /\ d = F[2] /\ s # <<>> /\ d \in Frame
      /\ Head(F) \in Frame
  <2>1. s \in Seq(Frame) /\ Len(s) = Len(F) - 1 /\ s = SubSeq(F, 2, Len(F)) /\ \A i \in 1 .. Len(F) - 1 : s[i] = F[i + 1]
    BY <1>4, Tails
  <2>2. Len(s) > 0 /\ 1 \in 1 .. Len(F) - 1 /\ 1 + 1 = 2
    BY <1>4, <2>1
  <2>3. d = s[1] /\ d \in Frame /\ s # <<>>
    <3>1. \A t \in Seq(Frame) : Len(t) > 0 => Head(t) = t[1] /\ Head(t) \in Frame /\ t # <<>>
      OBVIOUS
    <3> HIDE DEF s, F
    <3> QED BY <2>1, <2>2, <3>1
  <2>4. s[1] = F[2]
    <3> HIDE DEF s, F
    <3>1. s[1] = F[1 + 1]
      BY <2>1, <2>2
    <3> QED BY <2>2, <3>1
  <2>5. Head(F) \in Frame
    BY <1>4
  <2> QED BY <2>1, <2>3, <2>4, <2>5
<1>6. /\ boot' = <<>> /\ freelist' = SubSeq(s, n + 2, Len(s))
      /\ dir' = [dir EXCEPT ![d] = P] /\ proc' = [proc EXCEPT ![1] = r] /\ cr3' = [cr3 EXCEPT ![1] = Fresh(d)]
  <2>1. boot' = <<>>
    BY <1>2 DEF userinit, BootStep
  <2>2. NKTAB + 4 = n + 2 /\ NKTAB + 3 = n + 1
    OBVIOUS
  <2> QED BY <1>5, <2>1, <2>2 DEF userinit, Fresh
<1>7. n \in Nat \ {0} /\ n + 1 <= Len(s) /\ NKTAB < Len(s)
  <2> HIDE DEF s, F
  <2> QED BY <1>4, <1>5
<1> HIDE DEF F, s
<1>8. /\ b # <<>> /\ Head(b) = s[n] /\ Head(b) \in Frame /\ Tail(b) # <<>> /\ Tail(b) \in Seq(Frame)
      /\ Head(Tail(b)) = s[n + 1] /\ Head(Tail(b)) \in Frame /\ Tail(Tail(b)) = SubSeq(s, n + 2, Len(s))
      /\ Tail(Tail(b)) \in Seq(Frame)
  <2>1. From(s, n, b) /\ s \in Seq(Frame)
    BY <1>5 DEF From
  <2> HIDE DEF n, b
  <2>2. n \in Nat \ {0} /\ n + 1 <= Len(s)
    BY <1>7
  <2> QED BY <2>1, <2>2, NextTwo
<1>9. /\ OwnsNow(s, cpus, leaked, Unfreed, ks, Pgdirs, Taken, Hands, dir)
      /\ Typed(s, cpus, leaked, ks, Pgdirs, Taken, Hands, dir)
  <2>1. Kstacks[1] = 0 /\ Head(F) \in Link
    BY <1>3, <1>5 DEF Link, Frame
  <2>2. OwnsNow(Tail(F), cpus, leaked, Unfreed, [Kstacks EXCEPT ![1] = Head(F)], Pgdirs, Taken, Hands, dir)
    BY <1>3, <1>4, <2>1, TakeKstack
  <2> QED BY <1>3, <1>5, <2>1, <2>2 DEF Typed, s
<1>10. /\ OwnsNow(b, cpus, leaked, Unfreed, ks, Pgdirs, nd, Hands, D2) /\ Typed(b, cpus, leaked, ks, Pgdirs, nd, Hands, D2)
       /\ Kvm(s) \in DirT /\ Kvm(s).kern = SubSeq(s, 2, NKTAB + 1) /\ Len(SubSeq(s, 2, NKTAB + 1)) = NKTAB
       /\ Kvm(s).pte = NoDir.pte /\ Kvm(s).tab = NoDir.tab
  <2>1. Carved(s, 1, b, Taken, nd, dir, D2)
    BY DEF Carved
  <2>2. 1 \in Pid /\ Taken[1] = 0
    BY <1>3
  <2> HIDE DEF b, D2, nd, ks
  <2> QED BY <1>7, <1>9, <2>1, <2>2, SetUp
<1> HIDE DEF b, ks
<1>11. /\ OwnsNow(b, cpus, leaked, Unfreed, ks, pd, Taken, Hands, D2) /\ Typed(b, cpus, leaked, ks, pd, Taken, Hands, D2)
  <2>1. nd[1] = d /\ d # 0 /\ Pgdirs[1] = 0 /\ [nd EXCEPT ![1] = 0] = Taken /\ pd = [Pgdirs EXCEPT ![1] = nd[1]] /\ 1 \in Pid
    BY <1>3, <1>5, UsedFrame
  <2>2. nd[1] # 0
    BY <2>1
  <2>3. pd \in [Pid -> Link]
    <3>1. d \in Link
      BY <1>5 DEF Link, Frame
    <3> QED BY <1>3, <3>1 DEF Typed
  <2>4. Typed(b, cpus, leaked, ks, pd, Taken, Hands, D2)
    BY <1>3, <1>10, <2>3 DEF Typed
  <2> HIDE DEF nd, D2, pd
  <2>5. OwnsNow(b, cpus, leaked, Unfreed, ks, [Pgdirs EXCEPT ![1] = nd[1]], [nd EXCEPT ![1] = 0], Hands, D2)
    BY <1>10, <2>1, <2>2, Inherit
  <2> QED BY <2>1, <2>4, <2>5
<1>12. /\ dir \in [Frame -> DirT] /\ D2 \in [Frame -> DirT] /\ D2[d] = Kvm(s) /\ 0 \in Page /\ 0 \in Table
       /\ \A f \in Frame : f # d => D2[f] = dir[f]
  <2>1. 0 \in Page /\ 0 \in Table
    BY Space DEF Page, Table
  <2>2. dir \in [Frame -> DirT]
    BY <1>3 DEF Typed
  <2> QED BY <1>5, <1>10, <2>1, <2>2
<1>13. /\ (\A g \in Page : Kvm(s).pte[g] = 0) /\ (\A t \in Table : Kvm(s).tab[t] = 0)
  BY <1>10, NoDirT
<1>14. \E p \in Pid : Taken[p] = d \/ pd[p] = d
  BY <1>3
<1> HIDE DEF pd, nd
<1>15. /\ OwnsNow(Tail(b), cpus, leaked, Unfreed, ks, pd, Taken, Hands, D3)
       /\ Typed(Tail(b), cpus, leaked, ks, pd, Taken, Hands, D3)
       /\ D3[d] = [Kvm(s) EXCEPT !.pte[0] = s[n]] /\ D3[d].tab = Kvm(s).tab
  <2>1. D2[d].pte[0] = 0
    BY <1>12, <1>13
  <2>2. Head(b) \in Link
    BY <1>8 DEF Link, Frame
  <2>3. [Kvm(s) EXCEPT !.pte[0] = Head(b)] \in DirT /\ [Kvm(s) EXCEPT !.pte[0] = Head(b)].tab = Kvm(s).tab
    BY <1>10, <1>12, <2>2 DEF DirT
  <2>4. D3 = [D2 EXCEPT ![d] = [Kvm(s) EXCEPT !.pte[0] = Head(b)]]
    BY <1>5, <1>12
  <2>5. D3 \in [Frame -> DirT] /\ D3[d] = [Kvm(s) EXCEPT !.pte[0] = Head(b)]
    BY <1>5, <1>12, <2>3, <2>4
  <2>6. Typed(Tail(b), cpus, leaked, ks, pd, Taken, Hands, D3)
    BY <1>8, <1>11, <2>5 DEF Typed
  <2>7. OwnsNow(Tail(b), cpus, leaked, Unfreed, ks, pd, Taken, Hands, [D2 EXCEPT ![d].pte[0] = Head(b)])
    <3>1. d \in Frame /\ b # <<>> /\ 0 \in Page
      BY <1>5, <1>8, <1>12
    <3> HIDE DEF D2, D3, d
    <3> QED BY <1>11, <1>14, <2>1, <3>1, TakePage
  <2> QED BY <1>8, <2>3, <2>5, <2>6, <2>7
<1>16. /\ OwnsNow(Tail(Tail(b)), cpus, leaked, Unfreed, ks, pd, Taken, Hands, D4)
       /\ D4 = [dir EXCEPT ![d] = P] /\ D4 \in [Frame -> DirT]
  <2>1. D3[d].tab[0] = 0 /\ D3 \in [Frame -> DirT]
    BY <1>12, <1>13, <1>15 DEF Typed
  <2>2. Head(Tail(b)) \in Link
    BY <1>8 DEF Link, Frame
  <2>3. OwnsNow(Tail(Tail(b)), cpus, leaked, Unfreed, ks, pd, Taken, Hands, [D3 EXCEPT ![d].tab[0] = Head(Tail(b))])
    <3>1. d \in Frame /\ Tail(b) # <<>> /\ 0 \in Table /\ D3[d].tab[0] = 0
      BY <1>5, <1>8, <1>12, <2>1
    <3>2. /\ OwnsNow(Tail(b), cpus, leaked, Unfreed, ks, pd, Taken, Hands, D3)
          /\ Typed(Tail(b), cpus, leaked, ks, pd, Taken, Hands, D3)
      BY <1>15
    <3> HIDE DEF D3, D4, d
    <3> QED BY <1>14, <3>1, <3>2, TakeTab
  <2>4. D4 = [D3 EXCEPT ![d] = [D3[d] EXCEPT !.tab[0] = Head(Tail(b))]]
    BY <1>5, <2>1
  <2>5. [D3[d] EXCEPT !.tab[0] = Head(Tail(b))] = P
    BY <1>8, <1>15
  <2>6. P \in DirT
    <3>1. D3[d] \in DirT
      BY <1>5, <2>1
    <3>2. [D3[d] EXCEPT !.tab[0] = Head(Tail(b))] \in DirT
      <4> DEFINE e == D3[d]
      <4> HIDE DEF e
      <4>1. e \in DirT => [e EXCEPT !.tab[0] = Head(Tail(b))] \in DirT
        BY <1>12, <2>2 DEF DirT
      <4> QED BY <3>1, <4>1 DEF e
    <3> QED BY <2>5, <3>2
  <2>7. \A f \in Frame : f # d => D3[f] = dir[f]
    BY <1>12, SMTT(30)
  <2>8. D4 \in [Frame -> DirT] /\ D4[d] = P /\ \A f \in Frame : f # d => D4[f] = dir[f]
    BY <1>5, <2>1, <2>4, <2>5, <2>6, <2>7
  <2>9. D4 = [dir EXCEPT ![d] = P]
    <3> HIDE DEF D4, P, d
    <3>1. [dir EXCEPT ![d] = P] \in [Frame -> DirT] /\ [dir EXCEPT ![d] = P][d] = P /\ \A f \in Frame : f # d => [dir EXCEPT ![d] = P][f] = dir[f]
      BY <1>5, <1>12, <2>6
    <3>2. \A f \in Frame : D4[f] = [dir EXCEPT ![d] = P][f]
      BY <2>8, <3>1
    <3> QED BY <2>8, <3>1, <3>2
  <2> QED BY <2>3, <2>8, <2>9
<1>17. /\ P.kern = Kvm(s).kern /\ (\A g \in Page : P.pte[g] = IF g = 0 THEN s[n] ELSE 0) /\ P.tab[0] = s[n + 1]
       /\ P \in DirT /\ s[n] # 0 /\ s[n + 1] # 0
  <2>1. s[n] # 0 /\ s[n + 1] # 0
    BY <1>8, UsedFrame
  <2> DEFINE e == Kvm(s)
  <2>2. e \in DirT /\ (\A g \in Page : e.pte[g] = 0) /\ P = [e EXCEPT !.pte[0] = s[n], !.tab[0] = s[n + 1]]
        /\ s[n] \in Link /\ s[n + 1] \in Link
    <3>1. e \in DirT /\ (\A g \in Page : e.pte[g] = 0) /\ P = [e EXCEPT !.pte[0] = s[n], !.tab[0] = s[n + 1]]
      BY <1>10, <1>13
    <3>2. s[n] \in Frame /\ s[n + 1] \in Frame
      BY <1>8
    <3>3. \A f \in Frame : f \in Link
      BY DEF Link, Frame
    <3> HIDE DEF n
    <3> QED BY <3>1, <3>2, <3>3
  <2> HIDE DEF e, P, n
  <2>3. /\ P.kern = e.kern /\ (\A g \in Page : P.pte[g] = IF g = 0 THEN s[n] ELSE 0) /\ P.tab[0] = s[n + 1] /\ P \in DirT
    BY <1>12, <2>2 DEF DirT
  <2> QED BY <2>1, <2>3 DEF e
<1> HIDE DEF P, D2, D3, D4, n
<1>18. Full(P) /\ Below(P, 1) /\ Tabled(P) /\ Up(PGSIZE) = 1 /\ PGSIZE \in 0 .. KERNBASE
  <2>1. Len(P.kern) = NKTAB
    BY <1>10, <1>17
  <2>2. Below(P, 1)
    <3>1. \A g \in Page : g < 1 <=> g = 0
      BY Space DEF Page
    <3> QED BY <1>17, <3>1 DEF Below
  <2>3. Tabled(P)
    <3>1. 0 \div NPTENTRIES = 0
      OBVIOUS
    <3> QED BY <1>17, <3>1 DEF Tabled, Row
  <2>4. 1 * PGSIZE = PGSIZE /\ 0 * PGSIZE = 0 /\ PGSIZE - 1 \in Nat
    OBVIOUS
  <2>5. Up(PGSIZE) = 1
    <3>1. Up(PGSIZE) \in Nat /\ 0 < Up(PGSIZE) /\ ~(1 < Up(PGSIZE))
      <4>1. Up(PGSIZE) \in Nat
        BY UpIs
      <4>2. 0 * PGSIZE < PGSIZE <=> 0 < Up(PGSIZE)
        BY UpIn
      <4>3. 1 * PGSIZE < PGSIZE <=> 1 < Up(PGSIZE)
        BY UpIn
      <4> QED BY <2>4, <4>1, <4>2, <4>3
    <3> QED BY <3>1
  <2>6. PGSIZE \in 0 .. KERNBASE
    <3>1. 0 < NPAGE /\ NPAGE \in Nat /\ KERNBASE = NPAGE * PGSIZE
      BY Space
    <3>2. NPAGE = 1 \/ 1 < NPAGE
      BY <3>1
    <3>3. 1 < NPAGE => 1 * PGSIZE < NPAGE * PGSIZE
      BY <3>1, TimesOrder
    <3>4. CASE NPAGE = 1
      <4>1. KERNBASE = PGSIZE
        BY <2>4, <3>1, <3>4
      <4> QED BY <4>1
    <3>5. CASE 1 < NPAGE
      <4>1. PGSIZE < KERNBASE
        BY <2>4, <3>1, <3>3, <3>5
      <4> QED BY <4>1
    <3> QED BY <3>2, <3>4, <3>5
  <2> QED BY <2>1, <2>2, <2>3, <2>5, <2>6 DEF Full
<1>19. /\ r \in ProcT /\ r.state = "run" /\ r.kstack = Head(F) /\ r.kstack # 0 /\ r.pgdir = d /\ d # 0 /\ r.sz = PGSIZE
  <2>1. Head(F) \in Link /\ d \in Link /\ Head(F) # 0 /\ d # 0 /\ 0 \in 0 .. NPROC
    BY <1>5, UsedFrame DEF Link, Frame
  <2> QED BY <1>18, <2>1 DEF ProcT
<1> HIDE DEF r, d
<1>20. /\ proc' \in [Pid -> ProcT] /\ proc'[1] = r /\ (\A p \in Pid : p # 1 => proc'[p] = NoProc)
       /\ cr3' \in [Pid -> SpaceT] /\ cr3'[1] = Fresh(d)
  <2>1. proc \in [Pid -> ProcT] /\ cr3 \in [Pid -> SpaceT] /\ Fresh(d) \in SpaceT
    BY <1>5, FreshIs DEF Inv, Types
  <2>2. \A p \in Pid : proc[p] = NoProc
    BY <1>3
  <2>3. 1 \in Pid /\ proc' = [proc EXCEPT ![1] = r] /\ cr3' = [cr3 EXCEPT ![1] = Fresh(d)]
    BY <1>3, <1>6
  <2> QED BY <1>19, <2>1, <2>2, <2>3
<1>21. Kstacks' = ks /\ Pgdirs' = pd /\ Taken' = Taken /\ Hands' = Hands
  <2>1. ks = [p \in Pid |-> IF p = 1 THEN Head(F) ELSE 0] /\ pd = [p \in Pid |-> IF p = 1 THEN d ELSE 0]
    BY <1>3 DEF ks, pd
  <2>2. \A p \in Pid : proc'[p].kstack = IF p = 1 THEN Head(F) ELSE 0
    BY <1>19, <1>20, NoProcIs
  <2>3. \A p \in Pid : (IF proc'[p].kstack = 0 THEN 0 ELSE proc'[p].pgdir) = IF p = 1 THEN d ELSE 0
    BY <1>19, <1>20, NoProcIs
  <2>4. Kstacks' = ks
    BY <2>1, <2>2 DEF Kstacks
  <2>5. Pgdirs' = pd
    BY <2>1, <2>3 DEF Pgdirs
  <2>6. Taken' = Taken /\ Hands' = Hands
    BY <1>1 DEF Taken, Hands
  <2> QED BY <2>4, <2>5, <2>6
<1>22. Owned'
  <2>1. Unfreed' = Unfreed
    <3>1. boot # main /\ boot' # main /\ use_lock' = use_lock
      <4>1. boot[1] = "userinit" /\ main[1] = "kinit1" /\ boot' # main
        BY <1>1, <1>6 DEF main
      <4> QED BY <1>1, <4>1
    <3> QED BY <3>1 DEF Unfreed
  <2>2. freelist' = Tail(Tail(b)) /\ dir' = D4 /\ cpus' = cpus /\ leaked' = leaked
    BY <1>1, <1>6, <1>8, <1>16
  <2> QED BY <1>16, <1>21, <2>1, <2>2 DEF Owned
<1>23. Types'
  <2>1. freelist' \in Seq(Frame) /\ dir' \in [Frame -> DirT]
    BY <1>6, <1>8, <1>16
  <2> QED BY <1>1, <1>20, <2>1 DEF Inv, Types
<1>24. Booted'
  <2>1. boot' = <<>> /\ use_lock'
    BY <1>1, <1>2, <1>6
  <2> QED BY <2>1 DEF Booted
<1>25. \A p \in Pid : proc'[p].state \in {"unused", "run"} /\ Image(proc'[p], NoJob, Dir(Pgdirs[p])', cr3'[p], before'[p])
  <2> TAKE p \in Pid
  <2>1. CASE p # 1
    BY <1>20, <2>1, NoProcIs
  <2>2. CASE p = 1
    <3>1. Pgdirs'[p] = d
      BY <1>3, <1>21, <2>2 DEF pd
    <3>2. Dir(Pgdirs[p])' = P
      <4>1. dir'[d] = P
        BY <1>5, <1>6, <1>12
      <4> QED BY <1>19, <3>1, <4>1 DEF Dir
    <3>3. Image(r, NoJob, P, Fresh(d), before'[p])
      <4>1. Cached(Fresh(d), P, Up(r.sz)) /\ Fresh(d).d = d
        BY <1>5, FreshIs
      <4>2. Below(P, Up(r.sz))
        BY <1>18, <1>19
      <4> QED BY <1>18, <1>19, <4>1, <4>2, Idle DEF Image, Shrinks
    <3> QED BY <1>19, <1>20, <2>2, <3>2, <3>3
  <2> QED BY <2>1, <2>2
<1>26. \A f \in Frame : Tabled(dir'[f])
  BY <1>3, <1>5, <1>6, <1>12, <1>18
<1>27. ptable' = 0 /\ \A p \in Pid : job'[p] = NoJob
  BY <1>1, <1>3
<1> QED BY <1>22, <1>23, <1>24, <1>25, <1>26, <1>27, Starts

LEMMA BootKeeps == ASSUME Inv, Boot PROVE Inv'
BY Kinit1Keeps, Kinit2Keeps, KvmallocKeeps, StartothersKeeps, UserinitKeeps DEF Boot

LEMMA InitInv == Init => Inv
<1> SUFFICES ASSUME Init PROVE Inv
  OBVIOUS
<1> DEFINE zero == [p \in Pid |-> 0]
           none == [f \in Frame |-> <<"none", 0, 0>>]
<1>1. /\ freelist = <<>> /\ use_lock = FALSE /\ dir = [f \in Frame |-> NoDir]
      /\ proc = [p \in Pid |-> NoProc] /\ cr3 = [p \in Pid |-> NoSpace] /\ job = [p \in Pid |-> NoJob]
      /\ ptable = 0 /\ boot = main /\ cpus = <<>> /\ panicked = "no" /\ leaked = {} /\ before = [p \in Pid |-> NoDir.pte]
  BY DEF Init
<1>2. Types
  <2>1. NoDir \in DirT /\ NoProc \in ProcT /\ NoJob \in JobT /\ NoSpace \in SpaceT
    <3>1. 0 \in Link /\ {} \subseteq Frame
      BY DEF Link
    <3> QED BY <3>1, NoDirT, NoProcIs, IdleJob DEF NoSpace, SpaceT
  <2>2. NoDir.pte \in [Page -> Link]
    BY <2>1 DEF DirT
  <2>3. freelist \in Seq(Frame) /\ cpus \in Seq(1 .. NLOW) /\ use_lock \in BOOLEAN /\ ptable \in 0 .. NPROC /\ leaked \subseteq Frame
    <3>1. freelist \in Seq(Frame) /\ cpus \in Seq(1 .. NLOW)
      BY <1>1
    <3>2. ptable \in 0 .. NPROC /\ leaked \subseteq Frame
      BY <1>1
    <3>3. use_lock \in BOOLEAN
      BY <1>1
    <3> QED BY <3>1, <3>2, <3>3
  <2>4. dir \in [Frame -> DirT] /\ proc \in [Pid -> ProcT] /\ cr3 \in [Pid -> SpaceT] /\ job \in [Pid -> JobT]
    BY <1>1, <2>1
  <2>5. before \in [Pid -> [Page -> Link]]
    BY <1>1, <2>2
  <2> QED BY <1>1, <2>3, <2>4, <2>5 DEF Types
<1>3. Kstacks = zero /\ Pgdirs = zero /\ Taken = zero /\ Hands = zero /\ Unfreed = Frame
  <2>1. \A p \in Pid : proc[p].kstack = 0 /\ job[p].mem = 0 /\ job[p].d = 0
    BY <1>1, Idle, NoProcIs
  <2> QED BY <1>1, <2>1 DEF Kstacks, Hands, Taken, Pgdirs, Unfreed
<1>4. Owned
  <2>1. none \in [Frame -> Uses] /\ Once(<<>>) /\ Range(<<>>) = {}
    <3>1. <<"none", 0, 0>> \in Uses
      BY DEF Uses
    <3> QED BY <3>1 DEF Once, Range
  <2>2. \A f \in Frame : none[f] = <<"none", 0, 0>> /\ f # 0
    BY UsedFrame
  <2> HIDE DEF none
  <2>3. OfSet(none, "free", {}) /\ OfSet(none, "cpu", {}) /\ OfSet(none, "lost", {}) /\ OfSet(none, "none", Frame)
    BY <2>2 DEF OfSet
  <2>4. OfProc(none, "kstack", zero) /\ OfProc(none, "pgdir", zero) /\ OfProc(none, "newdir", zero) /\ OfProc(none, "hand", zero)
    BY <2>2 DEF OfProc
  <2>5. \A d \in Frame : /\ dir[d] = NoDir /\ dir[d].kern = <<>> /\ Range(dir[d].kern) = {}
                         /\ (\A t \in Table : dir[d].tab[t] = 0) /\ (\A g \in Page : dir[d].pte[g] = 0)
    BY <1>1, <2>1, NoDirT
  <2>6. OfKern(none, dir)
    BY <2>2, <2>5 DEF OfKern
  <2>7. OfTab(none, dir)
    <3> SUFFICES ASSUME NEW f \in Frame, NEW d \in Frame, NEW t \in Table PROVE none[f] = <<"tab", d, t>> <=> dir[d].tab[t] = f
      BY DEF OfTab
    <3>1. dir[d].tab[t] = 0 /\ f # 0 /\ none[f] = <<"none", 0, 0>>
      BY <2>2, <2>5
    <3> QED BY <3>1
  <2>8. OfPage(none, dir)
    <3> SUFFICES ASSUME NEW f \in Frame, NEW d \in Frame, NEW g \in Page PROVE none[f] = <<"page", d, g>> <=> dir[d].pte[g] = f
      BY DEF OfPage
    <3>1. dir[d].pte[g] = 0 /\ f # 0 /\ none[f] = <<"none", 0, 0>>
      BY <2>2, <2>5
    <3> QED BY <3>1
  <2>9. DirUses(none, dir)
    BY <2>1, <2>2, <2>5 DEF DirUses
  <2>10. Owns(none, <<>>, <<>>, {}, Frame, zero, zero, zero, zero, dir)
    BY <2>1, <2>3, <2>4, <2>6, <2>7, <2>8, <2>9 DEF Owns
  <2> HIDE DEF zero
  <2> QED BY <1>1, <1>3, <2>10 DEF Owned, OwnsNow
<1>5. Booted
  <2>1. main \notin {<<"startothers", "kinit2", "userinit">>, <<"kinit2", "userinit">>, <<"userinit">>, <<>>}
    BY DEF main
  <2>2. Range(freelist) \subseteq 1 .. NLOW
    BY <1>1 DEF Range
  <2>3. \A f \in Frame : Below(dir[f], 0)
    BY <1>1, NoDirT
  <2> QED BY <1>1, <2>1, <2>2, <2>3 DEF Booted
<1>6. Locks
  <2>1. \A p \in Pid : p # 0 /\ job[p].op = "" /\ proc[p].state = "unused"
    <3>1. \A p \in Pid : p # 0
      BY DEF Pid
    <3> QED BY <1>1, <3>1, Idle, NoProcIs
  <2> QED BY <1>1, <2>1 DEF Locks
<1>7. \A p \in Pid : Thread(p)
  <2> TAKE p \in Pid
  <2>1. job[p] = NoJob /\ proc[p] = NoProc /\ NoJob.d = 0
    BY <1>1, Idle
  <2>2. Dir(job[p].d) = NoDir
    BY <2>1 DEF Dir
  <2> QED BY <2>1, <2>2, IdleJob, NoProcIs DEF Thread
<1>8. \A d \in Frame : Tabled(dir[d])
  BY <1>1, NoDirT
<1> QED BY <1>2, <1>4, <1>5, <1>6, <1>7, <1>8 DEF Inv

LEMMA StepKeeps == ASSUME Inv, NEW p \in Pid, Step(p) PROVE Inv'
<1>1. CASE NewDir(p) \/ Kern(p) \/ NewPage(p) \/ NewTable(p) \/ Undone(p) \/ Dealloc(p) \/ freevm(p)
  BY <1>1, NewDirKeeps, KernKeeps, NewPageKeeps, NewTableKeeps, UndoneHolds, DeallocKeeps, FreevmKeeps
<1>2. CASE Segment(p) \/ Loaded(p) \/ ExecFails(p) \/ Stack(p) \/ Commit(p)
  BY <1>2, SegmentKeeps, LoadedKeeps, ExecFailsKeeps, StackKeeps, CommitKeeps
<1>3. CASE Grown(p) \/ Shrunk(p) \/ Copy(p) \/ CopyTable(p) \/ Born(p) \/ Unfork(p) \/ Reaped(p)
  BY <1>3, GrownKeeps, ShrunkKeeps, CopyKeeps, CopyTableKeeps, BornKeeps, UnforkKeeps, ReapedKeeps
<1> QED BY <1>1, <1>2, <1>3 DEF Step

LEMMA SameInv == Inv /\ UNCHANGED vars => Inv'
<1> SUFFICES ASSUME Inv, UNCHANGED vars PROVE Inv'
  OBVIOUS
<1>1. /\ freelist' = freelist /\ use_lock' = use_lock /\ dir' = dir /\ proc' = proc /\ cr3' = cr3 /\ job' = job
      /\ ptable' = ptable /\ boot' = boot /\ cpus' = cpus /\ panicked' = panicked /\ leaked' = leaked /\ before' = before
  BY DEF vars
<1>2. Types' /\ Booted'
  BY <1>1 DEF Inv, Types, Booted
<1>3. Owned'
  BY <1>1 DEF Inv, Owned, Unfreed, Kstacks, Pgdirs, Taken, Hands
<1>4. Locks'
  BY <1>1 DEF Inv, Locks, Helps
<1>5. ASSUME NEW p \in Pid PROVE Thread(p)'
  BY <1>1 DEF Inv, Thread, Dir, Pgdirs
<1>6. \A d \in Frame : Tabled(dir'[d])
  BY <1>1 DEF Inv
<1> QED BY <1>2, <1>3, <1>4, <1>5, <1>6 DEF Inv

LEMMA NextInv == Inv /\ [Next]_vars => Inv'
<1> SUFFICES ASSUME Inv, [Next]_vars PROVE Inv'
  OBVIOUS
<1>1. CASE Boot
  BY <1>1, BootKeeps
<1>2. ASSUME NEW p \in Pid, Step(p) \/ Exit(p) \/ yield(p) PROVE Inv'
  BY <1>2, StepKeeps, ExitKeeps, YieldKeeps
<1>3. ASSUME NEW p \in Pid, NEW segs \in Programs, NEW fits \in BOOLEAN, Exec(p, segs, fits) PROVE Inv'
  BY <1>3, ExecKeeps
<1>4. ASSUME NEW p \in Pid, NEW n \in Grow, Sbrk(p, n) PROVE Inv'
  BY <1>4, SbrkKeeps
<1>5. ASSUME NEW p \in Pid, NEW q \in Pid, Fork(p, q) \/ Wait(p, q) PROVE Inv'
  BY <1>5, ForkKeeps, WaitKeeps
<1>6. CASE UNCHANGED vars
  BY <1>6, SameInv
<1> QED BY <1>1, <1>2, <1>3, <1>4, <1>5, <1>6 DEF Next

-----------------------------------------------------------------------------
(* What the runs check *)

\* What the use of the page in a place is.
Stands(own, x) ==
    LET f == x[3]
    IN  \/ x = <<"dir", 0, f>> /\ own[f][1] \in {"kvm", "pgdir", "newdir"}
        \/ x = <<"lost", 0, f>> /\ own[f] = <<"lost", 0, 0>>
        \/ \E k \in DOMAIN freelist : x = <<"free", k, f>> /\ f = freelist[k] /\ own[f] = <<"free", 0, 0>>
        \/ \E k \in DOMAIN cpus : x = <<"cpu", k, f>> /\ f = cpus[k] /\ own[f] = <<"cpu", 0, 0>>
        \/ \E p \in Pid : x = <<"kstack", p, f>> /\ own[f] = <<"kstack", p, 0>>
        \/ \E p \in Pid : x = <<"hand", p, f>> /\ own[f] = <<"hand", p, 0>>
        \/ \E d \in Frame : \E k \in DOMAIN dir[d].kern : x = <<"kern", <<d, k>>, f>> /\ f = dir[d].kern[k] /\ own[f] = <<"kern", d, 0>>
        \/ \E d \in Frame, t \in Table : x = <<"tab", <<d, t>>, f>> /\ own[f] = <<"tab", d, t>>
        \/ \E d \in Frame, g \in Page : x = <<"page", <<d, g>>, f>> /\ own[f] = <<"page", d, g>>

LEMMA PlaceOf ==
    ASSUME Inv, NEW own, Owns(own, freelist, cpus, leaked, Unfreed, Kstacks, Pgdirs, Taken, Hands, dir), NEW x \in Places
    PROVE  x[3] \in Frame /\ Stands(own, x)
<1>1. /\ freelist \in Seq(Frame) /\ cpus \in Seq(1 .. NLOW) /\ dir \in [Frame -> DirT] /\ proc \in [Pid -> ProcT]
      /\ job \in [Pid -> JobT] /\ leaked \subseteq Frame
  BY DEF Inv, Types
<1>2. /\ OfSet(own, "free", Range(freelist)) /\ OfSet(own, "cpu", Range(cpus)) /\ OfSet(own, "lost", leaked)
      /\ OfProc(own, "kstack", Kstacks) /\ OfProc(own, "pgdir", Pgdirs) /\ OfProc(own, "newdir", Taken)
      /\ OfProc(own, "hand", Hands) /\ OfKern(own, dir) /\ OfTab(own, dir) /\ OfPage(own, dir)
      /\ \A f \in Frame : dir[f] # NoDir => own[f][1] \in {"kvm", "pgdir", "newdir"}
  BY DEF Owns, DirUses
<1>3. \A y \in Link : y # 0 => y \in Frame
  BY DEF Link, Frame
<1>4. ASSUME NEW d \in Dirs PROVE d \in Frame /\ own[d][1] \in {"kvm", "pgdir", "newdir"}
  <2>1. CASE d \in Frame /\ dir[d] # NoDir
    BY <1>2, <2>1
  <2>2. ASSUME NEW p \in Pid, job[p].d # 0, d = job[p].d PROVE d \in Frame /\ own[d][1] \in {"kvm", "pgdir", "newdir"}
    <3>1. d \in Frame /\ job[p] \in JobT
      BY <1>1, <1>3, <2>2 DEF JobT
    <3>2. CASE job[p].op = "grow"
      <4>1. job[p].pc # "user"
        <5>1. Flow(job[p]) /\ Stage(job[p], Dir(job[p].d), proc[p].sz)
          BY DEF Inv, Thread
        <5> QED BY <3>2, <5>1 DEF Flow
      <4>2. /\ proc[p].state = "run" /\ proc[p].kstack # 0 /\ Pgdirs[p] = proc[p].pgdir
            /\ Image(proc[p], job[p], dir[proc[p].pgdir], cr3[p], before[p])
        BY <4>1, Working
      <4>3. Pgdirs[p] = d
        BY <2>2, <3>2, <4>2 DEF Image
      <4>4. own[d] = <<"pgdir", p, 0>>
        BY <1>2, <3>1, <4>3 DEF OfProc
      <4> QED BY <3>1, <4>4
    <3>3. CASE job[p].op # "grow"
      <4>1. Taken[p] = d
        BY <2>2, <3>3 DEF Taken
      <4>2. own[d] = <<"newdir", p, 0>>
        BY <1>2, <3>1, <4>1 DEF OfProc
      <4> QED BY <3>1, <4>2
    <3> QED BY <3>2, <3>3
  <2> QED BY <2>1, <2>2 DEF Dirs
<1>5. ASSUME NEW k \in DOMAIN freelist, x = <<"free", k, freelist[k]>> PROVE x[3] \in Frame /\ Stands(own, x)
  <2>1. freelist[k] \in Frame /\ freelist[k] \in Range(freelist)
    BY <1>1 DEF Range
  <2>2. own[freelist[k]] = <<"free", 0, 0>>
    BY <1>2, <2>1 DEF OfSet
  <2>3. x[3] = freelist[k]
    BY <1>5
  <2> QED BY <1>5, <2>1, <2>2, <2>3 DEF Stands
<1>6. ASSUME NEW k \in DOMAIN cpus, x = <<"cpu", k, cpus[k]>> PROVE x[3] \in Frame /\ Stands(own, x)
  <2>1. cpus[k] \in Frame /\ cpus[k] \in Range(cpus)
    BY <1>1 DEF Range, Frame
  <2>2. own[cpus[k]] = <<"cpu", 0, 0>>
    BY <1>2, <2>1 DEF OfSet
  <2>3. x[3] = cpus[k]
    BY <1>6
  <2> QED BY <1>6, <2>1, <2>2, <2>3 DEF Stands
<1>7. ASSUME NEW p \in Pid, proc[p].kstack # 0, x = <<"kstack", p, proc[p].kstack>> PROVE x[3] \in Frame /\ Stands(own, x)
  <2>1. proc[p].kstack \in Frame /\ Kstacks[p] = proc[p].kstack
    BY <1>1, <1>3, <1>7 DEF ProcT, Kstacks
  <2>2. own[proc[p].kstack] = <<"kstack", p, 0>>
    BY <1>2, <2>1 DEF OfProc
  <2>3. x[3] = proc[p].kstack
    BY <1>7
  <2> QED BY <1>7, <2>1, <2>2, <2>3 DEF Stands
<1>8. ASSUME NEW p \in Pid, job[p].mem # 0, x = <<"hand", p, job[p].mem>> PROVE x[3] \in Frame /\ Stands(own, x)
  <2>1. job[p].mem \in Frame /\ Hands[p] = job[p].mem
    BY <1>1, <1>3, <1>8 DEF JobT, Hands
  <2>2. own[job[p].mem] = <<"hand", p, 0>>
    BY <1>2, <2>1 DEF OfProc
  <2>3. x[3] = job[p].mem
    BY <1>8
  <2> QED BY <1>8, <2>1, <2>2, <2>3 DEF Stands
<1>9. ASSUME NEW d \in Dirs, x = <<"dir", 0, d>> PROVE x[3] \in Frame /\ Stands(own, x)
  <2>1. x[3] = d
    BY <1>9
  <2> QED BY <1>4, <1>9, <2>1 DEF Stands
<1>10. ASSUME NEW d \in Dirs, NEW k \in DOMAIN dir[d].kern, x = <<"kern", <<d, k>>, dir[d].kern[k]>> PROVE x[3] \in Frame /\ Stands(own, x)
  <2>1. d \in Frame
    BY <1>4
  <2>2. dir[d].kern[k] \in Frame /\ dir[d].kern[k] \in Range(dir[d].kern)
    <3>1. dir[d].kern \in Seq(Frame)
      BY <1>1, <2>1 DEF DirT
    <3> QED BY <3>1 DEF Range
  <2>3. own[dir[d].kern[k]] = <<"kern", d, 0>>
    BY <1>2, <2>1, <2>2 DEF OfKern
  <2>4. x[3] = dir[d].kern[k]
    BY <1>10
  <2> QED BY <1>10, <2>1, <2>2, <2>3, <2>4 DEF Stands
<1>11. ASSUME NEW d \in Dirs, NEW t \in DOMAIN dir[d].tab, dir[d].tab[t] # 0, x = <<"tab", <<d, t>>, dir[d].tab[t]>>
       PROVE  x[3] \in Frame /\ Stands(own, x)
  <2>1. d \in Frame
    BY <1>4
  <2>2. t \in Table /\ dir[d].tab[t] \in Frame
    <3>1. dir[d].tab \in [Table -> Link]
      BY <1>1, <2>1 DEF DirT
    <3> QED BY <1>3, <1>11, <3>1
  <2>3. own[dir[d].tab[t]] = <<"tab", d, t>>
    BY <1>2, <2>1, <2>2 DEF OfTab
  <2>4. x[3] = dir[d].tab[t]
    BY <1>11
  <2> QED BY <1>11, <2>1, <2>2, <2>3, <2>4 DEF Stands
<1>12. ASSUME NEW d \in Dirs, NEW g \in Page, dir[d].pte[g] # 0, x = <<"page", <<d, g>>, dir[d].pte[g]>>
       PROVE  x[3] \in Frame /\ Stands(own, x)
  <2>1. d \in Frame
    BY <1>4
  <2>2. dir[d].pte[g] \in Frame
    <3>1. dir[d].pte \in [Page -> Link]
      BY <1>1, <2>1 DEF DirT
    <3> QED BY <1>3, <1>12, <3>1
  <2>3. own[dir[d].pte[g]] = <<"page", d, g>>
    BY <1>2, <2>1, <2>2 DEF OfPage
  <2>4. x[3] = dir[d].pte[g]
    BY <1>12
  <2> QED BY <1>12, <2>1, <2>2, <2>3, <2>4 DEF Stands
<1>13. ASSUME NEW f \in leaked, x = <<"lost", 0, f>> PROVE x[3] \in Frame /\ Stands(own, x)
  <2>1. f \in Frame /\ own[f] = <<"lost", 0, 0>> /\ x[3] = f
    BY <1>1, <1>2, <1>13 DEF OfSet
  <2> QED BY <1>13, <2>1 DEF Stands
<1>14. \/ \E k \in DOMAIN freelist : x = <<"free", k, freelist[k]>>
       \/ \E k \in DOMAIN cpus : x = <<"cpu", k, cpus[k]>>
       \/ \E p \in Pid : proc[p].kstack # 0 /\ x = <<"kstack", p, proc[p].kstack>>
       \/ \E p \in Pid : job[p].mem # 0 /\ x = <<"hand", p, job[p].mem>>
       \/ \E d \in Dirs : x = <<"dir", 0, d>>
       \/ \E d \in Dirs : \E k \in DOMAIN dir[d].kern : x = <<"kern", <<d, k>>, dir[d].kern[k]>>
       \/ \E d \in Dirs : \E t \in DOMAIN dir[d].tab : dir[d].tab[t] # 0 /\ x = <<"tab", <<d, t>>, dir[d].tab[t]>>
       \/ \E d \in Dirs : \E g \in Page : dir[d].pte[g] # 0 /\ x = <<"page", <<d, g>>, dir[d].pte[g]>>
       \/ \E f \in leaked : x = <<"lost", 0, f>>
  <2>1. \/ x \in {<<"free", k, freelist[k]>> : k \in DOMAIN freelist}
        \/ x \in {<<"cpu", k, cpus[k]>> : k \in DOMAIN cpus}
        \/ x \in {<<"kstack", p, proc[p].kstack>> : p \in {q \in Pid : proc[q].kstack # 0}}
        \/ x \in {<<"hand", p, job[p].mem>> : p \in {q \in Pid : job[q].mem # 0}}
        \/ x \in {<<"dir", 0, d>> : d \in Dirs}
        \/ x \in UNION {{<<"kern", <<d, k>>, dir[d].kern[k]>> : k \in DOMAIN dir[d].kern} : d \in Dirs}
        \/ x \in UNION {{<<"tab", <<d, t>>, dir[d].tab[t]>> : t \in {y \in DOMAIN dir[d].tab : dir[d].tab[y] # 0}} : d \in Dirs}
        \/ x \in UNION {{<<"page", <<d, g>>, dir[d].pte[g]>> : g \in {y \in Page : dir[d].pte[y] # 0}} : d \in Dirs}
        \/ x \in {<<"lost", 0, f>> : f \in leaked}
    <3> DEFINE A1 == {<<"free", k, freelist[k]>> : k \in DOMAIN freelist}
               A2 == {<<"cpu", k, cpus[k]>> : k \in DOMAIN cpus}
               A3 == {<<"kstack", p, proc[p].kstack>> : p \in {q \in Pid : proc[q].kstack # 0}}
               A4 == {<<"dir", 0, d>> : d \in Dirs}
               A5 == UNION {{<<"kern", <<d, k>>, dir[d].kern[k]>> : k \in DOMAIN dir[d].kern} : d \in Dirs}
               A6 == UNION {{<<"tab", <<d, t>>, dir[d].tab[t]>> : t \in {y \in DOMAIN dir[d].tab : dir[d].tab[y] # 0}} : d \in Dirs}
               A7 == UNION {{<<"page", <<d, g>>, dir[d].pte[g]>> : g \in {y \in Page : dir[d].pte[y] # 0}} : d \in Dirs}
               A8 == {<<"hand", p, job[p].mem>> : p \in {q \in Pid : job[q].mem # 0}}
               A9 == {<<"lost", 0, f>> : f \in leaked}
    <3>1. Places = A1 \cup A2 \cup A3 \cup A4 \cup A5 \cup A6 \cup A7 \cup A8 \cup A9
      BY DEF Places
    <3> HIDE DEF A1, A2, A3, A4, A5, A6, A7, A8, A9
    <3>2. x \in A1 \/ x \in A2 \/ x \in A3 \/ x \in A8 \/ x \in A4 \/ x \in A5 \/ x \in A6 \/ x \in A7 \/ x \in A9
      BY <3>1
    <3> QED BY <3>2, Zenon DEF A1, A2, A3, A4, A5, A6, A7, A8, A9
  <2>2. x \in UNION {{<<"kern", <<d, k>>, dir[d].kern[k]>> : k \in DOMAIN dir[d].kern} : d \in Dirs}
          => \E d \in Dirs : \E k \in DOMAIN dir[d].kern : x = <<"kern", <<d, k>>, dir[d].kern[k]>>
    OBVIOUS
  <2>3. x \in UNION {{<<"tab", <<d, t>>, dir[d].tab[t]>> : t \in {y \in DOMAIN dir[d].tab : dir[d].tab[y] # 0}} : d \in Dirs}
          => \E d \in Dirs : \E t \in DOMAIN dir[d].tab : dir[d].tab[t] # 0 /\ x = <<"tab", <<d, t>>, dir[d].tab[t]>>
    OBVIOUS
  <2>4. x \in UNION {{<<"page", <<d, g>>, dir[d].pte[g]>> : g \in {y \in Page : dir[d].pte[y] # 0}} : d \in Dirs}
          => \E d \in Dirs : \E g \in Page : dir[d].pte[g] # 0 /\ x = <<"page", <<d, g>>, dir[d].pte[g]>>
    OBVIOUS
  <2>5. x \in {<<"kstack", p, proc[p].kstack>> : p \in {q \in Pid : proc[q].kstack # 0}}
          => \E p \in Pid : proc[p].kstack # 0 /\ x = <<"kstack", p, proc[p].kstack>>
    OBVIOUS
  <2>6. x \in {<<"hand", p, job[p].mem>> : p \in {q \in Pid : job[q].mem # 0}}
          => \E p \in Pid : job[p].mem # 0 /\ x = <<"hand", p, job[p].mem>>
    OBVIOUS
  <2> QED BY <2>1, <2>2, <2>3, <2>4, <2>5, <2>6, Zenon
<1> QED BY <1>5, <1>6, <1>7, <1>8, <1>9, <1>10, <1>11, <1>12, <1>13, <1>14

\* Different places have different pages.
LEMMA PlacesApart ==
    ASSUME Inv, NEW own, Owns(own, freelist, cpus, leaked, Unfreed, Kstacks, Pgdirs, Taken, Hands, dir),
           NEW x \in Places, NEW y \in Places, x[3] = y[3]
    PROVE  x = y
<1> DEFINE f == x[3]
<1>1. Stands(own, x) /\ Stands(own, y) /\ f \in Frame /\ f = x[3] /\ f = y[3]
  BY PlaceOf
<1>2. Once(freelist) /\ Once(cpus) /\ \A d \in Frame : Once(dir[d].kern)
  BY DEF Owns, DirUses
<1> HIDE DEF f
<1>3. ASSUME NEW u, u \in {x, y}
      PROVE  \/ u = <<"dir", 0, f>> /\ own[f][1] \in {"kvm", "pgdir", "newdir"}
             \/ u = <<"lost", 0, f>> /\ own[f] = <<"lost", 0, 0>>
             \/ \E k \in DOMAIN freelist : u = <<"free", k, f>> /\ f = freelist[k] /\ own[f] = <<"free", 0, 0>>
             \/ \E k \in DOMAIN cpus : u = <<"cpu", k, f>> /\ f = cpus[k] /\ own[f] = <<"cpu", 0, 0>>
             \/ \E p \in Pid : u = <<"kstack", p, f>> /\ own[f] = <<"kstack", p, 0>>
             \/ \E p \in Pid : u = <<"hand", p, f>> /\ own[f] = <<"hand", p, 0>>
             \/ \E d \in Frame : \E k \in DOMAIN dir[d].kern : u = <<"kern", <<d, k>>, f>> /\ f = dir[d].kern[k] /\ own[f] = <<"kern", d, 0>>
             \/ \E d \in Frame, t \in Table : u = <<"tab", <<d, t>>, f>> /\ own[f] = <<"tab", d, t>>
             \/ \E d \in Frame, g \in Page : u = <<"page", <<d, g>>, f>> /\ own[f] = <<"page", d, g>>
  <2>1. Stands(own, u) /\ u[3] = f
    BY <1>1, <1>3
  <2> QED BY <2>1 DEF Stands
<1> DEFINE o == own[f]
           Kind(u, s) == \/ s = "dir" /\ u = <<"dir", 0, f>> /\ o[1] \in {"kvm", "pgdir", "newdir"}
                         \/ s = "lost" /\ u = <<"lost", 0, f>> /\ o[1] = "lost"
                         \/ s = "free" /\ o[1] = "free" /\ \E k \in DOMAIN freelist : u = <<"free", k, f>> /\ f = freelist[k]
                         \/ s = "cpu" /\ o[1] = "cpu" /\ \E k \in DOMAIN cpus : u = <<"cpu", k, f>> /\ f = cpus[k]
                         \/ s = "kstack" /\ o[1] = "kstack" /\ u = <<"kstack", o[2], f>>
                         \/ s = "hand" /\ o[1] = "hand" /\ u = <<"hand", o[2], f>>
                         \/ s = "kern" /\ o[1] = "kern" /\ o[2] \in Frame /\ \E k \in DOMAIN dir[o[2]].kern : u = <<"kern", <<o[2], k>>, f>> /\ f = dir[o[2]].kern[k]
                         \/ s = "tab" /\ o[1] = "tab" /\ u = <<"tab", <<o[2], o[3]>>, f>>
                         \/ s = "page" /\ o[1] = "page" /\ u = <<"page", <<o[2], o[3]>>, f>>
<1>4. ASSUME NEW u, u \in {x, y} PROVE \E s : Kind(u, s)
  <2>1. CASE u = <<"dir", 0, f>> /\ own[f][1] \in {"kvm", "pgdir", "newdir"}
    <3>1. Kind(u, "dir")
      BY <2>1
    <3> QED BY <3>1
  <2>2. CASE u = <<"lost", 0, f>> /\ own[f] = <<"lost", 0, 0>>
    <3>1. Kind(u, "lost")
      BY <2>2
    <3> QED BY <3>1
  <2>3. CASE \E k \in DOMAIN freelist : u = <<"free", k, f>> /\ f = freelist[k] /\ own[f] = <<"free", 0, 0>>
    <3>1. Kind(u, "free")
      BY <2>3
    <3> QED BY <3>1
  <2>4. CASE \E k \in DOMAIN cpus : u = <<"cpu", k, f>> /\ f = cpus[k] /\ own[f] = <<"cpu", 0, 0>>
    <3>1. Kind(u, "cpu")
      BY <2>4
    <3> QED BY <3>1
  <2>5. CASE \E p \in Pid : u = <<"kstack", p, f>> /\ own[f] = <<"kstack", p, 0>>
    <3>1. Kind(u, "kstack")
      BY <2>5
    <3> QED BY <3>1
  <2>6. CASE \E p \in Pid : u = <<"hand", p, f>> /\ own[f] = <<"hand", p, 0>>
    <3>1. Kind(u, "hand")
      BY <2>6
    <3> QED BY <3>1
  <2>7. CASE \E d \in Frame : \E k \in DOMAIN dir[d].kern : u = <<"kern", <<d, k>>, f>> /\ f = dir[d].kern[k] /\ own[f] = <<"kern", d, 0>>
    <3>1. Kind(u, "kern")
      BY <2>7
    <3> QED BY <3>1
  <2>8. CASE \E d \in Frame, t \in Table : u = <<"tab", <<d, t>>, f>> /\ own[f] = <<"tab", d, t>>
    <3>1. Kind(u, "tab")
      BY <2>8
    <3> QED BY <3>1
  <2>9. CASE \E d \in Frame, g \in Page : u = <<"page", <<d, g>>, f>> /\ own[f] = <<"page", d, g>>
    <3>1. Kind(u, "page")
      BY <2>9
    <3> QED BY <3>1
  <2> QED BY <1>3, <1>4, <2>1, <2>2, <2>3, <2>4, <2>5, <2>6, <2>7, <2>8, <2>9
<1>5. PICK s : Kind(x, s)
  BY <1>4
<1>6. PICK s2 : Kind(y, s2)
  BY <1>4
<1> HIDE DEF o
<1>7. s = s2
  BY <1>5, <1>6
<1>8. CASE s = "free"
  <2>1. PICK i \in DOMAIN freelist : x = <<"free", i, f>> /\ f = freelist[i]
    BY <1>5, <1>8
  <2>2. PICK k \in DOMAIN freelist : y = <<"free", k, f>> /\ f = freelist[k]
    BY <1>6, <1>7, <1>8
  <2>3. i = k
    BY <1>2, <2>1, <2>2 DEF Once
  <2> QED BY <2>1, <2>2, <2>3
<1>9. CASE s = "cpu"
  <2>1. PICK i \in DOMAIN cpus : x = <<"cpu", i, f>> /\ f = cpus[i]
    BY <1>5, <1>9
  <2>2. PICK k \in DOMAIN cpus : y = <<"cpu", k, f>> /\ f = cpus[k]
    BY <1>6, <1>7, <1>9
  <2>3. i = k
    BY <1>2, <2>1, <2>2 DEF Once
  <2> QED BY <2>1, <2>2, <2>3
<1>10. CASE s = "kern"
  <2> DEFINE d == o[2]
  <2>1. PICK i \in DOMAIN dir[d].kern : x = <<"kern", <<d, i>>, f>> /\ f = dir[d].kern[i]
    BY <1>5, <1>10
  <2>2. d \in Frame /\ \E k \in DOMAIN dir[d].kern : y = <<"kern", <<d, k>>, f>> /\ f = dir[d].kern[k]
    BY <1>6, <1>7, <1>10
  <2> HIDE DEF d
  <2>3. PICK k \in DOMAIN dir[d].kern : y = <<"kern", <<d, k>>, f>> /\ f = dir[d].kern[k]
    BY <2>2
  <2>4. Once(dir[d].kern)
    BY <1>2, <2>2
  <2>5. i = k
    BY <2>1, <2>3, <2>4 DEF Once
  <2> QED BY <2>1, <2>3, <2>5
<1>11. CASE s \notin {"free", "cpu", "kern"}
  BY <1>5, <1>6, <1>7, <1>11
<1> QED BY <1>8, <1>9, <1>10, <1>11

LEMMA PlacesFill ==
    ASSUME Inv, boot = <<>>, NEW own, Owns(own, freelist, cpus, leaked, Unfreed, Kstacks, Pgdirs, Taken, Hands, dir), NEW f \in Frame
    PROVE  \E x \in Places : x[3] = f
<1>1. /\ freelist \in Seq(Frame) /\ cpus \in Seq(1 .. NLOW) /\ dir \in [Frame -> DirT] /\ proc \in [Pid -> ProcT]
      /\ job \in [Pid -> JobT] /\ own[f] \in Uses /\ f # 0
  BY UsedFrame DEF Inv, Types, Owns
<1>2. /\ OfSet(own, "free", Range(freelist)) /\ OfSet(own, "cpu", Range(cpus)) /\ OfSet(own, "lost", leaked) /\ OfSet(own, "none", Unfreed)
      /\ OfProc(own, "kstack", Kstacks) /\ OfProc(own, "pgdir", Pgdirs) /\ OfProc(own, "newdir", Taken)
      /\ OfProc(own, "hand", Hands) /\ OfKern(own, dir) /\ OfTab(own, dir) /\ OfPage(own, dir)
      /\ own[f] = <<"kvm", 0, 0>> => dir[f] # NoDir
  BY DEF Owns, DirUses
<1>3. Unfreed = {}
  <2>1. boot # main /\ use_lock
    <3>1. boot # main
      BY DEF main
    <3> QED BY <3>1 DEF Inv, Booted
  <2> QED BY <2>1 DEF Unfreed
<1>4. \A d \in Frame : dir[d] # NoDir => d \in Dirs
  BY DEF Dirs
<1>5. \A p \in Pid : job[p].d # 0 => job[p].d \in Dirs
  BY DEF Dirs
<1>6. ASSUME NEW s, NEW k, <<s, k, f>> \in Places PROVE \E x \in Places : x[3] = f
  BY <1>6
<1>7. ASSUME NEW d \in Dirs PROVE <<"dir", 0, d>> \in Places
  BY DEF Places
<1>8. CASE own[f] = <<"free", 0, 0>>
  <2>1. PICK k \in DOMAIN freelist : f = freelist[k]
    BY <1>2, <1>8 DEF OfSet, Range
  <2>2. <<"free", k, f>> \in {<<"free", i, freelist[i]>> : i \in DOMAIN freelist}
    BY <2>1
  <2>3. <<"free", k, f>> \in Places
    BY <2>2 DEF Places
  <2> QED BY <1>6, <2>3
<1>9. CASE own[f] = <<"cpu", 0, 0>>
  <2>1. PICK k \in DOMAIN cpus : f = cpus[k]
    BY <1>2, <1>9 DEF OfSet, Range
  <2>2. <<"cpu", k, f>> \in {<<"cpu", i, cpus[i]>> : i \in DOMAIN cpus}
    BY <2>1
  <2>3. <<"cpu", k, f>> \in Places
    BY <2>2 DEF Places
  <2> QED BY <1>6, <2>3
<1>10. CASE own[f] = <<"lost", 0, 0>>
  <2>1. f \in leaked
    BY <1>2, <1>10 DEF OfSet
  <2>2. <<"lost", 0, f>> \in Places
    BY <2>1 DEF Places
  <2> QED BY <1>6, <2>2
<1>11. CASE own[f] = <<"none", 0, 0>>
  BY <1>2, <1>3, <1>11 DEF OfSet
<1>12. CASE own[f] = <<"kvm", 0, 0>>
  BY <1>2, <1>4, <1>6, <1>7, <1>12
<1>13. ASSUME NEW p \in Pid, own[f] = <<"kstack", p, 0>> PROVE \E x \in Places : x[3] = f
  <2>1. Kstacks[p] = f
    BY <1>2, <1>13 DEF OfProc
  <2>2. proc[p].kstack = f /\ p \in {q \in Pid : proc[q].kstack # 0}
    BY <1>1, <2>1 DEF Kstacks
  <2>3. <<"kstack", p, f>> \in {<<"kstack", q, proc[q].kstack>> : q \in {r \in Pid : proc[r].kstack # 0}}
    BY <2>2
  <2>4. <<"kstack", p, f>> \in Places
    BY <2>3 DEF Places
  <2> QED BY <1>6, <2>4
<1>14. ASSUME NEW p \in Pid, own[f] = <<"hand", p, 0>> PROVE \E x \in Places : x[3] = f
  <2>1. Hands[p] = f
    BY <1>2, <1>14 DEF OfProc
  <2>2. job[p].mem = f /\ p \in {q \in Pid : job[q].mem # 0}
    BY <1>1, <2>1 DEF Hands
  <2>3. <<"hand", p, f>> \in {<<"hand", q, job[q].mem>> : q \in {r \in Pid : job[r].mem # 0}}
    BY <2>2
  <2>4. <<"hand", p, f>> \in Places
    BY <2>3 DEF Places
  <2> QED BY <1>6, <2>4
<1>15. ASSUME NEW p \in Pid, own[f] = <<"newdir", p, 0>> PROVE \E x \in Places : x[3] = f
  <2>1. Taken[p] = f
    BY <1>2, <1>15 DEF OfProc
  <2>2. job[p].d = f
    BY <1>1, <2>1 DEF Taken
  <2> QED BY <1>1, <1>5, <1>6, <1>7, <2>2
<1>16. ASSUME NEW p \in Pid, own[f] = <<"pgdir", p, 0>> PROVE \E x \in Places : x[3] = f
  <2>1. Pgdirs[p] = f
    BY <1>2, <1>16 DEF OfProc
  <2>2. proc[p].kstack # 0 /\ proc[p].pgdir = f
    BY <1>1, <2>1 DEF Pgdirs
  <2>3. Dir(Pgdirs[p]) = dir[f]
    BY <1>1, <2>1 DEF Dir
  <2>4. Image(proc[p], job[p], dir[f], cr3[p], before[p]) /\ proc[p] \in ProcT
    BY <1>1, <2>3 DEF Inv, Thread
  <2>5. Full(dir[f])
    BY <1>1, <2>2, <2>4, NoProcIs DEF Image, ProcT
  <2>6. dir[f] # NoDir
    <3>1. Len(dir[f].kern) = NKTAB /\ NKTAB # 0 /\ NoDir.kern = <<>> /\ Len(<<>>) = 0
      BY <2>5, NoDirT DEF Full
    <3> QED BY <3>1
  <2> QED BY <1>4, <1>6, <1>7, <2>6
<1>17. ASSUME NEW d \in Frame, own[f] = <<"kern", d, 0>> PROVE \E x \in Places : x[3] = f
  <2>1. f \in Range(dir[d].kern)
    BY <1>2, <1>17 DEF OfKern
  <2>2. PICK k \in DOMAIN dir[d].kern : f = dir[d].kern[k]
    BY <2>1 DEF Range
  <2>3. dir[d] # NoDir
    BY <2>2, NoDirT
  <2>4. d \in Dirs
    BY <1>4, <2>3
  <2>5. <<"kern", <<d, k>>, f>> \in UNION {{<<"kern", <<c, i>>, dir[c].kern[i]>> : i \in DOMAIN dir[c].kern} : c \in Dirs}
    BY <2>2, <2>4
  <2>6. <<"kern", <<d, k>>, f>> \in Places
    BY <2>5 DEF Places
  <2> QED BY <1>6, <2>6
<1>18. ASSUME NEW d \in Frame, NEW t \in Table, own[f] = <<"tab", d, t>> PROVE \E x \in Places : x[3] = f
  <2>1. dir[d].tab[t] = f
    BY <1>2, <1>18 DEF OfTab
  <2>2. dir[d] # NoDir /\ DOMAIN dir[d].tab = Table
    BY <1>1, <2>1, NoDirT DEF DirT
  <2>4. d \in Dirs
    BY <1>4, <2>2
  <2>5. <<"tab", <<d, t>>, f>> \in UNION {{<<"tab", <<c, i>>, dir[c].tab[i]>> : i \in {y \in DOMAIN dir[c].tab : dir[c].tab[y] # 0}} : c \in Dirs}
    BY <1>1, <2>1, <2>2, <2>4
  <2>6. <<"tab", <<d, t>>, f>> \in Places
    BY <2>5 DEF Places
  <2> QED BY <1>6, <2>6
<1>19. ASSUME NEW d \in Frame, NEW g \in Page, own[f] = <<"page", d, g>> PROVE \E x \in Places : x[3] = f
  <2>1. dir[d].pte[g] = f
    BY <1>2, <1>19 DEF OfPage
  <2>2. dir[d] # NoDir
    BY <1>1, <2>1, NoDirT
  <2>4. d \in Dirs
    BY <1>4, <2>2
  <2>5. <<"page", <<d, g>>, f>> \in UNION {{<<"page", <<c, i>>, dir[c].pte[i]>> : i \in {y \in Page : dir[c].pte[y] # 0}} : c \in Dirs}
    BY <1>1, <2>1, <2>4
  <2>6. <<"page", <<d, g>>, f>> \in Places
    BY <2>5 DEF Places
  <2> QED BY <1>6, <2>6
<1>20. \/ own[f] \in {<<s, 0, 0>> : s \in {"none", "free", "cpu", "lost", "kvm"}}
       \/ \E s \in {"kstack", "pgdir", "newdir", "hand"}, p \in Pid : own[f] = <<s, p, 0>>
       \/ \E d \in Frame : own[f] = <<"kern", d, 0>>
       \/ \E d \in Frame, t \in Table : own[f] = <<"tab", d, t>>
       \/ \E d \in Frame, g \in Page : own[f] = <<"page", d, g>>
  BY <1>1 DEF Uses
<1> QED BY <1>8, <1>9, <1>10, <1>11, <1>12, <1>13, <1>14, <1>15, <1>16, <1>17, <1>18, <1>19, <1>20

\* Every page is in one place.
LEMMA UsesOne == Inv => OneUse
<1> SUFFICES ASSUME Inv PROVE OneUse
  OBVIOUS
<1>1. PICK own : Owns(own, freelist, cpus, leaked, Unfreed, Kstacks, Pgdirs, Taken, Hands, dir)
  BY DEF Inv, Owned, OwnsNow
<1> DEFINE T == {x[3] : x \in Places}
           f == [x \in Places |-> x[3]]
<1>2. T \subseteq Frame /\ IsFiniteSet(T)
  <2>1. T \subseteq Frame
    BY <1>1, PlaceOf
  <2>2. IsFiniteSet(Frame)
    <3>1. 1 \in Int /\ NFRAME \in Int
      OBVIOUS
    <3> QED BY <3>1, FS_Interval DEF Frame
  <2> QED BY <2>1, <2>2, FS_Subset
<1>3. f \in Injection(Places, T) /\ f \in Surjection(Places, T)
  <2>1. f \in [Places -> T]
    OBVIOUS
  <2>2. \A x, y \in Places : f[x] = f[y] => x = y
    BY <1>1, PlacesApart
  <2>3. \A t \in T : \E x \in Places : f[x] = t
    OBVIOUS
  <2>4. DOMAIN f = Places
    OBVIOUS
  <2> HIDE DEF f, T
  <2> QED BY <2>1, <2>2, <2>3, <2>4 DEF Injection, Surjection, IsInjective
<1>4. Cardinality(T) = Cardinality(Places)
  <2> HIDE DEF f, T
  <2> QED BY <1>2, <1>3, FS_Injection
<1>5. boot = <<>> => T = Frame
  <2> SUFFICES ASSUME boot = <<>>, NEW e \in Frame PROVE e \in T
    BY <1>2
  <2>1. \E x \in Places : x[3] = e
    BY <1>1, PlacesFill
  <2> QED BY <2>1
<1> QED BY <1>4, <1>5 DEF OneUse

LEMMA InvPages == Inv => PagesInv
<1> SUFFICES ASSUME Inv PROVE PagesInv
  OBVIOUS
<1>1. Types /\ Locks /\ Booted /\ \A p \in Pid : Thread(p)
  BY DEF Inv
<1>2. TypeOK
  <2>1. Range(freelist) \subseteq Frame
    BY <1>1 DEF Types, Range
  <2>2. \A p \in Pid : /\ proc[p].state \in {"unused", "embryo", "run", "zombie"}
                       /\ proc[p].sz \in 0 .. KERNBASE /\ job[p].a \in 0 .. (KERNBASE + NPTENTRIES * PGSIZE)
    <3>1. \A p \in Pid : proc[p] \in ProcT /\ job[p] \in JobT
      BY <1>1 DEF Types
    <3>2. \A p \in Pid : job[p].a \in Address
      BY <3>1 DEF JobT
    <3> QED BY <3>1, <3>2 DEF ProcT, Address
  <2>3. ptable # 0 => job[ptable].op \in {"fork", "wait"}
    <3>1. ptable # 0 => ptable \in Pid
      BY <1>1 DEF Types, Pid
    <3> QED BY <1>1, <3>1 DEF Locks
  <2> QED BY <1>1, <2>1, <2>2, <2>3 DEF TypeOK, Types
<1>3. SizeMapped
  <2>1. ASSUME NEW p \in Pid, CanCall(p), NEW g \in Page
        PROVE  dir[proc[p].pgdir].pte[g] # 0 <=> g * PGSIZE < proc[p].sz
    <3>1. Below(dir[proc[p].pgdir], Up(proc[p].sz)) /\ proc[p].sz \in Nat
      BY <2>1, Caller
    <3>2. g \in Nat
      BY Space DEF Page
    <3>3. g * PGSIZE < proc[p].sz <=> g < Up(proc[p].sz)
      BY <3>1, <3>2, UpIn
    <3> QED BY <3>1, <3>3 DEF Below
  <2> QED BY <1>1, <2>1 DEF SizeMapped, Types
<1>4. LoadedOwn
  <2> SUFFICES ASSUME NEW p \in Pid, proc[p].state = "run"
               PROVE  /\ cr3[p].d \notin Range(freelist) \cup leaked
                      /\ CanCall(p) => cr3[p].d = proc[p].pgdir /\ cr3[p].tlb \subseteq Pages(proc[p].pgdir)
    BY DEF LoadedOwn
  <2>1. proc[p].kstack # 0 /\ proc[p].pgdir # 0 /\ cr3[p].d = proc[p].pgdir /\ proc[p].pgdir \in Frame
    <3>1. Image(proc[p], job[p], Dir(Pgdirs[p]), cr3[p], before[p]) /\ proc[p] \in ProcT
      BY <1>1 DEF Thread, Types
    <3>2. proc[p].kstack # 0 /\ proc[p].pgdir # 0 /\ cr3[p].d = proc[p].pgdir
      BY <3>1 DEF Image
    <3>3. proc[p].pgdir \in Link
      BY <3>1 DEF ProcT
    <3> QED BY <3>2, <3>3 DEF Link, Frame
  <2>2. proc[p].pgdir \notin Range(freelist) \cup leaked
    <3> DEFINE d == proc[p].pgdir
    <3>1. PICK own : Owns(own, freelist, cpus, leaked, Unfreed, Kstacks, Pgdirs, Taken, Hands, dir)
      BY DEF Inv, Owned, OwnsNow
    <3>2. Pgdirs[p] = d /\ d \in Frame
      BY <2>1 DEF Pgdirs
    <3> HIDE DEF d
    <3>3. own[d] = <<"pgdir", p, 0>>
      BY <3>1, <3>2 DEF Owns, OfProc
    <3>4. own[d] # <<"free", 0, 0>> /\ own[d] # <<"lost", 0, 0>>
      BY <3>3
    <3>5. OfSet(own, "free", Range(freelist)) /\ OfSet(own, "lost", leaked)
      BY <3>1 DEF Owns
    <3>6. d \notin Range(freelist) \cup leaked
      BY <3>2, <3>4, <3>5 DEF OfSet
    <3> QED BY <3>6 DEF d
  <2>3. CanCall(p) => cr3[p].tlb \subseteq Pages(proc[p].pgdir)
    <3> SUFFICES ASSUME CanCall(p), NEW f \in cr3[p].tlb PROVE f \in Pages(proc[p].pgdir)
      OBVIOUS
    <3>1. Cached(cr3[p], dir[proc[p].pgdir], Up(proc[p].sz))
      BY Caller
    <3>2. PICK g \in Page : dir[proc[p].pgdir].pte[g] = f
      BY <3>1 DEF Cached
    <3>3. f # 0
      <4>1. cr3[p] \in SpaceT
        BY <1>1 DEF Types
      <4> QED BY <4>1, UsedFrame DEF SpaceT
    <3>4. DOMAIN dir[proc[p].pgdir].pte = Page
      BY <1>1, <2>1 DEF Types, DirT
    <3> QED BY <3>2, <3>3, <3>4 DEF Pages, Range
  <2> QED BY <2>1, <2>2, <2>3
<1>5. BootSafe
  <2>1. Range(cpus) \subseteq 1 .. NLOW
    BY <1>1 DEF Types, Range
  <2>2. (\E p \in Pid : proc[p].state # "unused") => use_lock
    <3>1. boot # <<>> => \A p \in Pid : proc[p].state = "unused"
      BY Early, NoProcIs
    <3>2. boot = <<>> => use_lock
      BY <1>1 DEF Booted
    <3> QED BY <3>1, <3>2
  <2> QED BY <2>1, <2>2 DEF BootSafe
<1> QED BY <1>2, <1>3, <1>4, <1>5, UsesOne DEF PagesInv

-----------------------------------------------------------------------------

(* No page has two uses, none is lost but those that setupkvm() and copyuvm()
   drop, the size of a process is what its directory maps, and no CPU works with
   a directory, or a page, that was given back: kalloc(), kfree(), allocuvm(),
   deallocuvm(), freevm(), copyuvm(), exec(), growproc(), fork(), exit(), wait(). *)
THEOREM PagesRight == Spec => []PagesInv
<1>1. Init => Inv
  BY InitInv
<1>2. Inv /\ [Next]_vars => Inv'
  BY NextInv
<1>3. Inv => PagesInv
  BY InvPages
<1> QED BY <1>1, <1>2, <1>3, PTL DEF Spec

-----------------------------------------------------------------------------
(* A call that fails *)

Fails(p) == job[p].pc \in {"tables", "undone", "dir", "kern"} /\ job'[p].pc = "user" /\ job[p].op # "old"
Kept(p) == dir'[proc'[p].pgdir].pte = before[p] /\ proc'[p].sz = proc[p].sz

LEMMA NotMine ==
    ASSUME Inv, NEW p \in Pid, NEW q \in Pid, Step(q), p # q
    PROVE  job'[p] = job[p]
<1>1. DOMAIN job = Pid
  <2>1. job \in [Pid -> JobT]
    BY DEF Inv, Types
  <2> QED BY <2>1
<1>2. CASE NewDir(q)
  BY <1>1, <1>2 DEF NewDir, Failed, Go
<1>3. CASE Kern(q)
  BY <1>1, <1>3 DEF Kern, Failed, Go
<1>4. CASE NewPage(q)
  BY <1>1, <1>4 DEF NewPage, Undo, Go
<1>5. CASE NewTable(q) \/ Undone(q)
  BY <1>1, <1>5 DEF NewTable, Undone, Undo, Go
<1>6. CASE Dealloc(q)
  BY <1>1, <1>6 DEF Dealloc, Go
<1>7. CASE freevm(q)
  BY <1>1, <1>7 DEF freevm, Go
<1>8. CASE Segment(q) \/ Loaded(q) \/ ExecFails(q) \/ Stack(q) \/ Commit(q)
  BY <1>1, <1>8 DEF Segment, Loaded, ExecFails, Stack, Commit, Go
<1>9. CASE Grown(q) \/ Shrunk(q) \/ Born(q) \/ Unfork(q) \/ Reaped(q)
  BY <1>1, <1>9 DEF Grown, Shrunk, Born, Unfork, Reaped, Go
<1>10. CASE Copy(q)
  BY <1>1, <1>10 DEF Copy, Go
<1>11. CASE CopyTable(q)
  BY <1>1, <1>11 DEF CopyTable, Go
<1> QED BY <1>2, <1>3, <1>4, <1>5, <1>6, <1>7, <1>8, <1>9, <1>10, <1>11 DEF Step

\* Only four steps of a call end it without success.
LEMMA Failing ==
    ASSUME Inv, NEW p \in Pid, Next, Fails(p)
    PROVE  NewDir(p) \/ Kern(p) \/ Undone(p) \/ freevm(p)
<1>1. /\ job[p].pc # "user" /\ job'[p] # job[p] /\ DOMAIN job = Pid
      /\ job[p].pc \in {"tables", "undone", "dir", "kern"}
  BY DEF Fails, Inv, Types
<1>2. ~Boot
  BY <1>1 DEF Boot, kinit1, kinit2, kvmalloc, startothers, userinit
<1>3. ASSUME NEW q \in Pid, Exit(q) \/ yield(q) PROVE FALSE
  BY <1>1, <1>3 DEF Exit, yield
<1>4. ASSUME NEW q \in Pid, NEW segs \in Programs, NEW fits \in BOOLEAN, Exec(q, segs, fits) PROVE FALSE
  BY <1>1, <1>4 DEF Exec, CanCall
<1>5. ASSUME NEW q \in Pid, NEW n \in Grow, Sbrk(q, n) PROVE FALSE
  BY <1>1, <1>5 DEF Sbrk, CanCall, Go
<1>6. ASSUME NEW q \in Pid, NEW x \in Pid, Fork(q, x) \/ Wait(q, x) PROVE FALSE
  BY <1>1, <1>6, SMTT(30) DEF Fork, Wait, CanCall
<1>7. ASSUME NEW q \in Pid, Step(q) PROVE q = p
  BY <1>1, <1>7, NotMine
<1>8. Step(p)
  BY <1>2, <1>3, <1>4, <1>5, <1>6, <1>7, SMTT(30) DEF Next
<1>9. ~(NewPage(p) \/ NewTable(p) \/ Dealloc(p) \/ Segment(p) \/ Loaded(p) \/ ExecFails(p) \/ Stack(p) \/ Commit(p))
  BY <1>1, SMTT(30) DEF NewPage, NewTable, Dealloc, Segment, Loaded, ExecFails, Stack, Commit, At
<1>10. ~(Grown(p) \/ Shrunk(p) \/ Copy(p) \/ CopyTable(p) \/ Born(p) \/ Unfork(p) \/ Reaped(p))
  BY <1>1 DEF Grown, Shrunk, Copy, CopyTable, Born, Unfork, Reaped, At
<1> QED BY <1>8, <1>9, <1>10 DEF Step

\* allocuvm() has taken back what it allocated.
LEMMA UndoneFails == ASSUME Inv, NEW p \in Pid, Undone(p), Fails(p) PROVE Kept(p)
<1> DEFINE j == job[p]
           P == dir[proc[p].pgdir]
           b == before[p]
           u == Up(proc[p].sz)
<1>1. j.pc = "undone" /\ dir' = dir /\ proc' = proc
      /\ job' = [job EXCEPT ![p] = IF j.op = "grow" THEN NoJob ELSE [j EXCEPT !.pc = "bad", !.mem = 0]]
  BY DEF Undone, At, Go
<1>2. j \in JobT /\ Flow(j) /\ Image(proc[p], j, P, cr3[p], b) /\ DOMAIN job = Pid /\ proc[p].pgdir \in Frame
  BY <1>1, Working DEF Inv, Types
<1>3. j.op = "grow"
  BY <1>1, <1>2 DEF Fails, JobT
<1>4. ~Shrinks(j)
  BY <1>1, <1>2, <1>3 DEF Flow, Shrinks
<1>5. j.d = proc[p].pgdir /\ j.from = proc[p].sz /\ b = [g \in Page |-> IF g < u THEN P.pte[g] ELSE 0]
  BY <1>2, <1>3, <1>4 DEF Image
<1>6. j.d # 0 /\ Below(Dir(j.d), u)
  BY <1>1, <1>5, Here DEF Where
<1>7. Dir(j.d) = P
  BY <1>5, <1>6 DEF Dir
<1>8. P.pte \in [Page -> Link]
  BY <1>2 DEF Inv, Types, DirT
<1> HIDE DEF u, P
<1>9. \A g \in Page : P.pte[g] # 0 <=> g < u
  BY <1>6, <1>7 DEF Below
<1>10. b = P.pte
  BY <1>5, <1>8, <1>9, SMTT(30)
<1> QED BY <1>1, <1>10 DEF Kept, P

\* setupkvm() has failed, or exec() has freed the new directory: the old one is as it was.
LEMMA ExecGaveUp ==
    ASSUME Inv, NEW p \in Pid, NewDir(p) \/ Kern(p) \/ freevm(p), Fails(p)
    PROVE  Kept(p)
<1> DEFINE j == job[p]
           P == dir[proc[p].pgdir]
<1>1. j.pc \in {"dir", "kern", "tables"} /\ proc' = proc
  BY DEF NewDir, Kern, freevm, At
<1>2. j \in JobT /\ Image(proc[p], j, P, cr3[p], before[p]) /\ DOMAIN job = Pid /\ proc[p].pgdir \in Frame
      /\ dir \in [Frame -> DirT]
  BY <1>1, Working DEF Inv, Types
<1>3. j.op = "exec" /\ dir'[proc[p].pgdir] = P
  <2>1. CASE NewDir(p)
    <3>1. j.pc = "dir" /\ j.op \in {"exec", "fork"}
      BY <2>1, InSetup DEF NewDir, At
    <3>2. CASE freelist = <<>>
      <4>1. dir' = dir /\ Failed(p)
        BY <2>1, <3>2 DEF NewDir
      <4>2. j.op = "exec"
        BY <1>2, <3>1, <4>1 DEF Failed, Go, Fails, JobT
      <4> QED BY <4>1, <4>2
    <3>3. CASE freelist # <<>>
      <4>1. job' = [job EXCEPT ![p] = [j EXCEPT !.pc = "kern", !.d = Head(freelist)]]
        BY <2>1, <3>3 DEF NewDir, Go
      <4>2. job'[p].pc = "kern"
        BY <1>2, <4>1 DEF JobT
      <4> QED BY <4>2 DEF Fails
    <3> QED BY <3>2, <3>3
  <2>2. CASE Kern(p)
    <3>1. j.pc = "kern" /\ j.op \in {"exec", "fork"} /\ proc[p].pgdir # j.d
      <4>1. j.pc = "kern"
        BY <2>2 DEF Kern, At
      <4> QED BY <4>1, InSetup
    <3>2. Len(dir[j.d].kern) # NKTAB
      <4>1. SUFFICES ASSUME Len(dir[j.d].kern) = NKTAB PROVE FALSE
        OBVIOUS
      <4>2. job' = [job EXCEPT ![p] = IF j.op = "exec" THEN [j EXCEPT !.pc = "seg"] ELSE [j EXCEPT !.pc = "copy", !.a = 0]]
        BY <2>2, <4>1 DEF Kern, Go
      <4> QED BY <1>2, <4>2 DEF Fails, JobT
    <3>3. ~(Len(dir[j.d].kern) < NKTAB /\ freelist # <<>>)
      <4>1. SUFFICES ASSUME Len(dir[j.d].kern) < NKTAB /\ freelist # <<>> PROVE FALSE
        OBVIOUS
      <4>2. job' = job
        BY <2>2, <3>2, <4>1 DEF Kern
      <4> QED BY <4>2 DEF Fails
    <3>4. dir' = [dir EXCEPT ![j.d] = NoDir] /\ Failed(p)
      BY <2>2, <3>2, <3>3 DEF Kern
    <3>5. j.op = "exec"
      BY <1>2, <3>1, <3>4, ZenonT(40) DEF Failed, Go, Fails, JobT
    <3> QED BY <1>2, <3>1, <3>4, <3>5
  <2>3. CASE freevm(p)
    <3> DEFINE used == {t \in DOMAIN dir[j.d].tab : dir[j.d].tab[t] # 0}
               w == CASE j.op \in {"exec", "old"} -> NoJob
                      [] j.op = "fork" -> [j EXCEPT !.pc = "unfork", !.d = 0]
                      [] j.op = "wait" -> [j EXCEPT !.pc = "reaped", !.d = 0]
    <3>1. proc[p].pgdir # j.d /\ j.op \in {"exec", "fork", "wait"}
      <4>1. j.pc = "tables"
        BY <2>3 DEF freevm, At
      <4>2. proc[p].pgdir # j.d /\ j.op \in {"exec", "old", "fork", "wait"}
        BY <4>1, InTables
      <4> QED BY <4>2, SMTT(30) DEF Fails
    <3>2. job' # job
      BY DEF Fails
    <3>3. dir' = [dir EXCEPT ![j.d] = NoDir] /\ job' = [job EXCEPT ![p] = w]
      <4>1. CASE used # {}
        BY <2>3, <3>2, <4>1, ZenonT(40) DEF freevm
      <4>2. CASE used = {} /\ dir[j.d].kern # <<>>
        BY <2>3, <3>2, <4>2, ZenonT(40) DEF freevm
      <4>3. CASE used = {} /\ dir[j.d].kern = <<>>
        BY <2>3, <4>3 DEF freevm, Go
      <4> QED BY <4>1, <4>2, <4>3, ZenonT(40)
    <3>4. j.op = "exec"
      <4>1. j.op = "fork" => w = [j EXCEPT !.pc = "unfork", !.d = 0]
        OBVIOUS
      <4>2. j.op = "wait" => w = [j EXCEPT !.pc = "reaped", !.d = 0]
        OBVIOUS
      <4>3. w.pc = "user"
        BY <1>2, <3>3 DEF Fails
      <4> HIDE DEF w
      <4> QED BY <1>2, <3>1, <4>1, <4>2, <4>3 DEF JobT
    <3> QED BY <1>2, <3>1, <3>3, <3>4
  <2> QED BY <2>1, <2>2, <2>3
<1>4. before[p] = P.pte
  BY <1>2, <1>3 DEF Image
<1> QED BY <1>1, <1>3, <1>4, SMTT(30) DEF Kept

\* A failed call of p leaves its image.
LEMMA FailKeeps == ASSUME Inv, NEW p \in Pid, [Next]_vars, Fails(p) PROVE Kept(p)
<1>1. CASE Next
  BY <1>1, Failing, UndoneFails, ExecGaveUp
<1>2. CASE UNCHANGED vars
  BY <1>2 DEF vars, Fails
<1> QED BY <1>1, <1>2

(* exec() that runs out of memory, meets a bad file or arguments that do not
   fit, and allocuvm() for sbrk() that runs out of memory, leave the size of the
   process and each of its pages as they were when the call began. *)
THEOREM FailedLeaves == Spec => FailedKeeps
<1>1. Init => Inv
  BY InitInv
<1>2. Inv /\ [Next]_vars => Inv'
  BY NextInv
<1>3. Inv /\ [Next]_vars => (\A p \in Pid : job[p].pc \in {"tables", "undone", "dir", "kern"} /\ job'[p].pc = "user" /\ job[p].op # "old"
                                => dir'[proc'[p].pgdir].pte = before[p] /\ proc'[p].sz = proc[p].sz)
  BY FailKeeps DEF Fails, Kept
<1> QED BY <1>1, <1>2, <1>3, PTL DEF Spec, FailedKeeps
=============================================================================
