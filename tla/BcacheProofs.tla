---------------------------- MODULE BcacheProofs ----------------------------
(***************************************************************************)
(* Proofs about the buffer cache and the disk queue, for any number of     *)
(* processes, buffers and blocks, and whatever the drive fails to read.    *)
(***************************************************************************)
EXTENDS Bcache, FiniteSetTheorems, WellFoundedInduction, TLAPS

\* A process in iderw(), between the request and the test that ends the wait.
InIo(p) == pc[p] \in {"io_test", "io_sleep"}

\* The drive works as long as there are requests.
Working == started = (idequeue # <<>>)

\* A request in the queue is not done, and the process that made it waits for it
\* and holds the buffer: the queue names no buffer that somebody else may take.
QueuedHeld == \A x \in ToSet(idequeue) : /\ ~Done(x)
                                         /\ \E p \in Proc : InIo(p) /\ have[p] = x

\* Who waits in iderw() has a request in the queue until it is done.
WaitQueued == \A p \in Proc : InIo(p) /\ ~Done(have[p]) => have[p] \in ToSet(idequeue)

\* bread() is past iderw() only with valid data.
HeldValid == \A p \in Proc : pc[p] = "hold" => "VALID" \in flags[have[p]]

QueueInv == Working /\ QueuedHeld /\ WaitQueued /\ HeldValid

\* A process past "idle" knows its block; one that holds or waits for a buffer
\* knows its buffer.
NamesInv == \A p \in Proc : /\ pc[p] # "idle" => want[p] \in Blocks
                            /\ Holding(p) \/ pc[p] = "get_sleep" => have[p] \in Buf

\* A dirty buffer is newer than the disk; the disk is up to date for a block in
\* no dirty buffer; a valid buffer holds the block's latest contents.
DataInv == /\ \A x \in Buf : "DIRTY" \in flags[x] =>
                 "VALID" \in flags[x] /\ blockno[x] # None /\ x \notin failed
           /\ \A x \in Buf : "VALID" \in flags[x] /\ x \notin failed =>
                 data[x] = latest[blockno[x]]
           /\ \A x \in Buf : "VALID" \in flags[x] => blockno[x] # None
           /\ \A b \in Blocks : (\A x \in Cached(b) : "DIRTY" \notin flags[x])
                                   => disk[b] = latest[b]

Inv == CacheInv /\ QueueInv /\ NamesInv /\ DataInv

USE BcacheAssumption DEF Phase

-----------------------------------------------------------------------------
(* Facts about the lists *)

LEMMA AppendSet == ASSUME NEW S, NEW q \in Seq(S), NEW x \in S
                   PROVE  /\ Append(q, x) \in Seq(S) /\ Append(q, x) # <<>>
                          /\ ToSet(Append(q, x)) = ToSet(q) \cup {x}
                          /\ IsInjective(q) /\ x \notin ToSet(q) => IsInjective(Append(q, x))
<1> DEFINE a == Append(q, x)
<1>1. /\ a \in Seq(S) /\ DOMAIN a = 1..(Len(q) + 1) /\ DOMAIN q = 1..Len(q) /\ Len(q) \in Nat
      /\ a[Len(q) + 1] = x /\ \A i \in 1..Len(q) : a[i] = q[i]
  OBVIOUS
<1> HIDE DEF a
<1>2. ToSet(a) = ToSet(q) \cup {x}
  <2>1. ToSet(a) \subseteq ToSet(q) \cup {x}
    BY <1>1 DEF ToSet
  <2>2. ASSUME NEW y \in ToSet(q) PROVE y \in ToSet(a)
    <3>1. PICK i \in 1..Len(q) : y = q[i]
      BY <1>1 DEF ToSet
    <3> QED BY <1>1, <3>1 DEF ToSet
  <2>3. x \in ToSet(a)
    <3>1. Len(q) + 1 \in DOMAIN a
      BY <1>1
    <3> QED BY <1>1, <3>1 DEF ToSet
  <2> QED BY <2>1, <2>2, <2>3
<1>3. IsInjective(q) /\ x \notin ToSet(q) => IsInjective(a)
  BY <1>1 DEF IsInjective, ToSet
<1>4. a # <<>>
  BY <1>1
<1> QED BY <1>1, <1>2, <1>3, <1>4 DEF a

LEMMA TailSet == ASSUME NEW S, NEW q \in Seq(S), q # <<>>, IsInjective(q)
                 PROVE  /\ Tail(q) \in Seq(S) /\ IsInjective(Tail(q))
                        /\ Head(q) \in S /\ Head(q) \in ToSet(q)
                        /\ ToSet(Tail(q)) = ToSet(q) \ {Head(q)}
<1> DEFINE t == Tail(q)
<1>1. /\ t \in Seq(S) /\ DOMAIN t = 1..(Len(q) - 1) /\ DOMAIN q = 1..Len(q) /\ Len(q) \in Nat \ {0}
      /\ Head(q) = q[1] /\ \A i \in 1..(Len(q) - 1) : t[i] = q[i + 1]
  OBVIOUS
<1> HIDE DEF t
<1>2. Head(q) \in S /\ Head(q) \in ToSet(q)
  BY <1>1 DEF ToSet
<1>3. IsInjective(t)
  BY <1>1 DEF IsInjective
<1>4. ToSet(t) \subseteq ToSet(q) \ {Head(q)}
  <2> SUFFICES ASSUME NEW y \in ToSet(t) PROVE y \in ToSet(q) \ {Head(q)}
    OBVIOUS
  <2>1. PICK i \in 1..(Len(q) - 1) : y = t[i]
    BY <1>1 DEF ToSet
  <2>2. y = q[i + 1] /\ i + 1 \in 1..Len(q) /\ i + 1 # 1 /\ 1 \in 1..Len(q)
    BY <1>1, <2>1
  <2>3. y # q[1]
    BY <1>1, <2>2, Zenon DEF IsInjective
  <2> QED BY <1>1, <2>2, <2>3 DEF ToSet
<1>5. ASSUME NEW y \in ToSet(q), y # Head(q) PROVE y \in ToSet(t)
  <2>1. PICK i \in 1..Len(q) : y = q[i]
    BY <1>1, <1>5 DEF ToSet
  <2>2. i - 1 \in DOMAIN t /\ t[i - 1] = y
    BY <1>1, <1>5, <2>1
  <2> QED BY <2>2 DEF ToSet
<1> QED BY <1>1, <1>2, <1>3, <1>4, <1>5 DEF t

\* brelse() keeps the LRU list a list of all buffers.
LEMMA ToFrontSame == ASSUME lru \in Seq(Buf), IsInjective(lru), ToSet(lru) = Buf,
                            NEW x \in Buf
                     PROVE  /\ ToFront(x) \in Seq(Buf) /\ IsInjective(ToFront(x))
                            /\ ToSet(ToFront(x)) = Buf
<1> DEFINE n == Len(lru)
           at == CHOOSE i \in 1..n : lru[i] = x
           f == [i \in 1..n |-> IF i = 1 THEN x ELSE IF i <= at THEN lru[i - 1] ELSE lru[i]]
<1>1. n \in Nat /\ DOMAIN lru = 1..n /\ \A i \in 1..n : lru[i] \in Buf
  OBVIOUS
<1>2. at \in 1..n /\ lru[at] = x
  <2>1. \E i \in 1..n : lru[i] = x
    BY <1>1 DEF ToSet
  <2> QED BY <2>1
<1>3. ToFront(x) = f
  BY DEF ToFront
<1> HIDE DEF n, at
<1>4. \A i \in 1..n : f[i] \in Buf
  BY <1>1, <1>2
<1>5. f \in Seq(Buf) /\ DOMAIN f = 1..n
  <2>1. f \in [1..n -> Buf]
    BY <1>4
  <2> QED BY <1>1, <2>1
<1>6. IsInjective(f)
  BY <1>1, <1>2 DEF IsInjective
<1>7. ASSUME NEW y \in Buf PROVE y \in ToSet(f)
  <2>1. PICK i \in 1..n : lru[i] = y
    BY <1>1 DEF ToSet
  <2>2. CASE i = at
    <3>1. 1 \in DOMAIN f /\ f[1] = y
      BY <1>1, <1>2, <2>1, <2>2
    <3> QED BY <3>1 DEF ToSet
  <2>3. CASE i < at
    <3>1. i + 1 \in DOMAIN f /\ f[i + 1] = y
      BY <1>1, <1>2, <2>1, <2>3
    <3> QED BY <3>1 DEF ToSet
  <2>4. CASE i > at
    <3>1. i \in DOMAIN f /\ f[i] = y
      BY <1>1, <1>2, <2>1, <2>4
    <3> QED BY <3>1 DEF ToSet
  <2> QED BY <1>1, <1>2, <2>1, <2>2, <2>3, <2>4
<1>8. ToSet(f) \subseteq Buf
  BY <1>4, <1>5 DEF ToSet
<1> QED BY <1>3, <1>5, <1>6, <1>7, <1>8

\* The scan of bget() from the end of the list finds a clean buffer if there
\* is one: a set of positions has a largest element.
LEMMA MaxIn == ASSUME NEW n \in Nat, NEW S \in SUBSET (1..n), S # {}
               PROVE  Max(S) \in S
<1> DEFINE R == OpToRel(<, Nat)
           T == {n - i : i \in S}
<1>1. T \subseteq Nat /\ T # {}
  <2>1. \A i \in S : n - i \in Nat
    OBVIOUS
  <2> QED BY <2>1
<1>2. IsWellFoundedOn(R, Nat)
  BY NatLessThanWellFounded
<1>3. \A x, y \in Nat : y < x => <<y, x>> \in R
  BY DEF OpToRel
<1> HIDE DEF R, T
<1>4. PICK x \in T : \A y \in T : ~ (<<y, x>> \in R)
  BY <1>1, <1>2, WFMin, Zenon
<1>5. \A y \in T : ~ (y < x)
  BY <1>1, <1>3, <1>4
<1>6. PICK i \in S : x = n - i
  BY <1>4 DEF T
<1>7. ASSUME NEW j \in S PROVE i >= j
  <2>1. n - j \in T
    BY DEF T
  <2>2. ~ (n - j < n - i)
    BY <1>5, <1>6, <2>1
  <2> QED BY <2>2
<1> QED BY <1>7, Zenon DEF Max

-----------------------------------------------------------------------------
(* The invariant is inductive *)

LEMMA IoTestInv == ASSUME Inv, NEW p \in Proc, IoTest(p) PROVE Inv'
<1> USE DEF IoTest, Done, Inv, CacheInv, bufVars, ideVars, procVars, history
<1>1. TypeOK'
  BY DEF TypeOK, NamesInv, Holding
<1>2. OneBufferPerBlock'
  BY DEF OneBufferPerBlock
<1>3. ExclusiveUse'
  BY DEF TypeOK, ExclusiveUse, Holding
<1>4. WakeupToCome'
  BY DEF TypeOK, WakeupToCome, QueueInv, WaitQueued, InIo, Done, ExclusiveUse, Holding, NamesInv
<1>5. QueueInv'
  <2>1. Working'
    BY DEF QueueInv, Working
  <2>2. QueuedHeld'
    <3>1. SUFFICES ASSUME NEW y \in ToSet(idequeue)
                   PROVE  ~Done(y)' /\ \E q \in Proc : InIo(q)' /\ have'[q] = y
      BY DEF QueuedHeld
    <3>2. ~Done(y) /\ \E q \in Proc : InIo(q) /\ have[q] = y
      BY <3>1 DEF QueueInv, QueuedHeld
    <3> QED BY <3>2 DEF TypeOK, InIo, Done
  <2>3. WaitQueued'
    BY DEF QueueInv, WaitQueued, TypeOK, InIo, Done, NamesInv, Holding
  <2>4. HeldValid'
    BY DEF QueueInv, HeldValid, TypeOK, NamesInv, Holding
  <2> QED BY <2>1, <2>2, <2>3, <2>4 DEF QueueInv
<1>6. NamesInv'
  BY DEF TypeOK, NamesInv, Holding
<1>7. DataInv'
  BY DEF TypeOK, DataInv, Cached, NamesInv, Holding, ExclusiveUse, QueueInv, OneBufferPerBlock
<1> QED BY <1>1, <1>2, <1>3, <1>4, <1>5, <1>6, <1>7

LEMMA BreadInv == ASSUME Inv, NEW p \in Proc, NEW b \in Blocks, Bread(p, b) PROVE Inv'
<1> USE DEF Bread, Inv, CacheInv, bufVars, ideVars, procVars, history
<1>1. TypeOK'
  BY DEF TypeOK, NamesInv, Holding
<1>2. OneBufferPerBlock'
  BY DEF OneBufferPerBlock
<1>3. ExclusiveUse'
  BY DEF TypeOK, ExclusiveUse, Holding
<1>4. WakeupToCome'
  BY DEF TypeOK, WakeupToCome, QueueInv, InIo, Done, ExclusiveUse, Holding, NamesInv
<1>5. QueueInv'
  <2>1. Working'
    BY DEF QueueInv, Working
  <2>2. QueuedHeld'
    BY DEF QueueInv, QueuedHeld, TypeOK, InIo, Done, NamesInv, Holding
  <2>3. WaitQueued'
    BY DEF QueueInv, WaitQueued, TypeOK, InIo, Done, NamesInv, Holding
  <2>4. HeldValid'
    BY DEF QueueInv, HeldValid, TypeOK, NamesInv, Holding
  <2> QED BY <2>1, <2>2, <2>3, <2>4 DEF QueueInv
<1>6. NamesInv'
  BY DEF TypeOK, NamesInv, Holding
<1>7. DataInv'
  BY DEF TypeOK, DataInv, Cached, NamesInv, Holding, ExclusiveUse, QueueInv, OneBufferPerBlock
<1> QED BY <1>1, <1>2, <1>3, <1>4, <1>5, <1>6, <1>7

LEMMA BgetSleepInv == ASSUME Inv, NEW p \in Proc, BgetSleep(p) PROVE Inv'
<1> USE DEF BgetSleep, Cached, Inv, CacheInv, bufVars, ideVars, procVars, history
<1>1. TypeOK'
  BY DEF TypeOK, NamesInv, Holding
<1>2. OneBufferPerBlock'
  BY DEF OneBufferPerBlock
<1>3. ExclusiveUse'
  BY DEF TypeOK, ExclusiveUse, Holding
<1>4. WakeupToCome'
  BY DEF TypeOK, WakeupToCome, QueueInv, InIo, Done, ExclusiveUse, Holding, NamesInv
<1>5. QueueInv'
  <2>1. Working'
    BY DEF QueueInv, Working
  <2>2. QueuedHeld'
    BY DEF QueueInv, QueuedHeld, TypeOK, InIo, Done, NamesInv, Holding
  <2>3. WaitQueued'
    BY DEF QueueInv, WaitQueued, TypeOK, InIo, Done, NamesInv, Holding
  <2>4. HeldValid'
    BY DEF QueueInv, HeldValid, TypeOK, NamesInv, Holding
  <2> QED BY <2>1, <2>2, <2>3, <2>4 DEF QueueInv
<1>6. NamesInv'
  BY DEF TypeOK, NamesInv, Holding
<1>7. DataInv'
  BY DEF TypeOK, DataInv, Cached, NamesInv, Holding, ExclusiveUse, QueueInv, OneBufferPerBlock
<1> QED BY <1>1, <1>2, <1>3, <1>4, <1>5, <1>6, <1>7

LEMMA BgetPanicInv == ASSUME Inv, NEW p \in Proc, BgetPanic(p) PROVE Inv'
<1> USE DEF BgetPanic, Cached, Inv, CacheInv, bufVars, ideVars, procVars, history
<1>1. TypeOK'
  BY DEF TypeOK, NamesInv, Holding
<1>2. OneBufferPerBlock'
  BY DEF OneBufferPerBlock
<1>3. ExclusiveUse'
  BY DEF TypeOK, ExclusiveUse, Holding
<1>4. WakeupToCome'
  BY DEF TypeOK, WakeupToCome, QueueInv, InIo, Done, ExclusiveUse, Holding, NamesInv
<1>5. QueueInv'
  <2>1. Working'
    BY DEF QueueInv, Working
  <2>2. QueuedHeld'
    BY DEF QueueInv, QueuedHeld, TypeOK, InIo, Done, NamesInv, Holding
  <2>3. WaitQueued'
    BY DEF QueueInv, WaitQueued, TypeOK, InIo, Done, NamesInv, Holding
  <2>4. HeldValid'
    BY DEF QueueInv, HeldValid, TypeOK, NamesInv, Holding
  <2> QED BY <2>1, <2>2, <2>3, <2>4 DEF QueueInv
<1>6. NamesInv'
  BY DEF TypeOK, NamesInv, Holding
<1>7. DataInv'
  BY DEF TypeOK, DataInv, Cached, NamesInv, Holding, ExclusiveUse, QueueInv, OneBufferPerBlock
<1> QED BY <1>1, <1>2, <1>3, <1>4, <1>5, <1>6, <1>7

LEMMA LogWriteInv == ASSUME Inv, NEW p \in Proc, NEW v \in Val, LogWrite(p, v) PROVE Inv'
<1> USE DEF LogWrite, Modify, Done, Inv, CacheInv, bufVars, ideVars, procVars, history
<1>1. TypeOK'
  BY DEF TypeOK, NamesInv, Holding
<1>2. OneBufferPerBlock'
  BY DEF OneBufferPerBlock
<1>3. ExclusiveUse'
  BY DEF TypeOK, ExclusiveUse, Holding
<1>4. WakeupToCome'
  BY DEF TypeOK, WakeupToCome, QueueInv, InIo, Done, ExclusiveUse, Holding, NamesInv
<1>5. QueueInv'
  <2>1. Working'
    BY DEF QueueInv, Working
  <2>2. QueuedHeld'
    BY DEF QueueInv, QueuedHeld, TypeOK, InIo, Done, NamesInv, Holding
  <2>3. WaitQueued'
    BY DEF QueueInv, WaitQueued, TypeOK, InIo, Done, NamesInv, Holding, ExclusiveUse
  <2>4. HeldValid'
    BY DEF QueueInv, HeldValid, TypeOK, NamesInv, Holding
  <2> QED BY <2>1, <2>2, <2>3, <2>4 DEF QueueInv
<1>6. NamesInv'
  BY DEF TypeOK, NamesInv, Holding
<1>7. DataInv'
  BY DEF TypeOK, DataInv, Cached, NamesInv, Holding, ExclusiveUse, QueueInv, HeldValid, OneBufferPerBlock
<1> QED BY <1>1, <1>2, <1>3, <1>4, <1>5, <1>6, <1>7

LEMMA KillInv == ASSUME Inv, NEW p \in Proc, Kill(p) PROVE Inv'
<1> USE DEF Kill, Inv, CacheInv, bufVars, ideVars, procVars, history
<1>1. TypeOK'
  BY DEF TypeOK, NamesInv, Holding
<1>2. OneBufferPerBlock'
  BY DEF OneBufferPerBlock
<1>3. ExclusiveUse'
  BY DEF TypeOK, ExclusiveUse, Holding
<1>4. WakeupToCome'
  BY DEF TypeOK, WakeupToCome, QueueInv, InIo, Done, ExclusiveUse, Holding, NamesInv
<1>5. QueueInv'
  <2>1. Working'
    BY DEF QueueInv, Working
  <2>2. QueuedHeld'
    BY DEF QueueInv, QueuedHeld, TypeOK, InIo, Done, NamesInv, Holding
  <2>3. WaitQueued'
    BY DEF QueueInv, WaitQueued, TypeOK, InIo, Done, NamesInv, Holding
  <2>4. HeldValid'
    BY DEF QueueInv, HeldValid, TypeOK, NamesInv, Holding
  <2> QED BY <2>1, <2>2, <2>3, <2>4 DEF QueueInv
<1>6. NamesInv'
  BY DEF TypeOK, NamesInv, Holding
<1>7. DataInv'
  BY DEF TypeOK, DataInv, Cached, NamesInv, Holding, ExclusiveUse, QueueInv, OneBufferPerBlock
<1> QED BY <1>1, <1>2, <1>3, <1>4, <1>5, <1>6, <1>7


\* iderw() appends the buffer of its caller, which is not in the queue.
LEMMA RequestQueue == ASSUME TypeOK, Working, NEW x \in Buf, x \notin ToSet(idequeue),
                             NEW p \in Proc, Request(p, x)
                      PROVE  /\ idequeue' \in Seq(Buf) /\ IsInjective(idequeue')
                             /\ ToSet(idequeue)' = ToSet(idequeue) \cup {x}
                             /\ Working' /\ started' \in BOOLEAN
<1>1. /\ idequeue' = Append(idequeue, x) /\ started' = (started \/ idequeue = <<>>)
      /\ idequeue \in Seq(Buf) /\ IsInjective(idequeue)
  BY DEF Request, TypeOK
<1>2. /\ Append(idequeue, x) \in Seq(Buf) /\ Append(idequeue, x) # <<>>
      /\ ToSet(Append(idequeue, x)) = ToSet(idequeue) \cup {x}
      /\ IsInjective(Append(idequeue, x))
  BY <1>1, AppendSet
<1>3. started' = TRUE
  BY <1>1 DEF Working
<1> QED BY <1>1, <1>2, <1>3 DEF Working

LEMMA BgetHitInv == ASSUME Inv, NEW p \in Proc, BgetHit(p) PROVE Inv'
<1> USE DEF Inv, CacheInv, bufVars, ideVars, procVars, history
<1>1. PICK x \in Cached(want[p]) :
          /\ "BUSY" \notin flags[x]
          /\ flags' = [flags EXCEPT ![x] = @ \cup {"BUSY"}]
          /\ have' = [have EXCEPT ![p] = x]
          /\ IF "VALID" \in flags[x]
             THEN pc' = [pc EXCEPT ![p] = "hold"] /\ UNCHANGED ideVars
             ELSE Request(p, x)
  BY DEF BgetHit
<1>2. /\ pc[p] = "get" /\ x \in Buf /\ blockno[x] = want[p] /\ want[p] \in Blocks
      /\ UNCHANGED <<blockno, data, lru, want, latest, failed, disk>>
  BY <1>1 DEF BgetHit, Cached, NamesInv, Request
<1>3. x \notin ToSet(idequeue)
  BY <1>1 DEF QueueInv, QueuedHeld, ExclusiveUse, InIo, Holding
<1>4. ASSUME "VALID" \notin flags[x]
      PROVE  /\ idequeue' \in Seq(Buf) /\ IsInjective(idequeue')
             /\ ToSet(idequeue)' = ToSet(idequeue) \cup {x}
             /\ Working' /\ started' \in BOOLEAN
             /\ pc' = [pc EXCEPT ![p] = "io_test"]
  BY <1>1, <1>2, <1>3, <1>4, RequestQueue DEF QueueInv, Request, Working
<1>5. ASSUME "VALID" \in flags[x]
      PROVE  UNCHANGED <<idequeue, started>> /\ pc' = [pc EXCEPT ![p] = "hold"]
  BY <1>1, <1>5
<1>6. \A q \in Proc : Holding(q) => have[q] # x
  BY <1>1 DEF ExclusiveUse
<1>7. TypeOK'
  BY <1>1, <1>2, <1>4, <1>5 DEF TypeOK
<1>8. OneBufferPerBlock'
  BY <1>2 DEF OneBufferPerBlock
<1>9. ExclusiveUse'
  BY <1>1, <1>2, <1>4, <1>5, <1>6 DEF TypeOK, ExclusiveUse, Holding
<1>10. WakeupToCome'
  BY <1>1, <1>2, <1>4, <1>5 DEF TypeOK, WakeupToCome, NamesInv, Holding
<1>11. QueueInv'
  <2>1. Working'
    BY <1>1, <1>2, <1>3, <1>4, <1>5, <1>6 DEF QueueInv, Working
  <2>2. QueuedHeld'
    <3>1. SUFFICES ASSUME NEW y \in ToSet(idequeue)'
                   PROVE  ~Done(y)' /\ \E q \in Proc : InIo(q)' /\ have'[q] = y
      BY DEF QueuedHeld
    <3>2. CASE y = x
      BY <1>1, <1>2, <1>3, <1>4, <1>5, <1>6, <3>2 DEF TypeOK, InIo, Done
    <3>3. CASE y # x
      <4>1. y \in ToSet(idequeue)
        BY <1>1, <1>2, <1>3, <1>4, <1>5, <1>6, <3>1, <3>3
      <4>2. ~Done(y) /\ \E q \in Proc : InIo(q) /\ have[q] = y
        BY <4>1 DEF QueueInv, QueuedHeld
      <4> QED BY <1>1, <1>2, <1>3, <1>4, <1>5, <1>6, <3>3, <4>2 DEF TypeOK, InIo, Done
    <3> QED BY <3>2, <3>3
  <2>3. WaitQueued'
    BY <1>1, <1>2, <1>3, <1>4, <1>5, <1>6 DEF QueueInv, WaitQueued, TypeOK, InIo, Done, NamesInv, Holding
  <2>4. HeldValid'
    BY <1>1, <1>2, <1>3, <1>4, <1>5, <1>6 DEF QueueInv, HeldValid, TypeOK, NamesInv, Holding
  <2> QED BY <2>1, <2>2, <2>3, <2>4 DEF QueueInv
<1>12. NamesInv'
  BY <1>1, <1>2, <1>4, <1>5 DEF TypeOK, NamesInv, Holding
<1>13. DataInv'
  BY <1>1, <1>2 DEF TypeOK, DataInv, Cached
<1> QED BY <1>7, <1>8, <1>9, <1>10, <1>11, <1>12, <1>13

LEMMA BgetRecycleInv == ASSUME Inv, NEW p \in Proc, BgetRecycle(p) PROVE Inv'
<1> USE DEF Inv, CacheInv, bufVars, ideVars, procVars, history
<1> DEFINE x == lru[Max(Clean)]
<1>1. x \in Buf /\ flags[x] \cap {"BUSY", "DIRTY"} = {}
  <2>1. Len(lru) \in Nat /\ Clean \in SUBSET (1..Len(lru)) /\ Clean # {}
    BY DEF Clean, TypeOK, BgetRecycle
  <2>2. Max(Clean) \in Clean
    BY <2>1, MaxIn
  <2>3. Max(Clean) \in 1..Len(lru) /\ flags[lru[Max(Clean)]] \cap {"BUSY", "DIRTY"} = {}
    BY <2>2 DEF Clean
  <2>4. lru[Max(Clean)] \in Buf
    BY <2>1, <2>3 DEF TypeOK
  <2> QED BY <2>3, <2>4
<1> HIDE DEF x
<1>2. /\ pc[p] = "get" /\ want[p] \in Blocks /\ \A y \in Buf : blockno[y] # want[p]
      /\ blockno' = [blockno EXCEPT ![x] = want[p]]
      /\ flags' = [flags EXCEPT ![x] = {"BUSY"}]
      /\ have' = [have EXCEPT ![p] = x]
      /\ failed' = failed \ {x}
      /\ pc' = [pc EXCEPT ![p] = "io_test"]
      /\ UNCHANGED <<data, lru, want, latest, disk>>
  BY DEF BgetRecycle, Cached, NamesInv, Request, x
<1>3. x \notin ToSet(idequeue)
  BY <1>1 DEF QueueInv, QueuedHeld, ExclusiveUse, InIo, Holding
<1>4. /\ idequeue' \in Seq(Buf) /\ IsInjective(idequeue')
      /\ ToSet(idequeue)' = ToSet(idequeue) \cup {x}
      /\ Working' /\ started' \in BOOLEAN
  BY <1>1, <1>3, RequestQueue DEF QueueInv, BgetRecycle, x
<1>6. \A q \in Proc : Holding(q) \/ pc[q] = "get_sleep" => have[q] # x
  BY <1>1 DEF ExclusiveUse, WakeupToCome
<1>7. TypeOK'
  BY <1>1, <1>2, <1>4 DEF TypeOK
<1>8. OneBufferPerBlock'
  BY <1>1, <1>2 DEF OneBufferPerBlock, TypeOK
<1>9. ExclusiveUse'
  BY <1>1, <1>2, <1>6 DEF TypeOK, ExclusiveUse, Holding, NamesInv
<1>10. WakeupToCome'
  BY <1>1, <1>2, <1>4, <1>6 DEF TypeOK, WakeupToCome, NamesInv, Holding
<1>11. QueueInv'
  <2>1. Working'
    BY <1>1, <1>2, <1>3, <1>4, <1>6 DEF QueueInv, Working
  <2>2. QueuedHeld'
    <3>1. SUFFICES ASSUME NEW y \in ToSet(idequeue)'
                   PROVE  ~Done(y)' /\ \E q \in Proc : InIo(q)' /\ have'[q] = y
      BY DEF QueuedHeld
    <3>2. CASE y = x
      BY <1>1, <1>2, <1>3, <1>4, <1>6, <3>2 DEF TypeOK, InIo, Done
    <3>3. CASE y # x
      <4>1. y \in ToSet(idequeue)
        BY <1>1, <1>2, <1>3, <1>4, <1>6, <3>1, <3>3
      <4>2. ~Done(y) /\ \E q \in Proc : InIo(q) /\ have[q] = y
        BY <4>1 DEF QueueInv, QueuedHeld
      <4> QED BY <1>1, <1>2, <1>3, <1>4, <1>6, <3>3, <4>2 DEF TypeOK, InIo, Done
    <3> QED BY <3>2, <3>3
  <2>3. WaitQueued'
    BY <1>1, <1>2, <1>3, <1>4, <1>6 DEF QueueInv, WaitQueued, TypeOK, InIo, Done, NamesInv, Holding
  <2>4. HeldValid'
    BY <1>1, <1>2, <1>3, <1>4, <1>6 DEF QueueInv, HeldValid, TypeOK, NamesInv, Holding
  <2> QED BY <2>1, <2>2, <2>3, <2>4 DEF QueueInv
<1>12. NamesInv'
  BY <1>1, <1>2 DEF TypeOK, NamesInv, Holding
<1>13. DataInv'
  BY <1>1, <1>2 DEF TypeOK, DataInv, Cached
<1> QED BY <1>7, <1>8, <1>9, <1>10, <1>11, <1>12, <1>13

LEMMA BwriteInv == ASSUME Inv, NEW p \in Proc, NEW v \in Val, Bwrite(p, v) PROVE Inv'
<1> USE DEF Inv, CacheInv, bufVars, ideVars, procVars, history
<1> DEFINE x == have[p]
<1>1. /\ pc[p] = "hold" /\ x \in Buf /\ want[p] \in Blocks /\ blockno[x] = want[p]
      /\ data' = [data EXCEPT ![x] = v]
      /\ latest' = [latest EXCEPT ![want[p]] = v]
      /\ flags' = [flags EXCEPT ![x] = @ \cup {"DIRTY"}]
      /\ failed' = failed \ {x}
      /\ pc' = [pc EXCEPT ![p] = "io_test"]
      /\ UNCHANGED <<blockno, lru, want, have, disk>>
  BY DEF Bwrite, Modify, Request, NamesInv, Holding, ExclusiveUse
<1>2. x \notin ToSet(idequeue)
  BY <1>1 DEF QueueInv, QueuedHeld, ExclusiveUse, InIo, Holding
<1>3. /\ idequeue' \in Seq(Buf) /\ IsInjective(idequeue')
      /\ ToSet(idequeue)' = ToSet(idequeue) \cup {x}
      /\ Working' /\ started' \in BOOLEAN
  BY <1>1, <1>2, RequestQueue DEF QueueInv, Bwrite
<1>4. "VALID" \in flags[x] /\ \A q \in Proc \ {p} : Holding(q) => have[q] # x
  BY <1>1 DEF QueueInv, HeldValid, ExclusiveUse, Holding
<1> HIDE DEF x
<1>7. TypeOK'
  BY <1>1, <1>3 DEF TypeOK
<1>8. OneBufferPerBlock'
  BY <1>1 DEF OneBufferPerBlock
<1>9. ExclusiveUse'
  BY <1>1 DEF TypeOK, ExclusiveUse, Holding, x
<1>10. WakeupToCome'
  BY <1>1, <1>3 DEF TypeOK, WakeupToCome, NamesInv, Holding
<1>11. QueueInv'
  <2>1. Working'
    BY <1>1, <1>2, <1>3, <1>4 DEF QueueInv, Working
  <2>2. QueuedHeld'
    <3>1. SUFFICES ASSUME NEW y \in ToSet(idequeue)'
                   PROVE  ~Done(y)' /\ \E q \in Proc : InIo(q)' /\ have'[q] = y
      BY DEF QueuedHeld
    <3>2. CASE y = x
      <4>1. InIo(p)' /\ have'[p] = y /\ "DIRTY" \in flags'[y]
        BY <1>1, <3>2 DEF TypeOK, InIo, x
      <4> QED BY <4>1 DEF Done
    <3>3. CASE y # x
      <4>1. y \in ToSet(idequeue)
        BY <1>1, <1>2, <1>3, <1>4, <3>1, <3>3
      <4>2. ~Done(y) /\ \E q \in Proc : InIo(q) /\ have[q] = y
        BY <4>1 DEF QueueInv, QueuedHeld
      <4> QED BY <1>1, <1>2, <1>3, <1>4, <3>3, <4>2 DEF TypeOK, InIo, Done
    <3> QED BY <3>2, <3>3
  <2>3. WaitQueued'
    <3>1. SUFFICES ASSUME NEW q \in Proc, InIo(q)', ~Done(have[q])'
                   PROVE  have'[q] \in ToSet(idequeue)'
      BY DEF WaitQueued
    <3>2. CASE q = p
      BY <1>1, <1>3, <3>2 DEF x
    <3>3. CASE q # p
      <4>1. InIo(q) /\ have[q] # x
        BY <1>1, <1>4, <3>1, <3>3 DEF InIo, Holding, TypeOK
      <4>2. ~Done(have[q])
        BY <1>1, <3>1, <4>1 DEF Done, TypeOK, NamesInv, Holding, InIo
      <4> QED BY <1>1, <1>3, <4>1, <4>2 DEF QueueInv, WaitQueued
    <3> QED BY <3>2, <3>3
  <2>4. HeldValid'
    BY <1>1, <1>2, <1>3, <1>4 DEF QueueInv, HeldValid, TypeOK, NamesInv, Holding
  <2> QED BY <2>1, <2>2, <2>3, <2>4 DEF QueueInv
<1>12. NamesInv'
  BY <1>1 DEF TypeOK, NamesInv, Holding
<1>13. DataInv'
  BY <1>1, <1>4 DEF TypeOK, DataInv, Cached, OneBufferPerBlock
<1> QED BY <1>7, <1>8, <1>9, <1>10, <1>11, <1>12, <1>13

LEMMA BrelseInv == ASSUME Inv, NEW p \in Proc, Brelse(p) PROVE Inv'
<1> USE DEF Inv, CacheInv, bufVars, ideVars, procVars, history
<1> DEFINE x == have[p]
<1>1. /\ pc[p] = "hold" /\ x \in Buf
      /\ lru' = ToFront(x)
      /\ flags' = [flags EXCEPT ![x] = @ \ {"BUSY"}]
      /\ pc' = WakeupOn(x, [pc EXCEPT ![p] = "idle"])
      /\ have' = [have EXCEPT ![p] = None]
      /\ want' = [want EXCEPT ![p] = None]
      /\ UNCHANGED <<blockno, data, idequeue, started, disk, latest, failed>>
  BY DEF Brelse, NamesInv, Holding
<1>2. \A q \in Proc \ {p} : Holding(q) => have[q] # x
  BY <1>1 DEF ExclusiveUse, Holding
<1>3. x \notin ToSet(idequeue)
  BY <1>1 DEF QueueInv, QueuedHeld, ExclusiveUse, InIo, Holding
<1>4. /\ pc' \in [Proc -> Phase] /\ pc'[p] = "idle"
      /\ \A q \in Proc \ {p} : pc'[q] = IF have[q] = x /\ pc[q] = "get_sleep" THEN "get" ELSE pc[q]
  BY <1>1, <1>2 DEF WakeupOn, TypeOK, Holding
<1> HIDE DEF x
<1>7. TypeOK'
  BY <1>1, <1>4, ToFrontSame DEF TypeOK
<1>8. OneBufferPerBlock'
  BY <1>1 DEF OneBufferPerBlock
<1>9. ExclusiveUse'
  <2>1. ASSUME NEW q \in Proc, Holding(q)'
        PROVE  /\ q # p /\ Holding(q) /\ have'[q] = have[q] /\ have[q] # x
               /\ want'[q] = want[q] /\ flags'[have[q]] = flags[have[q]]
    BY <1>1, <1>2, <1>4, <2>1 DEF TypeOK, Holding, NamesInv
  <2> QED BY <1>1, <2>1 DEF ExclusiveUse
<1>10. WakeupToCome'
  BY <1>1, <1>4 DEF TypeOK, WakeupToCome, NamesInv, Holding
<1>11. QueueInv'
  <2>1. Working'
    BY <1>1, <1>2, <1>3, <1>4 DEF QueueInv, Working
  <2>2. QueuedHeld'
    <3>1. SUFFICES ASSUME NEW y \in ToSet(idequeue)
                   PROVE  ~Done(y)' /\ \E q \in Proc : InIo(q)' /\ have'[q] = y
      BY <1>1 DEF QueuedHeld
    <3>2. ~Done(y) /\ \E q \in Proc : InIo(q) /\ have[q] = y
      BY <3>1 DEF QueueInv, QueuedHeld
    <3>3. ~Done(y)'
      BY <1>1, <1>3, <3>1, <3>2 DEF TypeOK, Done
    <3>4. PICK q \in Proc : InIo(q) /\ have[q] = y
      BY <3>2
    <3>5. q # p /\ InIo(q)' /\ have'[q] = y
      BY <1>1, <1>4, <3>4 DEF TypeOK, InIo
    <3> QED BY <3>3, <3>5
  <2>3. WaitQueued'
    BY <1>1, <1>2, <1>3, <1>4 DEF QueueInv, WaitQueued, TypeOK, InIo, Done, NamesInv, Holding
  <2>4. HeldValid'
    BY <1>1, <1>2, <1>3, <1>4 DEF QueueInv, HeldValid, TypeOK, NamesInv, Holding
  <2> QED BY <2>1, <2>2, <2>3, <2>4 DEF QueueInv
<1>12. NamesInv'
  BY <1>1, <1>4 DEF TypeOK, NamesInv, Holding
<1>13. DataInv'
  BY <1>1 DEF TypeOK, DataInv, Cached
<1> QED BY <1>7, <1>8, <1>9, <1>10, <1>11, <1>12, <1>13

LEMMA IdeIntrInv == ASSUME Inv, NEW error \in BOOLEAN, IdeIntr(error) PROVE Inv'
<1> USE DEF Inv, CacheInv, bufVars, ideVars, procVars, history
<1> DEFINE x == Head(idequeue)
           b == blockno[x]
<1>1. /\ idequeue' \in Seq(Buf) /\ IsInjective(idequeue') /\ idequeue # <<>>
      /\ x \in Buf /\ x \in ToSet(idequeue)
      /\ ToSet(idequeue)' = ToSet(idequeue) \ {x}
  BY TailSet DEF IdeIntr, TypeOK
<1>2. /\ ~Done(x) /\ Working' /\ started' \in BOOLEAN
      /\ flags' = [flags EXCEPT ![x] = (@ \cup {"VALID"}) \ {"DIRTY"}]
      /\ pc' = WakeupOn(x, pc)
      /\ UNCHANGED <<blockno, lru, want, have, latest>>
  BY <1>1, TailSet DEF IdeIntr, QueueInv, QueuedHeld, Working
<1>3. IF "DIRTY" \in flags[x]
      THEN disk' = [disk EXCEPT ![b] = data[x]] /\ UNCHANGED <<data, failed>>
      ELSE /\ data' = [data EXCEPT ![x] = IF error THEN @ ELSE disk[b]]
           /\ failed' = IF error THEN failed \cup {x} ELSE failed
           /\ UNCHANGED disk
  BY DEF IdeIntr
<1>4. b \in Blocks
  BY <1>1 DEF QueueInv, QueuedHeld, ExclusiveUse, InIo, Holding, NamesInv
<1>5. /\ pc' \in [Proc -> Phase]
      /\ \A q \in Proc : pc'[q] = IF have[q] # x THEN pc[q]
                                   ELSE IF pc[q] = "get_sleep" THEN "get"
                                   ELSE IF pc[q] = "io_sleep" THEN "io_test" ELSE pc[q]
  BY <1>2 DEF WakeupOn, TypeOK
<1>6. \A q \in Proc : pc[q] = "hold" => have[q] # x
  BY <1>1 DEF QueueInv, QueuedHeld, ExclusiveUse, InIo, Holding
<1> HIDE DEF x, b
<1>7. TypeOK'
  <2>1. disk' \in [Blocks -> Val] /\ data' \in [Buf -> Val] /\ failed' \subseteq Buf
    <3>1. CASE "DIRTY" \in flags[x]
      <4>1. data[x] \in Val /\ disk' = [disk EXCEPT ![b] = data[x]] /\ UNCHANGED <<data, failed>>
        BY <1>1, <1>3, <3>1 DEF TypeOK
      <4> QED BY <1>4, <4>1 DEF TypeOK
    <3>2. CASE "DIRTY" \notin flags[x]
      <4>1. disk[b] \in Val /\ data[x] \in Val
        BY <1>1, <1>4 DEF TypeOK
      <4> QED BY <1>1, <1>3, <3>2, <4>1 DEF TypeOK
    <3> QED BY <3>1, <3>2
  <2>2. flags' \in [Buf -> SUBSET {"BUSY", "VALID", "DIRTY"}]
    BY <1>1, <1>2 DEF TypeOK
  <2> QED BY <1>1, <1>2, <1>5, <2>1, <2>2 DEF TypeOK
<1>8. OneBufferPerBlock'
  BY <1>2 DEF OneBufferPerBlock
<1>9. ExclusiveUse'
  BY <1>1, <1>2, <1>5 DEF TypeOK, ExclusiveUse, Holding
<1>10. WakeupToCome'
  BY <1>1, <1>2, <1>5 DEF TypeOK, WakeupToCome, NamesInv, Holding
<1>11. QueueInv'
  <2>1. Working'
    BY <1>1, <1>2, <1>5, <1>6 DEF QueueInv, Working
  <2>2. QueuedHeld'
    BY <1>1, <1>2, <1>5, <1>6 DEF QueueInv, QueuedHeld, TypeOK, InIo, Done, NamesInv, Holding
  <2>3. WaitQueued'
    BY <1>1, <1>2, <1>5, <1>6 DEF QueueInv, WaitQueued, TypeOK, InIo, Done, NamesInv, Holding
  <2>4. HeldValid'
    BY <1>1, <1>2, <1>5, <1>6 DEF QueueInv, HeldValid, TypeOK, NamesInv, Holding
  <2> QED BY <2>1, <2>2, <2>3, <2>4 DEF QueueInv
<1>12. NamesInv'
  BY <1>1, <1>2, <1>5 DEF TypeOK, NamesInv, Holding
<1>13. DataInv'
  BY <1>1, <1>2, <1>3, <1>4 DEF TypeOK, DataInv, Cached, OneBufferPerBlock, b
<1> QED BY <1>7, <1>8, <1>9, <1>10, <1>11, <1>12, <1>13

-----------------------------------------------------------------------------
(* Theorems *)

LEMMA InitInv == Init => Inv
<1> SUFFICES ASSUME Init PROVE Inv
  OBVIOUS
<1>1. lru \in Seq(Buf) /\ IsInjective(lru) /\ ToSet(lru) = Buf
  <2> DEFINE n == Cardinality(Buf)
  <2>1. n \in Nat /\ ExistsBijection(1..n, Buf)
    BY FS_CardinalityType
  <2> HIDE DEF n
  <2>2. \E f \in [1..n -> Buf] : IsInjective(f)
    BY <2>1 DEF ExistsBijection, Bijection, Injection
  <2>3. lru \in [1..n -> Buf] /\ IsInjective(lru)
    BY <2>2 DEF Init, SetToSeq, n
  <2>4. ToSet(lru) = Buf
    <3>1. IsFiniteSet(1..n) /\ Cardinality(1..n) = n /\ n = Cardinality(Buf)
      BY <2>1, FS_Interval DEF n
    <3>2. lru \in Injection(1..n, Buf)
      BY <2>3 DEF Injection
    <3>3. lru \in Surjection(1..n, Buf)
      BY <3>1, <3>2, FS_Injection
    <3> QED BY <2>3, <3>3 DEF Surjection, ToSet
  <2> QED BY <2>1, <2>3, <2>4
<1>2. idequeue = <<>> /\ ToSet(idequeue) = {} /\ IsInjective(idequeue) /\ idequeue \in Seq(Buf)
  BY DEF Init, ToSet, IsInjective
<1>3. TypeOK
  BY <1>1, <1>2 DEF Init, TypeOK
<1>4. OneBufferPerBlock /\ ExclusiveUse /\ WakeupToCome
  BY DEF Init, OneBufferPerBlock, ExclusiveUse, Holding, WakeupToCome
<1>5. QueueInv
  BY <1>2 DEF Init, QueueInv, Working, QueuedHeld, WaitQueued, HeldValid, InIo
<1>6. NamesInv /\ DataInv
  BY DEF Init, NamesInv, Holding, DataInv
<1> QED BY <1>3, <1>4, <1>5, <1>6 DEF Inv, CacheInv

LEMMA StepInv == Inv /\ [Next]_vars => Inv'
<1> SUFFICES ASSUME Inv, [Next]_vars PROVE Inv'
  OBVIOUS
<1>1. ASSUME NEW p \in Proc, ProcStep(p) \/ Brelse(p) \/ Kill(p) PROVE Inv'
  BY <1>1, IoTestInv, BgetHitInv, BgetSleepInv, BgetRecycleInv, BgetPanicInv,
     BrelseInv, KillInv DEF ProcStep
<1>2. ASSUME NEW p \in Proc, NEW b \in Blocks, Bread(p, b) PROVE Inv'
  BY <1>2, BreadInv
<1>3. ASSUME NEW p \in Proc, NEW v \in Val, Bwrite(p, v) \/ LogWrite(p, v) PROVE Inv'
  BY <1>3, BwriteInv, LogWriteInv
<1>4. ASSUME NEW error \in BOOLEAN, IdeIntr(error) PROVE Inv'
  BY <1>4, IdeIntrInv
<1>5. CASE UNCHANGED vars
  BY <1>5 DEF vars, bufVars, ideVars, procVars, history, Inv, CacheInv, TypeOK,
     OneBufferPerBlock, ExclusiveUse, WakeupToCome, Holding, QueueInv, Working,
     QueuedHeld, WaitQueued, HeldValid, InIo, Done, NamesInv, DataInv, Cached
<1> QED BY <1>1, <1>2, <1>3, <1>4, <1>5 DEF Next

\* The cache is safe to use without its lock (bio.c), for any number of
\* processes, buffers and blocks: a block is in one buffer, a buffer belongs to
\* one process, and every sleeper has its wakeup to come.
THEOREM CacheIsSafe == Spec => []CacheInv
<1>1. Inv => CacheInv
  BY DEF Inv
<1> QED BY <1>1, InitInv, StepInv, PTL DEF Spec

\* bread() returns what was last written to the block, for any interleaving of
\* bwrite(), log_write(), recycling and disk interrupts, read errors excepted.
THEOREM ReadsAreLatest == Spec => []ReadsLatest
<1>1. Inv => ReadsLatest
  BY DEF Inv, CacheInv, ExclusiveUse, QueueInv, HeldValid, NamesInv, DataInv,
     ReadsLatest, Holding
<1> QED BY <1>1, InitInv, StepInv, PTL DEF Spec
=============================================================================
