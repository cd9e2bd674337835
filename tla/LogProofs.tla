----------------------------- MODULE LogProofs ------------------------------
(***************************************************************************)
(* Proofs about Log, for any number of processes and blocks and any sizes  *)
(* that satisfy Log's assumptions - also a log area with room for fewer    *)
(* than LOGSIZE data blocks, which is what mkfs makes, and calls that log  *)
(* more blocks than they reserved.  The first part shows that the log's    *)
(* bookkeeping (reservations, the single committer) is inductive, the      *)
(* second what the buffer cache owes to the log.  The third shows crash    *)
(* consistency, that Log implements AtomicDisk: its invariant says, for    *)
(* each phase of a commit and of the recovery, which of the three copies   *)
(* of a block (buffer cache, log, home) agree, as long as no transaction   *)
(* was longer than the log area.                                           *)
(***************************************************************************)
EXTENDS Log, FiniteSetTheorems, TLAPS

-----------------------------------------------------------------------------
(* The bookkeeping *)

\* The room reserved and not used: one pair per block of a call's share.
Tokens == {t \in Proc \X (1..MAXOPBLOCKS) :
              t[1] \in InOp /\ t[2] <= left[t[1]]}

\* begin_op() never hands out more than LOGSIZE blocks in total; the entries
\* and what is left of the shares fit, while all calls keep to theirs.
Reserved == /\ outstanding = Cardinality(InOp)
            /\ outstanding * MAXOPBLOCKS <= LOGSIZE
            /\ boot = "up" /\ ~exceeded =>
                  Len(lh) + Cardinality(Tokens) <= LOGSIZE

\* The calls between log_write()'s test of lh.n and its lock.
Appending == {p \in Proc : pc[p] = "append"}

\* Whatever the calls add, those past the test together stay below MaxLogged.
Crowd == Len(lh) + Cardinality(Appending) <= MaxLogged

\* A call about to append holds the buffer.
Holding == \A p \in Proc : pc[p] = "append" => buf[p] \in Blocks

\* One committer at most, and no call in progress beside it or at boot.
Exclusive == /\ committing <=> Committer # {}
             /\ \A p, q \in Committer : p = q
             /\ committing => InOp = {}
             /\ boot # "up" => \A p \in Proc : pc[p] = "idle"

\* The loops of write_log() and install_trans() stay within the log, and
\* recovery leaves it empty.
TailInLog ==
    /\ (boot = "install" \/ \E p \in Proc : pc[p] \in {"write_log", "install"})
          => tail <= Len(lh)
    /\ boot = "clear" => lh = <<>>

BookInv == TypeOK /\ Reserved /\ Crowd /\ Holding /\ Exclusive /\ TailInLog

-----------------------------------------------------------------------------
(* Facts about the sizes and the reservations *)

LEMMA Sizes ==
    /\ Room \in Nat /\ Room <= LOGSIZE /\ Room <= NLOG - 1
    /\ LOGSIZE \div MAXOPBLOCKS \in Nat \ {0}
    /\ MaxLogged \in Nat
<1>1. LOGSIZE \div MAXOPBLOCKS \in Nat \ {0}
  BY SizeAssumption
<1>2. Room \in Nat /\ Room <= LOGSIZE /\ Room <= NLOG - 1
  BY SizeAssumption DEF Room
<1> QED BY <1>1, <1>2 DEF MaxLogged

\* What begin_op() lets in are at most LOGSIZE \div MAXOPBLOCKS calls.
LEMMA CallsBounded ==
    ASSUME NEW n \in Nat, n * MAXOPBLOCKS <= LOGSIZE
    PROVE  n <= LOGSIZE \div MAXOPBLOCKS
<1> DEFINE q == LOGSIZE \div MAXOPBLOCKS
<1>1. q \in Nat /\ LOGSIZE < (q + 1) * MAXOPBLOCKS
  BY SizeAssumption
<1>2. CASE n >= q + 1
  <2>1. n * MAXOPBLOCKS >= (q + 1) * MAXOPBLOCKS
    BY <1>1, <1>2, SizeAssumption
  <2> QED BY <1>1, <2>1, SizeAssumption
<1> QED BY <1>1, <1>2

\* The entry that a loop handles next: a home block, and a log block in the
\* log area or one of the blocks behind it.
LEMMA NextEntry ==
    ASSUME TypeOK, tail < Len(lh)
    PROVE  /\ tail \in Nat /\ lh \in Seq(Blocks) /\ tail + 1 \in 1..Len(lh)
           /\ tail + 1 \in 0..MaxLogged
           /\ lh[tail + 1] \in Blocks
           /\ tail + 1 \notin Slots => Behind(tail + 1) \in Blocks
           /\ LogBlock(tail + 1) \in Val
<1>1. /\ lh \in Seq(Blocks) /\ Len(lh) \in Nat /\ tail \in Nat
      /\ Len(lh) <= MaxLogged
  BY Sizes DEF TypeOK
<1>2. tail + 1 \in 1..Len(lh) /\ tail + 1 \in 0..MaxLogged /\ lh[tail + 1] \in Blocks
  BY <1>1, Sizes
<1>3. ASSUME tail + 1 \notin Slots PROVE Behind(tail + 1) \in Blocks
  <2>1. tail + 1 \in NLOG .. MaxLogged
    BY <1>1, <1>2, <1>3, Sizes, SizeAssumption DEF Slots
  <2> QED BY <2>1, BlockAssumption DEF Behind
<1>4. LogBlock(tail + 1) \in Val
  BY <1>3 DEF LogBlock, TypeOK
<1> QED BY <1>1, <1>2, <1>3, <1>4
\* The calls in progress and the tokens are finitely many.
LEMMA ReservationsFinite ==
    /\ IsFiniteSet(InOp) /\ Cardinality(InOp) \in Nat
    /\ IsFiniteSet(Tokens) /\ Cardinality(Tokens) \in Nat
    /\ IsFiniteSet(Appending) /\ Cardinality(Appending) \in Nat
    /\ Cardinality(Appending) <= Cardinality(InOp)
<1>1. IsFiniteSet(InOp)
  <2>1. InOp \in SUBSET Proc
    BY DEF InOp
  <2> QED BY <2>1, ProcAssumption, FS_Subset
<1>2. IsFiniteSet(1..MAXOPBLOCKS)
  BY SizeAssumption, FS_Interval
<1>3. IsFiniteSet(Proc \X (1..MAXOPBLOCKS))
  BY <1>2, ProcAssumption, FS_Product
<1>4. Tokens \in SUBSET (Proc \X (1..MAXOPBLOCKS))
  BY DEF Tokens
<1>5. IsFiniteSet(Tokens)
  BY <1>3, <1>4, FS_Subset
<1>6. IsFiniteSet(Appending) /\ Cardinality(Appending) <= Cardinality(InOp)
  <2>1. Appending \in SUBSET InOp
    BY DEF Appending, InOp
  <2> QED BY <1>1, <2>1, FS_Subset
<1> QED BY <1>1, <1>5, <1>6, FS_CardinalityType

\* No call in progress means no reservation.
LEMMA NoCallNoToken ==
    InOp = {} => /\ Cardinality(Tokens) = 0
                 /\ Cardinality(InOp) = 0
                 /\ Cardinality(Appending) = 0
<1>1. InOp = {} => Tokens = {} /\ Appending = {}
  BY DEF Tokens, Appending, InOp
<1> QED BY <1>1, FS_EmptySet

\* n calls reserve at most n times MAXOPBLOCKS blocks.
LEMMA TokensBounded == Cardinality(Tokens) <= Cardinality(InOp) * MAXOPBLOCKS
<1>1. Tokens \in SUBSET (InOp \X (1..MAXOPBLOCKS))
  BY DEF Tokens, InOp
<1>2. /\ IsFiniteSet(1..MAXOPBLOCKS)
      /\ Cardinality(1..MAXOPBLOCKS) = MAXOPBLOCKS
  BY SizeAssumption, FS_Interval
<1>3. /\ IsFiniteSet(InOp \X (1..MAXOPBLOCKS))
      /\ Cardinality(InOp \X (1..MAXOPBLOCKS)) = Cardinality(InOp) * MAXOPBLOCKS
  BY <1>2, ReservationsFinite, FS_Product
<1> QED BY <1>1, <1>3, FS_Subset

\* The tokens of a call are among them.
LEMMA ShareBounded ==
    ASSUME TypeOK, NEW p \in InOp
    PROVE  left[p] <= Cardinality(Tokens)
<1>1. left[p] \in 0..MAXOPBLOCKS /\ p \in Proc
  BY DEF TypeOK, InOp
<1>2. IsFiniteSet(1..left[p]) /\ Cardinality(1..left[p]) = left[p]
  <2>1. \A n \in Nat : IsFiniteSet(1..n) /\ Cardinality(1..n) = n
    BY FS_Interval
  <2> QED BY <1>1, <2>1, SizeAssumption
<1>3. /\ IsFiniteSet({p}) /\ Cardinality({p}) = 1
  BY FS_Singleton
<1>4. Cardinality({p} \X (1..left[p])) = left[p]
  <2>1. Cardinality({p} \X (1..left[p])) = 1 * left[p]
    BY <1>2, <1>3, FS_Product
  <2> QED BY <1>1, <2>1, SizeAssumption
<1>5. ({p} \X (1..left[p])) \in SUBSET Tokens
  BY <1>1, SizeAssumption DEF Tokens
<1> QED BY <1>4, <1>5, ReservationsFinite, FS_Subset
\* While a call is in progress the system is up and nobody commits.
LEMMA CallAlone ==
    ASSUME TypeOK, Exclusive, NEW p \in InOp
    PROVE  boot = "up" /\ ~committing /\ Committer = {}
BY DEF Exclusive, InOp

-----------------------------------------------------------------------------
(* The bookkeeping is inductive *)

\* An action that changes neither the calls in progress nor what they have
\* left keeps the reservations.
LEMMA TokensSame == ASSUME InOp' = InOp, left' = left
                    PROVE  Tokens' = Tokens
BY DEF Tokens

LEMMA ReservedSame ==
    ASSUME Reserved, Crowd, InOp' = InOp, Appending' = Appending,
           UNCHANGED <<lh, outstanding, left, boot, exceeded>>
    PROVE  Reserved' /\ Crowd'
BY TokensSame DEF Reserved, Crowd

\* Without calls in progress any header that fits will do.
LEMMA ReservedIdle ==
    ASSUME InOp' = {}, outstanding' = 0, Len(lh') \in Nat, Len(lh') <= MaxLogged,
           boot' = "up" => lh' = <<>>
    PROVE  Reserved' /\ Crowd'
<1>1. Cardinality(InOp') = 0 /\ Cardinality(Tokens') = 0 /\ Cardinality(Appending') = 0
  <2>1. (InOp = {} => /\ Cardinality(Tokens) = 0
                      /\ Cardinality(InOp) = 0
                      /\ Cardinality(Appending) = 0)'
    BY NoCallNoToken, PTL
  <2> QED BY <2>1
<1> QED BY <1>1, Sizes, SizeAssumption DEF Reserved, Crowd

LEMMA BookInit == Init => BookInv
<1> SUFFICES ASSUME Init PROVE BookInv
  OBVIOUS
<1>1. InOp = {} /\ Committer = {}
  BY DEF Init, InOp, Committer
<1>2. TypeOK
  <2>1. lh = <<>> /\ lh \in Seq(Blocks) /\ Len(lh) = 0
    BY DEF Init
  <2>2. hdr = <<>> /\ hdr \in Seq(Blocks) /\ Len(hdr) = 0
    BY DEF Init
  <2>3. /\ cache \in [Blocks -> Val] /\ disk \in [Blocks -> Val]
        /\ logdata \in [Slots -> Val]
    BY ValAssumption DEF Init
  <2>4. pc \in [Proc -> Phase] /\ buf \in [Proc -> Blocks \cup {NoBuf}]
        /\ left \in [Proc -> 0..MAXOPBLOCKS]
    BY SizeAssumption DEF Init, Phase
  <2>5. /\ committing \in BOOLEAN /\ boot \in BootPhase /\ dirty \in SUBSET Blocks
        /\ exceeded \in BOOLEAN /\ overrun \in BOOLEAN /\ boot # "up"
    BY DEF Init, BootPhase
  <2>6. outstanding \in Nat /\ tail \in 0..MaxLogged
    BY Sizes DEF Init
  <2>7. Len(lh) <= MaxLogged /\ Len(hdr) <= MaxLogged
    BY <2>1, <2>2, Sizes
  <2> QED BY <2>1, <2>2, <2>3, <2>4, <2>5, <2>6, <2>7 DEF TypeOK
<1>3. Reserved /\ Crowd
  BY <1>1, NoCallNoToken, SizeAssumption, Sizes DEF Init, Reserved, Crowd
<1> QED BY <1>1, <1>2, <1>3 DEF Init, BookInv, Holding, Exclusive, TailInLog

LEMMA BookReadHead == ASSUME BookInv, ReadHead
                    PROVE  BookInv'
<1> USE DEF BookInv, ReadHead, history, diskVars
<1>1. TypeOK'
  BY Sizes DEF TypeOK, BootPhase
<1>2. InOp' = InOp /\ Appending' = Appending /\ InOp = {}
  BY DEF InOp, Appending, TypeOK, Exclusive
<1>3. Reserved' /\ Crowd'
  <2>1. InOp' = {} /\ outstanding' = 0
    BY <1>2, NoCallNoToken DEF Reserved
  <2>2. Len(lh') \in Nat /\ Len(lh') <= MaxLogged /\ (boot' = "up" => lh' = <<>>)
    BY <1>1 DEF TypeOK
  <2> QED BY <2>1, <2>2, ReservedIdle
<1>4. Holding'
  BY DEF Holding, TypeOK
<1>5. Exclusive'
  BY <1>2 DEF Exclusive, Committer, TypeOK, InOp
<1>6. TailInLog'
  BY <1>1 DEF TailInLog, TypeOK, Exclusive, Committer, InOp
<1> QED BY <1>1, <1>3, <1>4, <1>5, <1>6

LEMMA BookRecoverInstall == ASSUME BookInv, RecoverInstall
                    PROVE  BookInv'
<1> USE DEF BookInv, RecoverInstall, InstallBlock, WriteHome, history, diskVars
<1>1. TypeOK'
  <2>1. /\ lh[tail + 1] \in Blocks /\ LogBlock(tail + 1) \in Val
        /\ tail' \in 0..MaxLogged
    BY NextEntry
  <2> QED BY <2>1 DEF TypeOK
<1>2. InOp' = InOp /\ Appending' = Appending /\ InOp = {}
  BY DEF InOp, Appending, TypeOK, Exclusive
<1>3. Reserved' /\ Crowd'
  BY <1>2, ReservedSame
<1>4. Holding'
  BY DEF Holding, TypeOK
<1>5. Exclusive'
  BY <1>2 DEF Exclusive, Committer, TypeOK, InOp
<1>6. TailInLog'
  BY <1>1 DEF TailInLog, TypeOK, Exclusive, Committer, InOp
<1> QED BY <1>1, <1>3, <1>4, <1>5, <1>6

LEMMA BookRecoverReset == ASSUME BookInv, RecoverReset
                    PROVE  BookInv'
<1> USE DEF BookInv, RecoverReset, history, diskVars
<1>1. TypeOK'
  BY Sizes DEF TypeOK, BootPhase
<1>2. InOp' = InOp /\ Appending' = Appending /\ InOp = {}
  BY DEF InOp, Appending, TypeOK, Exclusive
<1>3. Reserved' /\ Crowd'
  <2>1. InOp' = {} /\ outstanding' = 0
    BY <1>2, NoCallNoToken DEF Reserved
  <2>2. Len(lh') \in Nat /\ Len(lh') <= MaxLogged /\ (boot' = "up" => lh' = <<>>)
    BY <1>1 DEF TypeOK
  <2> QED BY <2>1, <2>2, ReservedIdle
<1>4. Holding'
  BY DEF Holding, TypeOK
<1>5. Exclusive'
  BY <1>2 DEF Exclusive, Committer, TypeOK, InOp
<1>6. TailInLog'
  BY <1>1 DEF TailInLog, TypeOK, Exclusive, Committer, InOp
<1> QED BY <1>1, <1>3, <1>4, <1>5, <1>6

LEMMA BookRecoverClear == ASSUME BookInv, RecoverClear
                    PROVE  BookInv'
<1> USE DEF BookInv, RecoverClear, WriteHead, history, diskVars
<1>1. TypeOK'
  BY Sizes, SizeAssumption DEF TypeOK, BootPhase, TailInLog
<1>2. InOp' = InOp /\ Appending' = Appending /\ InOp = {}
  BY DEF InOp, Appending, TypeOK, Exclusive
<1>3. Reserved' /\ Crowd'
  <2>1. InOp' = {} /\ outstanding' = 0
    BY <1>2, NoCallNoToken DEF Reserved
  <2>2. Len(lh') \in Nat /\ Len(lh') <= MaxLogged /\ (boot' = "up" => lh' = <<>>)
    BY <1>1 DEF TypeOK, TailInLog
  <2> QED BY <2>1, <2>2, ReservedIdle
<1>4. Holding'
  BY DEF Holding, TypeOK
<1>5. Exclusive'
  BY <1>2 DEF Exclusive, Committer, TypeOK, InOp
<1>6. TailInLog'
  BY <1>1 DEF TailInLog, TypeOK, Exclusive, Committer, InOp
<1> QED BY <1>1, <1>3, <1>4, <1>5, <1>6

LEMMA BookCallBegin == ASSUME BookInv, NEW p \in Proc, CallBegin(p)
                    PROVE  BookInv'
<1> USE DEF BookInv, CallBegin, history, diskVars
<1>1. TypeOK'
  BY DEF TypeOK, BootPhase, Phase
<1>2. InOp' = InOp /\ Appending' = Appending
  BY DEF InOp, Appending, TypeOK
<1>3. Reserved' /\ Crowd'
  BY <1>2, ReservedSame
<1>4. Holding'
  BY DEF Holding, TypeOK
<1>5. Exclusive'
  BY <1>2 DEF Exclusive, Committer, TypeOK, InOp
<1>6. TailInLog'
  BY <1>1 DEF TailInLog, TypeOK, Exclusive, Committer, InOp
<1> QED BY <1>1, <1>3, <1>4, <1>5, <1>6

LEMMA BookBeginSleep == ASSUME BookInv, NEW p \in Proc, BeginSleep(p)
                    PROVE  BookInv'
<1> USE DEF BookInv, BeginSleep, history, diskVars
<1>1. TypeOK'
  BY DEF TypeOK, BootPhase, Phase
<1>2. InOp' = InOp /\ Appending' = Appending
  BY DEF InOp, Appending, TypeOK
<1>3. Reserved' /\ Crowd'
  BY <1>2, ReservedSame
<1>4. Holding'
  BY DEF Holding, TypeOK
<1>5. Exclusive'
  BY <1>2 DEF Exclusive, Committer, TypeOK, InOp
<1>6. TailInLog'
  BY <1>1 DEF TailInLog, TypeOK, Exclusive, Committer, InOp
<1> QED BY <1>1, <1>3, <1>4, <1>5, <1>6

LEMMA BookKill == ASSUME BookInv, NEW p \in Proc, Kill(p)
                    PROVE  BookInv'
<1> USE DEF BookInv, Kill, history, diskVars
<1>1. TypeOK'
  BY DEF TypeOK, BootPhase, Phase
<1>2. InOp' = InOp /\ Appending' = Appending
  BY DEF InOp, Appending, TypeOK
<1>3. Reserved' /\ Crowd'
  BY <1>2, ReservedSame
<1>4. Holding'
  BY DEF Holding, TypeOK
<1>5. Exclusive'
  BY <1>2 DEF Exclusive, Committer, TypeOK, InOp
<1>6. TailInLog'
  BY <1>1 DEF TailInLog, TypeOK, Exclusive, Committer, InOp
<1> QED BY <1>1, <1>3, <1>4, <1>5, <1>6

LEMMA BookCommit == ASSUME BookInv, NEW p \in Proc, Commit(p)
                    PROVE  BookInv'
<1> USE DEF BookInv, Commit, history, diskVars
<1>1. TypeOK'
  BY Sizes DEF TypeOK, Phase
<1>2. InOp' = InOp /\ Appending' = Appending
  BY DEF InOp, Appending, TypeOK
<1>3. Reserved' /\ Crowd'
  BY <1>2, ReservedSame
<1>4. Holding'
  BY DEF Holding, TypeOK
<1>5. Exclusive'
  BY <1>2 DEF Exclusive, Committer, TypeOK, InOp
<1>6. TailInLog'
  BY <1>1 DEF TailInLog, TypeOK, Exclusive, Committer, InOp
<1> QED BY <1>1, <1>3, <1>4, <1>5, <1>6

LEMMA BookWriteLogBlock == ASSUME BookInv, NEW p \in Proc, WriteLogBlock(p)
                    PROVE  BookInv'
<1> USE DEF BookInv, WriteLogBlock, WriteHome, history, diskVars
<1>1. TypeOK'
  <2>1. lh[tail + 1] \in Blocks /\ tail' \in 0..MaxLogged
    BY NextEntry
  <2>2. cache[lh[tail + 1]] \in Val
    BY <2>1 DEF TypeOK
  <2>3. logdata' \in [Slots -> Val]
    BY <2>2 DEF TypeOK
  <2>4. /\ cache' \in [Blocks -> Val] /\ disk' \in [Blocks -> Val]
        /\ dirty' \in SUBSET Blocks
    BY <2>2, NextEntry DEF TypeOK
  <2> QED BY <2>1, <2>3, <2>4 DEF TypeOK
<1>2. InOp' = InOp /\ Appending' = Appending
  BY DEF InOp, Appending, TypeOK
<1>3. Reserved' /\ Crowd'
  BY <1>2, ReservedSame
<1>4. Holding'
  BY DEF Holding, TypeOK
<1>5. Exclusive'
  BY <1>2 DEF Exclusive, Committer, TypeOK, InOp
<1>6. TailInLog'
  BY <1>1 DEF TailInLog, TypeOK, Exclusive, Committer, InOp
<1> QED BY <1>1, <1>3, <1>4, <1>5, <1>6

LEMMA BookWriteLogEnd == ASSUME BookInv, NEW p \in Proc, WriteLogEnd(p)
                    PROVE  BookInv'
<1> USE DEF BookInv, WriteLogEnd, history, diskVars
<1>1. TypeOK'
  BY DEF TypeOK, BootPhase, Phase
<1>2. InOp' = InOp /\ Appending' = Appending
  BY DEF InOp, Appending, TypeOK
<1>3. Reserved' /\ Crowd'
  BY <1>2, ReservedSame
<1>4. Holding'
  BY DEF Holding, TypeOK
<1>5. Exclusive'
  BY <1>2 DEF Exclusive, Committer, TypeOK, InOp
<1>6. TailInLog'
  BY <1>1 DEF TailInLog, TypeOK, Exclusive, Committer, InOp
<1> QED BY <1>1, <1>3, <1>4, <1>5, <1>6

LEMMA BookCommitHead == ASSUME BookInv, NEW p \in Proc, CommitHead(p)
                    PROVE  BookInv'
<1> USE DEF BookInv, CommitHead, WriteHead, history, diskVars
<1>1. TypeOK'
  BY Sizes DEF TypeOK, Phase
<1>2. InOp' = InOp /\ Appending' = Appending
  BY DEF InOp, Appending, TypeOK
<1>3. Reserved' /\ Crowd'
  BY <1>2, ReservedSame
<1>4. Holding'
  BY DEF Holding, TypeOK
<1>5. Exclusive'
  BY <1>2 DEF Exclusive, Committer, TypeOK, InOp
<1>6. TailInLog'
  BY <1>1 DEF TailInLog, TypeOK, Exclusive, Committer, InOp
<1> QED BY <1>1, <1>3, <1>4, <1>5, <1>6

LEMMA BookCommitInstall == ASSUME BookInv, NEW p \in Proc, CommitInstall(p)
                    PROVE  BookInv'
<1> USE DEF BookInv, CommitInstall, InstallBlock, WriteHome, history, diskVars
<1>1. TypeOK'
  <2>1. /\ lh[tail + 1] \in Blocks /\ LogBlock(tail + 1) \in Val
        /\ tail' \in 0..MaxLogged
    BY NextEntry
  <2> QED BY <2>1 DEF TypeOK
<1>2. InOp' = InOp /\ Appending' = Appending
  BY DEF InOp, Appending, TypeOK
<1>3. Reserved' /\ Crowd'
  BY <1>2, ReservedSame
<1>4. Holding'
  BY DEF Holding, TypeOK
<1>5. Exclusive'
  BY <1>2 DEF Exclusive, Committer, TypeOK, InOp
<1>6. TailInLog'
  BY <1>1 DEF TailInLog, TypeOK, Exclusive, Committer, InOp
<1> QED BY <1>1, <1>3, <1>4, <1>5, <1>6

LEMMA BookCommitReset == ASSUME BookInv, NEW p \in Proc, CommitReset(p)
                    PROVE  BookInv'
<1> USE DEF BookInv, CommitReset, history, diskVars
<1>1. TypeOK'
  <2>1. lh' = <<>> /\ lh' \in Seq(Blocks) /\ Len(lh') = 0
    OBVIOUS
  <2>2. Len(lh') <= LOGSIZE /\ Len(lh') <= MaxLogged
    BY <2>1, Sizes, SizeAssumption
  <2>3. pc' \in [Proc -> Phase] /\ exceeded' \in BOOLEAN
    BY DEF TypeOK, Phase
  <2> QED BY <2>1, <2>2, <2>3 DEF TypeOK
<1>2. InOp' = InOp /\ Appending' = Appending
  BY DEF InOp, Appending, TypeOK
<1>3. Reserved' /\ Crowd'
  <2>1. InOp' = {} /\ outstanding' = 0
    BY <1>2, NoCallNoToken DEF Reserved, Exclusive, Committer
  <2> QED BY <1>1, <2>1, ReservedIdle DEF TypeOK
<1>4. Holding'
  BY DEF Holding, TypeOK
<1>5. Exclusive'
  BY <1>2 DEF Exclusive, Committer, TypeOK, InOp
<1>6. TailInLog'
  BY <1>1 DEF TailInLog, TypeOK, Exclusive, Committer, InOp
<1> QED BY <1>1, <1>3, <1>4, <1>5, <1>6

LEMMA BookCommitClear == ASSUME BookInv, NEW p \in Proc, CommitClear(p)
                    PROVE  BookInv'
<1> USE DEF BookInv, CommitClear, WriteHead, history, diskVars
<1>1. TypeOK'
  BY DEF TypeOK, BootPhase, Phase
<1>2. InOp' = InOp /\ Appending' = Appending
  BY DEF InOp, Appending, TypeOK
<1>3. Reserved' /\ Crowd'
  BY <1>2, ReservedSame
<1>4. Holding'
  BY DEF Holding, TypeOK
<1>5. Exclusive'
  BY <1>2 DEF Exclusive, Committer, TypeOK, InOp
<1>6. TailInLog'
  BY <1>1 DEF TailInLog, TypeOK, Exclusive, Committer, InOp
<1> QED BY <1>1, <1>3, <1>4, <1>5, <1>6

LEMMA BookCommitDone == ASSUME BookInv, NEW p \in Proc, CommitDone(p)
                    PROVE  BookInv'
<1> USE DEF BookInv, CommitDone, Wakeup, history, diskVars
<1>1. TypeOK'
  BY DEF TypeOK, BootPhase, Phase
<1>2. InOp' = InOp /\ Appending' = Appending
  BY DEF InOp, Appending, TypeOK
<1>3. Reserved' /\ Crowd'
  BY <1>2, ReservedSame
<1>4. Holding'
  BY DEF Holding, TypeOK
<1>5. Exclusive'
  <2>1. Committer' = {} /\ boot' = "up" /\ ~committing'
    BY DEF Exclusive, Committer, TypeOK
  <2> QED BY <2>1 DEF Exclusive
<1>6. TailInLog'
  BY <1>1 DEF TailInLog, TypeOK, Exclusive, Committer, InOp
<1> QED BY <1>1, <1>3, <1>4, <1>5, <1>6

LEMMA BookLogWriteCheck ==
    ASSUME BookInv, NEW p \in Proc, NEW b \in Blocks, NEW v \in Val,
           LogWriteCheck(p, b, v)
    PROVE  BookInv'
<1> USE DEF BookInv, LogWriteCheck, history, diskVars
<1>1. TypeOK'
  BY DEF TypeOK, Phase
<1>2. InOp' = InOp
  BY DEF InOp, TypeOK
<1>3. Reserved'
  BY <1>2, TokensSame DEF Reserved
<1>4. Crowd'
  <2>1. CASE TooBig \/ OutsideTrans
    <3>1. Appending' = Appending
      BY <2>1 DEF Appending, TypeOK
    <3> QED BY <3>1 DEF Crowd
  <2>2. CASE ~TooBig /\ ~OutsideTrans
    <3>1. Len(lh) <= Room - 1 /\ Len(lh) \in Nat
      BY <2>2, SizeAssumption DEF TooBig, Room, TypeOK
    <3>2. Cardinality(Appending') <= Cardinality(InOp') /\ Cardinality(Appending') \in Nat
      <4>1. (/\ Cardinality(Appending) <= Cardinality(InOp)
             /\ Cardinality(Appending) \in Nat)'
        BY ReservationsFinite, PTL
      <4> QED BY <4>1
    <3>3. Cardinality(InOp') <= LOGSIZE \div MAXOPBLOCKS /\ Cardinality(InOp') \in Nat
      BY <1>2, CallsBounded, ReservationsFinite DEF Reserved
    <3> QED BY <3>1, <3>2, <3>3, Sizes DEF Crowd, MaxLogged
  <2> QED BY <2>1, <2>2
<1>5. Holding'
  BY DEF Holding, TypeOK
<1>6. Exclusive'
  BY <1>2 DEF Exclusive, Committer, TypeOK, InOp
<1>7. TailInLog'
  BY DEF TailInLog, TypeOK
<1> QED BY <1>1, <1>3, <1>4, <1>5, <1>6, <1>7

LEMMA BookLogWriteAppend == ASSUME BookInv, NEW p \in Proc, LogWriteAppend(p)
                            PROVE  BookInv'
<1> USE DEF BookInv, LogWriteAppend, AddEntry, history, diskVars
<1>1. InOp' = InOp /\ p \in InOp /\ boot = "up"
  BY CallAlone DEF InOp, TypeOK
<1>2. buf[p] \in Blocks
  BY DEF Holding
<1>3. /\ Cardinality(Appending') = Cardinality(Appending) - 1
      /\ Cardinality(Appending) \in Nat /\ Cardinality(Appending') \in Nat
  <2>1. Appending' = Appending \ {p} /\ p \in Appending
    BY DEF Appending, TypeOK
  <2> QED BY <2>1, ReservationsFinite, FS_RemoveElement, FS_CardinalityType
<1>4. /\ pc' \in [Proc -> Phase] /\ buf' \in [Proc -> Blocks \cup {NoBuf}]
      /\ dirty' \in SUBSET Blocks
  BY <1>2 DEF TypeOK, Phase
<1>5. Holding'
  BY DEF Holding, TypeOK
<1>6. Exclusive'
  BY <1>1 DEF Exclusive, Committer, TypeOK, InOp
<1>7. CASE buf[p] \in Entries(lh)
  <2>1. TypeOK'
    BY <1>4, <1>7 DEF TypeOK
  <2>2. Reserved' /\ Crowd'
    BY <1>1, <1>3, <1>7, TokensSame, Sizes DEF Reserved, Crowd, TypeOK
  <2>3. TailInLog'
    BY <1>7 DEF TailInLog, TypeOK
  <2> QED BY <1>5, <1>6, <2>1, <2>2, <2>3
<1>8. CASE buf[p] \notin Entries(lh)
  <2>1. lh' \in Seq(Blocks) /\ Len(lh') = Len(lh) + 1 /\ Len(lh) \in Nat
    <3>1. lh \in Seq(Blocks)
      BY DEF TypeOK
    <3>2. lh' = Append(lh, buf[p])
      BY <1>8
    <3> QED BY <1>2, <3>1, <3>2
  <2>2. Crowd'
    BY <1>3, <2>1, Sizes DEF Crowd
  <2>3. Len(lh') <= MaxLogged
    BY <1>3, <2>1, <2>2, Sizes, ReservationsFinite DEF Crowd
  <2>4. left' \in [Proc -> 0..MAXOPBLOCKS] /\ left[p] \in 0..MAXOPBLOCKS
    <3>1. left \in [Proc -> 0..MAXOPBLOCKS]
      BY DEF TypeOK
    <3>2. \A n \in 0..MAXOPBLOCKS : (IF n > 0 THEN n - 1 ELSE 0) \in 0..MAXOPBLOCKS
      BY SizeAssumption
    <3>3. left' = [left EXCEPT ![p] = IF left[p] > 0 THEN left[p] - 1 ELSE 0]
      BY <1>8
    <3> QED BY <3>1, <3>2, <3>3
  <2>5. exceeded' \in BOOLEAN /\ overrun' \in BOOLEAN
    BY <1>8 DEF TypeOK
  <2>6. Reserved'
    <3>1. CASE exceeded'
      BY <1>1, <3>1 DEF Reserved
    <3>2. CASE ~exceeded'
      <4> DEFINE t == <<p, left[p]>>
      <4>0. ~exceeded /\ left[p] # 0
        BY <1>8, <3>2
      <4>1. ~exceeded /\ left[p] \in 1..MAXOPBLOCKS /\ t \in Tokens
        BY <1>1, <2>4, <4>0, SizeAssumption DEF Tokens
      <4>2. Tokens' = Tokens \ {t}
        BY <1>1, <1>8, <4>1 DEF Tokens, TypeOK
      <4>3. Cardinality(Tokens') = Cardinality(Tokens) - 1
        BY <4>1, <4>2, ReservationsFinite, FS_RemoveElement
      <4> QED BY <1>1, <2>1, <4>1, <4>3, ReservationsFinite, SizeAssumption
              DEF Reserved, TypeOK
    <3> QED BY <3>1, <3>2
  <2>7. boot' = "up" /\ ~exceeded' => Len(lh') <= LOGSIZE
    <3>1. Cardinality(Tokens') \in Nat
      <4>1. (Cardinality(Tokens) \in Nat)'
        BY ReservationsFinite, PTL
      <4> QED BY <4>1
    <3> QED BY <2>1, <2>6, <3>1, SizeAssumption DEF Reserved
  <2>8. TypeOK'
    BY <1>4, <2>1, <2>3, <2>4, <2>5, <2>7 DEF TypeOK
  <2>9. TailInLog'
    BY <1>1, <1>8, <2>1 DEF TailInLog, TypeOK
  <2> QED BY <1>5, <1>6, <2>2, <2>6, <2>8, <2>9
<1> QED BY <1>7, <1>8

LEMMA BookBeginOp == ASSUME BookInv, NEW p \in Proc, BeginOp(p)
                     PROVE  BookInv'
<1> USE DEF BookInv, BeginOp, history, diskVars
<1>1. TypeOK'
  BY SizeAssumption DEF TypeOK, Phase
<1>2. InOp' = InOp \cup {p} /\ p \notin InOp
  BY DEF InOp, TypeOK
<1>3. Cardinality(InOp') = Cardinality(InOp) + 1
  BY <1>2, ReservationsFinite, FS_AddElement
<1>4. Cardinality(Tokens') <= (outstanding + 1) * MAXOPBLOCKS
  <2>1. Cardinality(Tokens') <= Cardinality(InOp') * MAXOPBLOCKS
    <3>1. (Cardinality(Tokens) <= Cardinality(InOp) * MAXOPBLOCKS)'
      BY TokensBounded, PTL
    <3> QED BY <3>1
  <2> QED BY <1>3, <2>1 DEF Reserved
<1>5. (Cardinality(Tokens) \in Nat)'
  <2>1. Cardinality(Tokens) \in Nat
    BY ReservationsFinite
  <2> QED BY ReservationsFinite, PTL
<1>6. Reserved' /\ Crowd'
  <2>1. Len(lh) + (outstanding + 1) * MAXOPBLOCKS <= LOGSIZE
    BY SizeAssumption DEF LogFull, TypeOK
  <2>2. (outstanding + 1) * MAXOPBLOCKS \in Nat /\ Len(lh) \in Nat
    BY SizeAssumption DEF TypeOK
  <2>3. Len(lh) + Cardinality(Tokens') <= LOGSIZE
    BY <1>4, <1>5, <2>1, <2>2, SizeAssumption
  <2>4. outstanding' * MAXOPBLOCKS <= LOGSIZE
    BY <2>1, <2>2, SizeAssumption
  <2>5. Appending' = Appending
    BY DEF Appending, TypeOK
  <2> QED BY <1>3, <2>3, <2>4, <2>5 DEF Reserved, Crowd
<1>7. Holding'
  BY DEF Holding, TypeOK
<1>8. boot = "up"
  BY DEF Exclusive, TypeOK, BootPhase
<1>9. Exclusive'
  BY <1>8 DEF Exclusive, Committer, TypeOK
<1>10. TailInLog'
  BY DEF TailInLog, TypeOK
<1> QED BY <1>1, <1>6, <1>7, <1>9, <1>10

LEMMA BookEndOp == ASSUME BookInv, NEW p \in Proc, EndOp(p)
                   PROVE  BookInv'
<1> USE DEF BookInv, EndOp, history, diskVars
<1>1. p \in InOp /\ ~committing /\ Committer = {} /\ boot = "up"
  BY DEF InOp, Exclusive, TypeOK
<1>2. InOp' = InOp \ {p}
  BY <1>1 DEF InOp, TypeOK, Wakeup
<1>3. Cardinality(InOp') = Cardinality(InOp) - 1 /\ Cardinality(InOp') \in Nat
  BY <1>1, <1>2, ReservationsFinite, FS_RemoveElement, FS_CardinalityType
<1>4. outstanding' \in Nat /\ outstanding' = Cardinality(InOp')
  BY <1>3 DEF Reserved
<1>5. pc' \in [Proc -> Phase]
  BY <1>1 DEF TypeOK, Phase, Wakeup
<1>6. TypeOK'
  <2>1. left' \in [Proc -> 0..MAXOPBLOCKS]
    BY SizeAssumption DEF TypeOK
  <2>2. committing' \in BOOLEAN
    BY <1>1 DEF TypeOK
  <2> QED BY <1>4, <1>5, <2>1, <2>2 DEF TypeOK
<1>7. Reserved' /\ Crowd'
  <2>1. Tokens' \in SUBSET Tokens
    BY <1>2, SizeAssumption DEF Tokens, TypeOK
  <2>2. Cardinality(Tokens') <= Cardinality(Tokens) /\ Cardinality(Tokens') \in Nat
    BY <2>1, ReservationsFinite, FS_Subset, FS_CardinalityType
  <2>3. outstanding' * MAXOPBLOCKS <= LOGSIZE
    BY <1>4, SizeAssumption DEF Reserved, TypeOK
  <2>4. Appending' = Appending
    BY <1>1 DEF Appending, TypeOK, Wakeup
  <2>5. Len(lh) \in Nat
    BY DEF TypeOK
  <2>6. boot' = "up" /\ ~exceeded' => Len(lh') + Cardinality(Tokens') <= LOGSIZE
    BY <2>2, <2>5, ReservationsFinite, SizeAssumption DEF Reserved
  <2> QED BY <1>4, <2>3, <2>4, <2>6 DEF Reserved, Crowd
<1>8. Holding'
  BY <1>1 DEF Holding, TypeOK, Wakeup
<1>9. Exclusive'
  <2>1. CASE outstanding' = 0
    <3>1. InOp' = {}
      BY <1>2, <1>4, <2>1, ReservationsFinite, FS_RemoveElement, FS_EmptySet
    <3>2. Committer' = {p}
      BY <1>1, <2>1 DEF Committer, TypeOK
    <3> QED BY <1>1, <2>1, <3>1, <3>2 DEF Exclusive
  <2>2. CASE outstanding' # 0
    <3>1. Committer' = {}
      BY <1>1, <2>2 DEF Committer, TypeOK, Wakeup
    <3> QED BY <1>1, <2>2, <3>1 DEF Exclusive
  <2> QED BY <2>1, <2>2
<1>10. TailInLog'
  BY <1>1 DEF TailInLog, TypeOK, Wakeup, Committer
<1> QED BY <1>6, <1>7, <1>8, <1>9, <1>10

LEMMA BookCrash == ASSUME BookInv, Crash PROVE BookInv'
<1> USE DEF BookInv, Crash, diskVars
<1>1. InOp' = {} /\ Committer' = {}
  BY DEF InOp, Committer
<1>2. lh' \in Seq(Blocks) /\ Len(lh') = 0
  OBVIOUS
<1>3. TypeOK'
  <2>1. pc' \in [Proc -> Phase] /\ buf' \in [Proc -> Blocks \cup {NoBuf}]
        /\ left' \in [Proc -> 0..MAXOPBLOCKS]
    BY SizeAssumption DEF Phase
  <2>2. committing' \in BOOLEAN /\ exceeded' \in BOOLEAN
    OBVIOUS
  <2>3. /\ boot' \in BootPhase /\ boot' # "up"
        /\ outstanding' \in Nat /\ tail' \in 0..MaxLogged
        /\ Len(lh') <= MaxLogged
    BY <1>2, Sizes DEF BootPhase
  <2> QED BY <1>2, <2>1, <2>2, <2>3 DEF TypeOK
<1>4. Reserved' /\ Crowd'
  BY <1>1, <1>2, <1>3, ReservedIdle DEF TypeOK
<1> QED BY <1>1, <1>3, <1>4 DEF Holding, Exclusive, TailInLog

\* Recycling a buffer and stuttering leave the bookkeeping alone.
LEMMA BookUnchanged ==
    ASSUME BookInv, UNCHANGED <<memVars, dirty, diskVars>>,
           cache' \in [Blocks -> Val]
    PROVE  BookInv'
<1> USE DEF BookInv, memVars, history, diskVars
<1>1. TypeOK'
  BY DEF TypeOK
<1>2. InOp' = InOp /\ Appending' = Appending
  BY DEF InOp, Appending
<1>3. Reserved' /\ Crowd'
  BY <1>2, ReservedSame
<1> QED BY <1>1, <1>2, <1>3 DEF Holding, Exclusive, TailInLog, Committer

LEMMA BookNext == BookInv /\ [Next]_vars => BookInv'
<1> SUFFICES ASSUME BookInv, [Next]_vars PROVE BookInv'
  OBVIOUS
<1>1. CASE Recover
  BY <1>1, BookReadHead, BookRecoverInstall, BookRecoverReset, BookRecoverClear
     DEF Recover
<1>2. CASE \E p \in Proc : CallBegin(p) \/ ProcStep(p) \/ Kill(p)
  BY <1>2, BookCallBegin, BookKill, BookBeginOp, BookBeginSleep,
     BookLogWriteAppend, BookEndOp, BookCommit, BookWriteLogBlock,
     BookWriteLogEnd, BookCommitHead, BookCommitInstall, BookCommitReset,
     BookCommitClear, BookCommitDone
     DEF ProcStep
<1>3. CASE \E p \in Proc, b \in Blocks, v \in Val : LogWriteCheck(p, b, v)
  BY <1>3, BookLogWriteCheck
<1>4. CASE \E b \in Blocks : Recycle(b)
  <2>1. cache' \in [Blocks -> Val]
    BY <1>4 DEF Recycle, BookInv, TypeOK
  <2> QED BY <1>4, <2>1, BookUnchanged DEF Recycle
<1>5. CASE Crash
  BY <1>5, BookCrash
<1>6. CASE UNCHANGED vars
  BY <1>6, BookUnchanged DEF vars, BookInv, TypeOK
<1> QED BY <1>1, <1>2, <1>3, <1>4, <1>5, <1>6 DEF Next

\* The bookkeeping of the log holds in every reachable state.
THEOREM Bookkeeping == Spec => []BookInv
BY BookInit, BookNext, PTL DEF Spec

-----------------------------------------------------------------------------
(* What the buffer cache owes to the log *)

Distinct(s) == \A i, j \in 1..Len(s) : s[i] = s[j] => i = j

\* Only a call inside log_write() holds a buffer, and no two the same one.
Holders == /\ \A p \in Proc : buf[p] # NoBuf => pc[p] \in {"append", "panic"}
           /\ \A p, q \in Proc : buf[p] # NoBuf /\ buf[p] = buf[q] => p = q

\* A pinned buffer is in the log, every other idle buffer equals the disk.
Pinned == SafeToRecycle /\ dirty \subseteq Entries(lh)

\* The on-disk header is only non-empty from the commit point on.
HeaderEmpty == boot = "up" /\ (\A p \in Proc : pc[p] \notin {"install", "clear"})
                  => hdr = <<>>

\* install_trans() works on the entries that the header names; afterwards
\* nothing is left of them in memory.
Erased == \A p \in Proc : /\ pc[p] = "install" => hdr = lh
                          /\ pc[p] \in {"clear", "done"} => lh = <<>>

\* What install_trans() has copied is no longer dirty.
Cleaned == (boot = "install" \/ \E p \in Proc : pc[p] = "install") =>
              \A i \in 1..tail : lh[i] \notin dirty

\* Recovery starts from nothing but the disk.
AtBoot == /\ boot # "up" => dirty = {}
          /\ boot = "install" => lh = hdr
          /\ boot \in {"read_head", "clear"} => lh = <<>>

\* Between transactions the log is empty.
QuietEmpty == boot = "up" /\ ~committing /\ InOp = {} => lh = <<>>

DataInv == /\ Distinct(lh) /\ Distinct(hdr)
           /\ Holders /\ Pinned /\ HeaderEmpty /\ Erased /\ Cleaned
           /\ AtBoot /\ QuietEmpty

Inv == BookInv /\ DataInv

\* While a process commits, no call is in progress and no buffer is held.
LEMMA CommitterAlone ==
    ASSUME BookInv, Holders, NEW p \in Committer
    PROVE  /\ boot = "up" /\ committing /\ InOp = {} /\ Busy = {}
           /\ \A q \in Proc : q # p => pc[q] \in {"idle", "begin", "sleep"}
           /\ \A q \in Proc : buf[q] = NoBuf
<1>1. committing /\ InOp = {} /\ boot = "up"
  BY DEF BookInv, Exclusive, Committer
<1>2. \A q \in Proc : q # p => pc[q] \in {"idle", "begin", "sleep"}
  <2> SUFFICES ASSUME NEW q \in Proc, q # p
               PROVE  pc[q] \in {"idle", "begin", "sleep"}
    OBVIOUS
  <2>1. q \notin Committer /\ q \notin InOp
    BY <1>1 DEF BookInv, Exclusive
  <2>2. pc[q] \in Phase
    BY DEF BookInv, TypeOK
  <2> QED BY <2>1, <2>2 DEF Committer, InOp, Phase
<1>3. \A q \in Proc : buf[q] = NoBuf
  BY <1>1 DEF Holders, InOp
<1> QED BY <1>1, <1>2, <1>3 DEF Busy

\* During recovery there is no call, no dirty buffer, and the cache is the disk.
LEMMA BootAlone ==
    ASSUME Inv, boot # "up"
    PROVE  /\ \A q \in Proc : pc[q] = "idle" /\ buf[q] = NoBuf
           /\ Busy = {} /\ dirty = {}
<1>1. \A q \in Proc : pc[q] = "idle"
  BY DEF Inv, BookInv, Exclusive
<1>2. \A q \in Proc : buf[q] = NoBuf
  BY <1>1 DEF Inv, DataInv, Holders
<1> QED BY <1>1, <1>2 DEF Inv, DataInv, AtBoot, Busy

-----------------------------------------------------------------------------
(* The cache's invariant is inductive *)

LEMMA DataReadHead == ASSUME Inv, ReadHead
                  PROVE  DataInv'
<1> USE DEF Inv, DataInv, BookInv, ReadHead, history, diskVars, memVars
<1>0. /\ \A q \in Proc : pc[q] = "idle" /\ buf[q] = NoBuf
      /\ Busy = {} /\ dirty = {}
  BY BootAlone
<1>1. Distinct(lh)' /\ Distinct(hdr)'
  BY DEF Distinct, TypeOK
<1>2. Holders'
  BY DEF Holders, TypeOK
<1>3. Pinned'
  BY <1>0 DEF Pinned, SafeToRecycle, Busy, Entries
<1>4. HeaderEmpty'
  BY DEF HeaderEmpty, TypeOK
<1>5. Erased'
  BY <1>0 DEF Erased, TypeOK
<1>6. Cleaned'
  BY <1>0 DEF Cleaned, TypeOK
<1>7. AtBoot'
  BY <1>0 DEF AtBoot, TypeOK
<1>8. QuietEmpty'
  BY DEF QuietEmpty, TypeOK, InOp, AtBoot
<1> QED BY <1>1, <1>2, <1>3, <1>4, <1>5, <1>6, <1>7, <1>8

LEMMA DataRecoverInstall == ASSUME Inv, RecoverInstall
                  PROVE  DataInv'
<1> USE DEF Inv, DataInv, BookInv, RecoverInstall, InstallBlock, WriteHome, history, diskVars, memVars
<1>0. /\ \A q \in Proc : pc[q] = "idle" /\ buf[q] = NoBuf
      /\ Busy = {} /\ dirty = {}
  BY BootAlone
<1>1. Distinct(lh)' /\ Distinct(hdr)'
  BY DEF Distinct, TypeOK
<1>2. Holders'
  BY DEF Holders, TypeOK
<1>3. Pinned'
  <2>1. /\ cache' = [cache EXCEPT ![lh[tail + 1]] = LogBlock(tail + 1)]
        /\ disk' = [disk EXCEPT ![lh[tail + 1]] = LogBlock(tail + 1)]
        /\ dirty' = dirty \ {lh[tail + 1]} /\ Busy' = Busy /\ lh' = lh
    BY DEF Busy
  <2> QED BY <2>1 DEF Pinned, SafeToRecycle, TypeOK
<1>4. HeaderEmpty'
  BY DEF HeaderEmpty, TypeOK
<1>5. Erased'
  BY <1>0 DEF Erased, TypeOK
<1>6. Cleaned'
  <2>1. tail \in Nat /\ tail' = tail + 1 /\ lh' = lh
        /\ dirty' = dirty \ {lh[tail + 1]}
    BY NextEntry
  <2>2. \A i \in 1..tail : lh[i] \notin dirty
    BY DEF Cleaned
  <2> QED BY <2>1, <2>2 DEF Cleaned
<1>7. AtBoot'
  BY <1>0 DEF AtBoot, TypeOK
<1>8. QuietEmpty'
  BY DEF QuietEmpty, TypeOK, InOp, AtBoot
<1> QED BY <1>1, <1>2, <1>3, <1>4, <1>5, <1>6, <1>7, <1>8

LEMMA DataRecoverReset == ASSUME Inv, RecoverReset
                  PROVE  DataInv'
<1> USE DEF Inv, DataInv, BookInv, RecoverReset, history, diskVars, memVars
<1>0. /\ \A q \in Proc : pc[q] = "idle" /\ buf[q] = NoBuf
      /\ Busy = {} /\ dirty = {}
  BY BootAlone
<1>1. Distinct(lh)' /\ Distinct(hdr)'
  BY DEF Distinct, TypeOK
<1>2. Holders'
  BY DEF Holders, TypeOK
<1>3. Pinned'
  BY <1>0 DEF Pinned, SafeToRecycle, Busy
<1>4. HeaderEmpty'
  BY DEF HeaderEmpty, TypeOK
<1>5. Erased'
  BY <1>0 DEF Erased, TypeOK
<1>6. Cleaned'
  BY <1>0 DEF Cleaned, TypeOK
<1>7. AtBoot'
  BY <1>0 DEF AtBoot, TypeOK
<1>8. QuietEmpty'
  BY DEF QuietEmpty, TypeOK, InOp, AtBoot
<1> QED BY <1>1, <1>2, <1>3, <1>4, <1>5, <1>6, <1>7, <1>8

LEMMA DataRecoverClear == ASSUME Inv, RecoverClear
                  PROVE  DataInv'
<1> USE DEF Inv, DataInv, BookInv, RecoverClear, WriteHead, history, diskVars, memVars
<1>0. /\ \A q \in Proc : pc[q] = "idle" /\ buf[q] = NoBuf
      /\ Busy = {} /\ dirty = {}
  BY BootAlone
<1>1. Distinct(lh)' /\ Distinct(hdr)'
  BY DEF Distinct, TypeOK
<1>2. Holders'
  BY DEF Holders, TypeOK
<1>3. Pinned'
  BY DEF Pinned, SafeToRecycle, Busy, TypeOK, Entries
<1>4. HeaderEmpty'
  BY DEF HeaderEmpty, AtBoot
<1>5. Erased'
  BY <1>0 DEF Erased, TypeOK
<1>6. Cleaned'
  BY <1>0 DEF Cleaned, TypeOK
<1>7. AtBoot'
  BY <1>0 DEF AtBoot, TypeOK
<1>8. QuietEmpty'
  BY DEF QuietEmpty, TypeOK, InOp, AtBoot
<1> QED BY <1>1, <1>2, <1>3, <1>4, <1>5, <1>6, <1>7, <1>8

LEMMA DataCallBegin == ASSUME Inv, NEW p \in Proc, CallBegin(p)
                  PROVE  DataInv'
<1> USE DEF Inv, DataInv, BookInv, CallBegin, history, diskVars, memVars
<1>0. TypeOK
  OBVIOUS
<1>1. Distinct(lh)' /\ Distinct(hdr)'
  BY DEF Distinct, TypeOK
<1>2. Holders'
  BY DEF Holders, TypeOK
<1>3. Pinned'
  BY DEF Pinned, SafeToRecycle, Busy, TypeOK, Entries
<1>4. HeaderEmpty'
  BY DEF HeaderEmpty, TypeOK
<1>5. Erased'
  BY <1>0 DEF Erased, TypeOK
<1>6. Cleaned'
  BY <1>0 DEF Cleaned, TypeOK
<1>7. AtBoot'
  BY <1>0 DEF AtBoot, TypeOK
<1>8. QuietEmpty'
  BY DEF QuietEmpty, TypeOK, InOp, AtBoot
<1> QED BY <1>1, <1>2, <1>3, <1>4, <1>5, <1>6, <1>7, <1>8

LEMMA DataBeginSleep == ASSUME Inv, NEW p \in Proc, BeginSleep(p)
                  PROVE  DataInv'
<1> USE DEF Inv, DataInv, BookInv, BeginSleep, history, diskVars, memVars
<1>0. TypeOK
  OBVIOUS
<1>1. Distinct(lh)' /\ Distinct(hdr)'
  BY DEF Distinct, TypeOK
<1>2. Holders'
  BY DEF Holders, TypeOK
<1>3. Pinned'
  BY DEF Pinned, SafeToRecycle, Busy, TypeOK, Entries
<1>4. HeaderEmpty'
  BY DEF HeaderEmpty, TypeOK
<1>5. Erased'
  BY <1>0 DEF Erased, TypeOK
<1>6. Cleaned'
  BY <1>0 DEF Cleaned, TypeOK
<1>7. AtBoot'
  BY <1>0 DEF AtBoot, TypeOK
<1>8. QuietEmpty'
  BY DEF QuietEmpty, TypeOK, InOp, AtBoot
<1> QED BY <1>1, <1>2, <1>3, <1>4, <1>5, <1>6, <1>7, <1>8

LEMMA DataKill == ASSUME Inv, NEW p \in Proc, Kill(p)
                  PROVE  DataInv'
<1> USE DEF Inv, DataInv, BookInv, Kill, history, diskVars, memVars
<1>0. TypeOK
  OBVIOUS
<1>1. Distinct(lh)' /\ Distinct(hdr)'
  BY DEF Distinct, TypeOK
<1>2. Holders'
  BY DEF Holders, TypeOK
<1>3. Pinned'
  BY DEF Pinned, SafeToRecycle, Busy, TypeOK, Entries
<1>4. HeaderEmpty'
  BY DEF HeaderEmpty, TypeOK
<1>5. Erased'
  BY <1>0 DEF Erased, TypeOK
<1>6. Cleaned'
  BY <1>0 DEF Cleaned, TypeOK
<1>7. AtBoot'
  BY <1>0 DEF AtBoot, TypeOK
<1>8. QuietEmpty'
  BY DEF QuietEmpty, TypeOK, InOp, AtBoot
<1> QED BY <1>1, <1>2, <1>3, <1>4, <1>5, <1>6, <1>7, <1>8

LEMMA DataBeginOp == ASSUME Inv, NEW p \in Proc, BeginOp(p)
                  PROVE  DataInv'
<1> USE DEF Inv, DataInv, BookInv, BeginOp, history, diskVars, memVars
<1>0. TypeOK
  OBVIOUS
<1>1. Distinct(lh)' /\ Distinct(hdr)'
  BY DEF Distinct, TypeOK
<1>2. Holders'
  BY DEF Holders, TypeOK
<1>3. Pinned'
  BY DEF Pinned, SafeToRecycle, Busy, TypeOK, Entries
<1>4. HeaderEmpty'
  BY DEF HeaderEmpty, TypeOK
<1>5. Erased'
  BY <1>0 DEF Erased, TypeOK
<1>6. Cleaned'
  BY <1>0 DEF Cleaned, TypeOK
<1>7. AtBoot'
  BY <1>0 DEF AtBoot, TypeOK
<1>8. QuietEmpty'
  BY DEF QuietEmpty, TypeOK, InOp, AtBoot
<1> QED BY <1>1, <1>2, <1>3, <1>4, <1>5, <1>6, <1>7, <1>8

LEMMA DataLogWriteCheck == ASSUME Inv, NEW p \in Proc, NEW b \in Blocks, NEW v \in Val,
           LogWriteCheck(p, b, v)
                  PROVE  DataInv'
<1> USE DEF Inv, DataInv, BookInv, LogWriteCheck, Busy, history, diskVars, memVars
<1>0. boot = "up" /\ ~committing /\ Committer = {}
  <2>1. p \in InOp
    BY DEF InOp
  <2> QED BY <2>1, CallAlone
<1>1. Distinct(lh)' /\ Distinct(hdr)'
  BY DEF Distinct, TypeOK
<1>2. Holders'
  BY DEF Holders, TypeOK
<1>3. Pinned'
  <2>1. Busy' = Busy \cup {b}
    BY BlockAssumption DEF TypeOK, Holders
  <2>2. \A c \in Blocks : c # b => cache'[c] = cache[c]
    BY DEF TypeOK
  <2> QED BY <2>1, <2>2 DEF Pinned, SafeToRecycle, Entries
<1>4. HeaderEmpty'
  BY DEF HeaderEmpty, TypeOK
<1>5. Erased'
  BY <1>0 DEF Erased, TypeOK
<1>6. Cleaned'
  BY <1>0 DEF Cleaned, TypeOK
<1>7. AtBoot'
  BY <1>0 DEF AtBoot, TypeOK
<1>8. QuietEmpty'
  BY DEF QuietEmpty, TypeOK, InOp, AtBoot
<1> QED BY <1>1, <1>2, <1>3, <1>4, <1>5, <1>6, <1>7, <1>8

LEMMA DataLogWriteAppend == ASSUME Inv, NEW p \in Proc, LogWriteAppend(p)
                  PROVE  DataInv'
<1> USE DEF Inv, DataInv, BookInv, LogWriteAppend, AddEntry, history, diskVars, memVars
<1>0. boot = "up" /\ ~committing /\ Committer = {}
  <2>1. p \in InOp
    BY DEF InOp
  <2> QED BY <2>1, CallAlone
<1>1. Distinct(lh)' /\ Distinct(hdr)'
  <2>1. lh \in Seq(Blocks) /\ buf[p] \in Blocks
    BY DEF TypeOK, Holding
  <2>2. Distinct(Append(lh, buf[p])) \/ buf[p] \in Entries(lh)
    BY <2>1 DEF Distinct, Entries
  <2> QED BY <2>2 DEF Distinct
<1>2. Holders'
  BY DEF Holders, TypeOK
<1>3. Pinned'
  <2>1. lh \in Seq(Blocks) /\ buf[p] \in Blocks
    BY DEF TypeOK, Holding
  <2>2. Entries(lh') = Entries(lh) \cup {buf[p]}
    <3>1. CASE buf[p] \in Entries(lh)
      BY <3>1
    <3>2. CASE buf[p] \notin Entries(lh)
      <4>1. lh' = Append(lh, buf[p])
        BY <3>2
      <4>2. /\ Len(lh') = Len(lh) + 1 /\ Len(lh) \in Nat
            /\ lh'[Len(lh) + 1] = buf[p]
            /\ \A i \in 1..Len(lh) : lh'[i] = lh[i]
        BY <2>1, <4>1
      <4> QED BY <4>2 DEF Entries
    <3> QED BY <3>1, <3>2
  <2>3. Busy \subseteq Busy' \cup {buf[p]}
    BY DEF Busy, TypeOK
  <2> QED BY <2>2, <2>3 DEF Pinned, SafeToRecycle
<1>4. HeaderEmpty'
  BY DEF HeaderEmpty, TypeOK
<1>5. Erased'
  BY <1>0 DEF Erased, TypeOK, Committer
<1>6. Cleaned'
  BY <1>0 DEF Cleaned, TypeOK, Committer
<1>7. AtBoot'
  BY <1>0 DEF AtBoot, TypeOK
<1>8. QuietEmpty'
  BY DEF QuietEmpty, TypeOK, InOp, AtBoot
<1> QED BY <1>1, <1>2, <1>3, <1>4, <1>5, <1>6, <1>7, <1>8

LEMMA DataEndOp == ASSUME Inv, NEW p \in Proc, EndOp(p)
                  PROVE  DataInv'
<1> USE DEF Inv, DataInv, BookInv, EndOp, Wakeup, history, diskVars, memVars
<1>0. TypeOK
  OBVIOUS
<1>1. Distinct(lh)' /\ Distinct(hdr)'
  BY DEF Distinct, TypeOK
<1>2. Holders'
  BY DEF Holders, TypeOK
<1>3. Pinned'
  BY DEF Pinned, SafeToRecycle, Busy, TypeOK, Entries
<1>4. HeaderEmpty'
  BY DEF HeaderEmpty, TypeOK
<1>5. Erased'
  BY <1>0 DEF Erased, TypeOK
<1>6. Cleaned'
  BY <1>0 DEF Cleaned, TypeOK
<1>7. AtBoot'
  BY <1>0 DEF AtBoot, TypeOK
<1>8. QuietEmpty'
  <2>1. BookInv'
    BY BookEndOp
  <2>2. (outstanding' # 0) => InOp' # {}
    BY <2>1, FS_EmptySet DEF Reserved
  <2>3. p \in InOp /\ ~committing
    BY DEF InOp, Exclusive
  <2> QED BY <2>2, <2>3 DEF QuietEmpty
<1> QED BY <1>1, <1>2, <1>3, <1>4, <1>5, <1>6, <1>7, <1>8

LEMMA DataCommit == ASSUME Inv, NEW p \in Proc, Commit(p)
                  PROVE  DataInv'
<1> USE DEF Inv, DataInv, BookInv, Commit, history, diskVars, memVars
<1>0. TypeOK
  OBVIOUS
<1>1. Distinct(lh)' /\ Distinct(hdr)'
  BY DEF Distinct, TypeOK
<1>2. Holders'
  BY DEF Holders, TypeOK
<1>3. Pinned'
  BY DEF Pinned, SafeToRecycle, Busy, TypeOK, Entries
<1>4. HeaderEmpty'
  BY DEF HeaderEmpty, TypeOK
<1>5. Erased'
  BY <1>0 DEF Erased, TypeOK
<1>6. Cleaned'
  BY <1>0 DEF Cleaned, TypeOK
<1>7. AtBoot'
  BY <1>0 DEF AtBoot, TypeOK
<1>8. QuietEmpty'
  BY DEF QuietEmpty, TypeOK, InOp, AtBoot
<1> QED BY <1>1, <1>2, <1>3, <1>4, <1>5, <1>6, <1>7, <1>8

LEMMA DataWriteLogBlock == ASSUME Inv, NEW p \in Proc, WriteLogBlock(p)
                  PROVE  DataInv'
<1> USE DEF Inv, DataInv, BookInv, WriteLogBlock, WriteHome, history, diskVars, memVars
<1>0. /\ boot = "up" /\ committing /\ InOp = {} /\ Busy = {}
      /\ \A q \in Proc : q # p => pc[q] \in {"idle", "begin", "sleep"}
      /\ \A q \in Proc : buf[q] = NoBuf
  <2>1. p \in Committer
    BY DEF Committer
  <2> QED BY <2>1, CommitterAlone
<1>1. Distinct(lh)' /\ Distinct(hdr)'
  BY DEF Distinct, TypeOK
<1>2. Holders'
  BY DEF Holders, TypeOK
<1>3. Pinned'
  <2>1. CASE tail + 1 \in Slots
    BY <2>1 DEF Pinned, SafeToRecycle, Busy
  <2>2. CASE tail + 1 \notin Slots
    <3>1. PICK c \in Blocks, v \in Val : WriteHome(c, v) /\ lh' = lh /\ buf' = buf
      BY <2>2, NextEntry DEF TypeOK
    <3> QED BY <3>1 DEF Pinned, SafeToRecycle, Busy, TypeOK
  <2> QED BY <2>1, <2>2
<1>4. HeaderEmpty'
  BY DEF HeaderEmpty, TypeOK
<1>5. Erased'
  BY <1>0 DEF Erased, TypeOK
<1>6. Cleaned'
  BY <1>0 DEF Cleaned, TypeOK
<1>7. AtBoot'
  BY <1>0 DEF AtBoot, TypeOK
<1>8. QuietEmpty'
  BY DEF QuietEmpty, TypeOK, InOp, AtBoot
<1> QED BY <1>1, <1>2, <1>3, <1>4, <1>5, <1>6, <1>7, <1>8

LEMMA DataWriteLogEnd == ASSUME Inv, NEW p \in Proc, WriteLogEnd(p)
                  PROVE  DataInv'
<1> USE DEF Inv, DataInv, BookInv, WriteLogEnd, history, diskVars, memVars
<1>0. TypeOK
  OBVIOUS
<1>1. Distinct(lh)' /\ Distinct(hdr)'
  BY DEF Distinct, TypeOK
<1>2. Holders'
  BY DEF Holders, TypeOK
<1>3. Pinned'
  BY DEF Pinned, SafeToRecycle, Busy, TypeOK, Entries
<1>4. HeaderEmpty'
  BY DEF HeaderEmpty, TypeOK
<1>5. Erased'
  BY <1>0 DEF Erased, TypeOK
<1>6. Cleaned'
  BY <1>0 DEF Cleaned, TypeOK
<1>7. AtBoot'
  BY <1>0 DEF AtBoot, TypeOK
<1>8. QuietEmpty'
  BY DEF QuietEmpty, TypeOK, InOp, AtBoot
<1> QED BY <1>1, <1>2, <1>3, <1>4, <1>5, <1>6, <1>7, <1>8

LEMMA DataCommitHead == ASSUME Inv, NEW p \in Proc, CommitHead(p)
                  PROVE  DataInv'
<1> USE DEF Inv, DataInv, BookInv, CommitHead, WriteHead, history, diskVars, memVars
<1>0. /\ boot = "up" /\ committing /\ InOp = {} /\ Busy = {}
      /\ \A q \in Proc : q # p => pc[q] \in {"idle", "begin", "sleep"}
      /\ \A q \in Proc : buf[q] = NoBuf
  <2>1. p \in Committer
    BY DEF Committer
  <2> QED BY <2>1, CommitterAlone
<1>1. Distinct(lh)' /\ Distinct(hdr)'
  BY DEF Distinct, TypeOK
<1>2. Holders'
  BY DEF Holders, TypeOK
<1>3. Pinned'
  BY DEF Pinned, SafeToRecycle, Busy, TypeOK, Entries
<1>4. HeaderEmpty'
  BY DEF HeaderEmpty, TypeOK
<1>5. Erased'
  BY <1>0 DEF Erased, TypeOK
<1>6. Cleaned'
  BY <1>0 DEF Cleaned, TypeOK
<1>7. AtBoot'
  BY <1>0 DEF AtBoot, TypeOK
<1>8. QuietEmpty'
  BY DEF QuietEmpty, TypeOK, InOp, AtBoot
<1> QED BY <1>1, <1>2, <1>3, <1>4, <1>5, <1>6, <1>7, <1>8

LEMMA DataCommitInstall == ASSUME Inv, NEW p \in Proc, CommitInstall(p)
                  PROVE  DataInv'
<1> USE DEF Inv, DataInv, BookInv, CommitInstall, InstallBlock, WriteHome, history, diskVars, memVars
<1>0. /\ boot = "up" /\ committing /\ InOp = {} /\ Busy = {}
      /\ \A q \in Proc : q # p => pc[q] \in {"idle", "begin", "sleep"}
      /\ \A q \in Proc : buf[q] = NoBuf
  <2>1. p \in Committer
    BY DEF Committer
  <2> QED BY <2>1, CommitterAlone
<1>1. Distinct(lh)' /\ Distinct(hdr)'
  BY DEF Distinct, TypeOK
<1>2. Holders'
  BY DEF Holders, TypeOK
<1>3. Pinned'
  <2>1. /\ cache' = [cache EXCEPT ![lh[tail + 1]] = LogBlock(tail + 1)]
        /\ disk' = [disk EXCEPT ![lh[tail + 1]] = LogBlock(tail + 1)]
        /\ dirty' = dirty \ {lh[tail + 1]} /\ Busy' = Busy /\ lh' = lh
    BY DEF Busy
  <2> QED BY <2>1 DEF Pinned, SafeToRecycle, TypeOK
<1>4. HeaderEmpty'
  BY DEF HeaderEmpty, TypeOK
<1>5. Erased'
  BY <1>0 DEF Erased, TypeOK
<1>6. Cleaned'
  <2>1. tail \in Nat /\ tail' = tail + 1 /\ lh' = lh
        /\ dirty' = dirty \ {lh[tail + 1]}
    BY NextEntry
  <2>2. \A i \in 1..tail : lh[i] \notin dirty
    BY DEF Cleaned
  <2> QED BY <2>1, <2>2 DEF Cleaned
<1>7. AtBoot'
  BY <1>0 DEF AtBoot, TypeOK
<1>8. QuietEmpty'
  BY DEF QuietEmpty, TypeOK, InOp, AtBoot
<1> QED BY <1>1, <1>2, <1>3, <1>4, <1>5, <1>6, <1>7, <1>8

LEMMA DataCommitReset == ASSUME Inv, NEW p \in Proc, CommitReset(p)
                  PROVE  DataInv'
<1> USE DEF Inv, DataInv, BookInv, CommitReset, history, diskVars, memVars
<1>0. /\ boot = "up" /\ committing /\ InOp = {} /\ Busy = {}
      /\ \A q \in Proc : q # p => pc[q] \in {"idle", "begin", "sleep"}
      /\ \A q \in Proc : buf[q] = NoBuf
  <2>1. p \in Committer
    BY DEF Committer
  <2> QED BY <2>1, CommitterAlone
<1>1. Distinct(lh)' /\ Distinct(hdr)'
  BY DEF Distinct, TypeOK
<1>2. Holders'
  BY DEF Holders, TypeOK
<1>3. Pinned'
  <2>1. dirty = {}
    BY DEF Pinned, Cleaned, Entries
  <2> QED BY <2>1 DEF Pinned, SafeToRecycle, Busy
<1>4. HeaderEmpty'
  BY DEF HeaderEmpty, TypeOK
<1>5. Erased'
  BY <1>0 DEF Erased, TypeOK
<1>6. Cleaned'
  BY <1>0 DEF Cleaned, TypeOK
<1>7. AtBoot'
  BY <1>0 DEF AtBoot, TypeOK
<1>8. QuietEmpty'
  BY DEF QuietEmpty, TypeOK, InOp, AtBoot
<1> QED BY <1>1, <1>2, <1>3, <1>4, <1>5, <1>6, <1>7, <1>8

LEMMA DataCommitClear == ASSUME Inv, NEW p \in Proc, CommitClear(p)
                  PROVE  DataInv'
<1> USE DEF Inv, DataInv, BookInv, CommitClear, WriteHead, history, diskVars, memVars
<1>0. /\ boot = "up" /\ committing /\ InOp = {} /\ Busy = {}
      /\ \A q \in Proc : q # p => pc[q] \in {"idle", "begin", "sleep"}
      /\ \A q \in Proc : buf[q] = NoBuf
  <2>1. p \in Committer
    BY DEF Committer
  <2> QED BY <2>1, CommitterAlone
<1>1. Distinct(lh)' /\ Distinct(hdr)'
  BY DEF Distinct, TypeOK
<1>2. Holders'
  BY DEF Holders, TypeOK
<1>3. Pinned'
  BY DEF Pinned, SafeToRecycle, Busy, TypeOK, Entries
<1>4. HeaderEmpty'
  BY <1>0 DEF HeaderEmpty, Erased
<1>5. Erased'
  BY <1>0 DEF Erased, TypeOK
<1>6. Cleaned'
  BY <1>0 DEF Cleaned, TypeOK
<1>7. AtBoot'
  BY <1>0 DEF AtBoot, TypeOK
<1>8. QuietEmpty'
  BY DEF QuietEmpty, TypeOK, InOp, AtBoot
<1> QED BY <1>1, <1>2, <1>3, <1>4, <1>5, <1>6, <1>7, <1>8

LEMMA DataCommitDone == ASSUME Inv, NEW p \in Proc, CommitDone(p)
                  PROVE  DataInv'
<1> USE DEF Inv, DataInv, BookInv, CommitDone, Wakeup, history, diskVars, memVars
<1>0. /\ boot = "up" /\ committing /\ InOp = {} /\ Busy = {}
      /\ \A q \in Proc : q # p => pc[q] \in {"idle", "begin", "sleep"}
      /\ \A q \in Proc : buf[q] = NoBuf
  <2>1. p \in Committer
    BY DEF Committer
  <2> QED BY <2>1, CommitterAlone
<1>1. Distinct(lh)' /\ Distinct(hdr)'
  BY DEF Distinct, TypeOK
<1>2. Holders'
  BY DEF Holders, TypeOK
<1>3. Pinned'
  BY DEF Pinned, SafeToRecycle, Busy, TypeOK, Entries
<1>4. HeaderEmpty'
  BY DEF HeaderEmpty, TypeOK
<1>5. Erased'
  BY <1>0 DEF Erased, TypeOK
<1>6. Cleaned'
  BY <1>0 DEF Cleaned, TypeOK
<1>7. AtBoot'
  BY <1>0 DEF AtBoot, TypeOK
<1>8. QuietEmpty'
  BY DEF QuietEmpty, Erased
<1> QED BY <1>1, <1>2, <1>3, <1>4, <1>5, <1>6, <1>7, <1>8

\* Recycling a clean buffer does not change what bread() returns.
LEMMA RecycleSame == ASSUME Inv, NEW b \in Blocks, Recycle(b)
                     PROVE  UNCHANGED vars
BY DEF Recycle, Inv, DataInv, BookInv, Pinned, SafeToRecycle, TypeOK, vars

LEMMA DataUnchanged == ASSUME Inv, UNCHANGED vars PROVE DataInv'
BY DEF Inv, DataInv, Distinct, Holders, Pinned, SafeToRecycle, Busy, HeaderEmpty,
       Erased, Cleaned, AtBoot, QuietEmpty, InOp, Entries, vars, memVars, diskVars

LEMMA DataCrash == ASSUME Inv, Crash
                  PROVE  DataInv'
<1> USE DEF Inv, DataInv, BookInv, Crash, history, diskVars, memVars
<1>0. TypeOK
  OBVIOUS
<1>1. Distinct(lh)' /\ Distinct(hdr)'
  BY DEF Distinct, TypeOK
<1>2. Holders'
  BY DEF Holders, TypeOK
<1>3. Pinned'
  BY DEF Pinned, SafeToRecycle, Busy, TypeOK, Entries
<1>4. HeaderEmpty'
  BY DEF HeaderEmpty, TypeOK
<1>5. Erased'
  BY <1>0 DEF Erased, TypeOK
<1>6. Cleaned'
  BY <1>0 DEF Cleaned, TypeOK
<1>7. AtBoot'
  BY <1>0 DEF AtBoot, TypeOK
<1>8. QuietEmpty'
  BY DEF QuietEmpty, TypeOK, InOp, AtBoot
<1> QED BY <1>1, <1>2, <1>3, <1>4, <1>5, <1>6, <1>7, <1>8

LEMMA DataInit == Init => DataInv
<1> SUFFICES ASSUME Init PROVE DataInv
  OBVIOUS
<1>1. lh = <<>> /\ hdr = <<>> /\ Len(lh) = 0 /\ Len(hdr) = 0
  BY DEF Init
<1>2. \A q \in Proc : pc[q] = "idle" /\ buf[q] = NoBuf
  BY DEF Init
<1>3. Pinned
  BY DEF Init, Pinned, SafeToRecycle
<1> QED BY <1>1, <1>2, <1>3 DEF Init, DataInv, Distinct, Holders, HeaderEmpty,
           Erased, Cleaned, AtBoot, QuietEmpty

LEMMA DataNext == ASSUME Inv, [Next]_vars PROVE DataInv'
<1>1. CASE Recover
  BY <1>1, DataReadHead, DataRecoverInstall, DataRecoverReset, DataRecoverClear
     DEF Recover
<1>2. CASE \E p \in Proc : CallBegin(p) \/ ProcStep(p) \/ Kill(p)
  BY <1>2, DataCallBegin, DataKill, DataBeginOp, DataBeginSleep,
     DataLogWriteAppend, DataEndOp, DataCommit, DataWriteLogBlock,
     DataWriteLogEnd, DataCommitHead, DataCommitInstall, DataCommitReset,
     DataCommitClear, DataCommitDone
     DEF ProcStep
<1>3. CASE \E p \in Proc, b \in Blocks, v \in Val : LogWriteCheck(p, b, v)
  BY <1>3, DataLogWriteCheck
<1>4. CASE \E b \in Blocks : Recycle(b)
  BY <1>4, RecycleSame, DataUnchanged
<1>5. CASE Crash
  BY <1>5, DataCrash
<1>6. CASE UNCHANGED vars
  BY <1>6, DataUnchanged
<1> QED BY <1>1, <1>2, <1>3, <1>4, <1>5, <1>6 DEF Next

\* The bookkeeping and the cache's invariant hold in every reachable state.
THEOREM CacheOwed == Spec => []Inv
<1>1. Init => Inv
  BY BookInit, DataInit DEF Inv
<1>2. Inv /\ [Next]_vars => Inv'
  BY BookNext, DataNext DEF Inv
<1> QED BY <1>1, <1>2, PTL DEF Spec

\* A buffer that bget() may recycle holds what the disk holds: log_write()'s
\* B_DIRTY protects every update until it is installed (log.c:198-206) -
\* whatever the calls log, and however short the log area is.
THEOREM RecycleIsSafe == Spec => []SafeToRecycle
<1>1. Inv => SafeToRecycle
  BY DEF Inv, DataInv, Pinned
<1> QED BY <1>1, CacheOwed, PTL

-----------------------------------------------------------------------------
(* The bounds of the log, panics and sleepers *)

LEMMA FullNext == ASSUME Inv, PanicOnlyWhenFull, [Next]_vars
                  PROVE  PanicOnlyWhenFull'
<1> SUFFICES ASSUME NEW q \in Proc, pc'[q] = "panic"
             PROVE  /\ ~committing' /\ Len(lh') >= Room
                    /\ ~exceeded' => left'[q] <= LOGSIZE - Room
  BY DEF PanicOnlyWhenFull
<1> USE DEF Inv, BookInv
<1>1. CASE pc[q] = "panic"
  <2>1. /\ ~committing /\ Len(lh) >= Room /\ q \in InOp
        /\ ~exceeded => left[q] <= LOGSIZE - Room
        /\ boot = "up" /\ Committer = {} /\ Len(lh) \in Nat
    BY <1>1, CallAlone DEF PanicOnlyWhenFull, InOp, TypeOK
  <2>3. CASE Recover
    BY <2>1, <2>3 DEF Recover, ReadHead, RecoverInstall, RecoverReset, RecoverClear
  <2>4. CASE \E p \in Proc : LogWriteAppend(p)
    <3> PICK p \in Proc : LogWriteAppend(p)
      BY <2>4
    <3>1. committing' = committing /\ p # q
      BY <1>1 DEF LogWriteAppend
    <3>2. CASE buf[p] \in Entries(lh)
      BY <2>1, <3>1, <3>2 DEF LogWriteAppend, history
    <3>3. CASE buf[p] \notin Entries(lh)
      <4>1. lh \in Seq(Blocks) /\ buf[p] \in Blocks
        BY DEF TypeOK, Holding, LogWriteAppend
      <4>2. /\ lh' = Append(lh, buf[p]) /\ left'[q] = left[q]
            /\ ~exceeded' => ~exceeded
        BY <3>1, <3>3 DEF LogWriteAppend, AddEntry, TypeOK
      <4>3. Len(lh') = Len(lh) + 1
        BY <4>1, <4>2
      <4> QED BY <2>1, <3>1, <4>2, <4>3, Sizes
    <3> QED BY <3>2, <3>3
  <2>5. CASE \E p \in Proc : EndOp(p)
    <3> PICK p \in Proc : EndOp(p)
      BY <2>5
    <3>1. p # q /\ p \in InOp
      BY <1>1 DEF EndOp, InOp
    <3>2. outstanding' # 0
      <4>1. outstanding' = Cardinality(InOp')
        BY BookEndOp DEF Reserved
      <4>2. q \in InOp' /\ IsFiniteSet(InOp')
        <5>1. q \in InOp'
          BY DEF InOp
        <5>2. IsFiniteSet(InOp)'
          BY ReservationsFinite, PTL
        <5> QED BY <5>1, <5>2
      <4> QED BY <4>1, <4>2, FS_EmptySet
    <3> QED BY <2>1, <3>1, <3>2 DEF EndOp, TypeOK, history
  <2>6. CASE \E p \in Proc : BeginOp(p)
    <3> PICK p \in Proc : BeginOp(p)
      BY <2>6
    <3>1. p # q
      BY <1>1 DEF BeginOp
    <3> QED BY <2>1, <3>1 DEF BeginOp, TypeOK, history
  <2>7. CASE \E p \in Proc, b \in Blocks, v \in Val : LogWriteCheck(p, b, v)
    BY <2>1, <2>7 DEF LogWriteCheck, history
  <2>8. CASE \E p \in Proc : CallBegin(p) \/ Kill(p) \/ BeginSleep(p)
    BY <2>1, <2>8 DEF CallBegin, Kill, BeginSleep, history
  <2>9. CASE \E p \in Proc : \/ Commit(p) \/ WriteLogBlock(p) \/ WriteLogEnd(p)
                              \/ CommitHead(p) \/ CommitInstall(p)
                              \/ CommitReset(p) \/ CommitClear(p) \/ CommitDone(p)
    BY <2>1, <2>9 DEF Commit, WriteLogBlock, WriteLogEnd, CommitHead,
       CommitInstall, CommitReset, CommitClear, CommitDone, Committer
  <2>10. CASE Crash
    BY <2>10 DEF Crash
  <2>11. CASE UNCHANGED vars
    BY <2>1, <2>11 DEF vars, memVars, history
  <2>12. CASE \E b \in Blocks : Recycle(b)
    BY <2>11, <2>12, RecycleSame
  <2> QED BY <2>3, <2>4, <2>5, <2>6, <2>7, <2>8, <2>9, <2>10, <2>11, <2>12
          DEF Next, ProcStep
<1>2. CASE pc[q] # "panic"
  <2>1. \E b \in Blocks, v \in Val : LogWriteCheck(q, b, v)
    <3>1. ~Crash /\ ~Recover /\ ~UNCHANGED vars /\ ~\E b \in Blocks : Recycle(b)
      BY <1>2 DEF Crash, Recover, ReadHead, RecoverInstall, RecoverReset,
         RecoverClear, vars, memVars, Recycle
    <3>2. ASSUME NEW p \in Proc, CallBegin(p) \/ Kill(p) \/ ProcStep(p)
          PROVE  FALSE
      <4>1. EndOp(p) => ~committing
        BY DEF EndOp, Exclusive, InOp
      <4> QED BY <1>2, <3>2, <4>1 DEF CallBegin, Kill, ProcStep, BeginOp, BeginSleep,
         LogWriteAppend, EndOp, Commit, WriteLogBlock, WriteLogEnd, CommitHead,
         CommitInstall, CommitReset, CommitClear, CommitDone, TypeOK, Wakeup
    <3>3. PICK p \in Proc, b \in Blocks, v \in Val : LogWriteCheck(p, b, v)
      BY <3>1, <3>2 DEF Next
    <3> QED BY <1>2, <3>3 DEF LogWriteCheck, TypeOK
  <2>2. PICK b \in Blocks, v \in Val : LogWriteCheck(q, b, v)
    BY <2>1
  <2>3. q \in InOp /\ ~committing
    BY <2>2, CallAlone DEF InOp, LogWriteCheck
  <2>4. outstanding >= 1
    BY <2>3, ReservationsFinite, FS_EmptySet DEF Reserved
  <2>5. Len(lh) >= Room
    <3>1. TooBig
      BY <2>2, <2>4 DEF LogWriteCheck, OutsideTrans, TypeOK
    <3> QED BY <3>1, SizeAssumption DEF TooBig, Room, TypeOK
  <2>6. ASSUME ~exceeded PROVE left[q] <= LOGSIZE - Room
    <3>1. Len(lh) + Cardinality(Tokens) <= LOGSIZE
      BY <2>3, <2>6, CallAlone DEF Reserved
    <3>2. left[q] <= Cardinality(Tokens) /\ left[q] \in Int
      BY <2>3, ShareBounded, SizeAssumption DEF TypeOK
    <3>3. Len(lh) \in Nat
      BY DEF TypeOK
    <3> QED BY <2>5, <3>1, <3>2, <3>3, ReservationsFinite, Sizes, SizeAssumption
  <2> QED BY <2>2, <2>3, <2>5, <2>6 DEF LogWriteCheck, history
<1> QED BY <1>1, <1>2

\* lh.n stays below Room - 1 plus one for each call that begin_op() lets in,
\* although the capacity test of log_write() is made without the lock
\* (log.c:215-220), and within lh.block[LOGSIZE] while the calls keep to their
\* shares; outstanding is never decremented below zero; and the panics of
\* log.c are out of reach but for a call that finds the log full: if all have
\* kept to their shares, with no more left of its own than the log area lacks
\* of LOGSIZE blocks (log.c:151, 215-218).
THEOREM LogBounds == Spec => []Capacity
<1>1. Init => PanicOnlyWhenFull
  BY DEF Init, PanicOnlyWhenFull
<1>2. Inv /\ PanicOnlyWhenFull /\ [Next]_vars => PanicOnlyWhenFull'
  BY FullNext
<1>3. Inv /\ PanicOnlyWhenFull => Capacity
  BY DEF Inv, BookInv, Capacity
<1> QED BY <1>1, <1>2, <1>3, CacheOwed, PTL DEF Spec

LEMMA StrandedNext == ASSUME Inv, NoStrandedSleeper, [Next]_vars
                      PROVE  NoStrandedSleeper'
<1> SUFFICES ASSUME NEW q \in Proc, pc'[q] = "sleep"
             PROVE  committing' \/ InOp' # {}
  BY DEF NoStrandedSleeper
<1> USE DEF Inv, BookInv
<1>1. CASE \E p \in Proc : BeginSleep(p)
  <2> PICK p \in Proc : BeginSleep(p)
    BY <1>1
  <2>1. boot = "up" /\ InOp' = InOp /\ committing' = committing
    BY DEF BeginSleep, Exclusive, InOp, TypeOK
  <2>2. ASSUME ~committing, InOp = {} PROVE FALSE
    <3>1. lh = <<>> /\ outstanding = 0
      BY <2>1, <2>2, FS_EmptySet DEF DataInv, QuietEmpty, Reserved
    <3>2. Len(lh) + (outstanding + 1) * MAXOPBLOCKS = MAXOPBLOCKS
      BY <3>1, SizeAssumption
    <3> QED BY <2>2, <3>2, SizeAssumption DEF BeginSleep, LogFull
  <2> QED BY <2>1, <2>2
<1>2. CASE \E p \in Proc : EndOp(p)
  <2> PICK p \in Proc : EndOp(p)
    BY <1>2
  <2>1. ~committing
    BY DEF EndOp, Exclusive, InOp
  <2>2. CASE outstanding' = 0
    BY <2>1, <2>2 DEF EndOp
  <2>3. CASE outstanding' # 0
    <3>1. outstanding' = Cardinality(InOp')
      BY BookEndOp DEF Reserved
    <3> QED BY <2>3, <3>1, FS_EmptySet
  <2> QED BY <2>2, <2>3
<1>3. CASE \E p \in Proc : CommitDone(p)
  BY <1>3 DEF CommitDone, Wakeup, TypeOK
<1>4. CASE \E p \in Proc : BeginOp(p)
  BY <1>4 DEF BeginOp, InOp, TypeOK
<1>5. CASE Crash
  BY <1>5 DEF Crash
<1>6. CASE Recover
  BY <1>6, BootAlone DEF Recover, ReadHead, RecoverInstall, RecoverReset, RecoverClear
<1>7. CASE \E p \in Proc : \/ CallBegin(p) \/ Kill(p) \/ LogWriteAppend(p) \/ Commit(p)
                            \/ WriteLogBlock(p) \/ WriteLogEnd(p) \/ CommitHead(p)
                            \/ CommitInstall(p) \/ CommitReset(p) \/ CommitClear(p)
                            \/ \E b \in Blocks, v \in Val : LogWriteCheck(p, b, v)
  <2>1. pc[q] = "sleep" /\ committing' = committing /\ InOp' = InOp
    BY <1>7 DEF CallBegin, Kill, LogWriteAppend, Commit, WriteLogBlock, WriteLogEnd,
       CommitHead, CommitInstall, CommitReset, CommitClear, LogWriteCheck, InOp, TypeOK
  <2> QED BY <2>1 DEF NoStrandedSleeper
<1>8. CASE UNCHANGED vars
  BY <1>8 DEF vars, memVars, NoStrandedSleeper, InOp
<1>9. CASE \E b \in Blocks : Recycle(b)
  BY <1>8, <1>9, RecycleSame
<1> QED BY <1>1, <1>2, <1>3, <1>4, <1>5, <1>6, <1>7, <1>8, <1>9 DEF Next, ProcStep

\* No process is left asleep in begin_op() with nobody to wake it: a call in
\* progress or a commit is there whatever the calls have logged (log.c:124-140,
\* 152-161, 171-176).
THEOREM SleepersHaveWakers == Spec => []NoStrandedSleeper
<1>1. Init => NoStrandedSleeper
  BY DEF Init, NoStrandedSleeper
<1>2. Inv /\ NoStrandedSleeper /\ [Next]_vars => NoStrandedSleeper'
  BY StrandedNext
<1> QED BY <1>1, <1>2, CacheOwed, PTL DEF Spec

-----------------------------------------------------------------------------
(* The three copies of a block *)

\* No transaction so far was longer than the log area.
Fits == Len(lh) <= NLOG - 1 /\ Len(hdr) <= NLOG - 1

\* While write_log() runs, the log blocks written so far hold the updates;
\* until the transaction is erased they all do.
InLog == \A p \in Proc :
           /\ pc[p] = "write_log" => \A i \in 1..tail : logdata[i] = cache[lh[i]]
           /\ pc[p] \in {"write_head", "install"} =>
                \A i \in 1..Len(lh) : logdata[i] = cache[lh[i]]

\* What install_trans() has copied is home.
Installed ==
    /\ (boot = "install" \/ \E p \in Proc : pc[p] = "install") =>
          \A i \in 1..tail : disk[lh[i]] = logdata[i]
    /\ (boot = "clear" \/ \E p \in Proc : pc[p] = "clear") =>
          \A i \in 1..Len(hdr) : disk[hdr[i]] = logdata[i]

Copied == ~overrun => Fits /\ InLog /\ Installed

\* While the transaction fits, every log block is in the log area.
LEMMA NextInSlots ==
    ASSUME TypeOK, Fits, tail < Len(lh)
    PROVE  /\ tail \in Nat /\ lh \in Seq(Blocks)
           /\ tail + 1 \in 1..Len(lh) /\ tail + 1 \in Slots
           /\ lh[tail + 1] \in Blocks
<1>1. tail \in Nat /\ lh \in Seq(Blocks) /\ tail + 1 \in 1..Len(lh)
      /\ lh[tail + 1] \in Blocks /\ Len(lh) \in Nat
  BY NextEntry
<1>2. tail + 1 \in Slots
  BY <1>1, SizeAssumption DEF Slots, Fits
<1> QED BY <1>1, <1>2

\* A step that leaves the log, the cache and the disk alone, and starts none
\* of the loops.
LEMMA CopiedSame ==
    ASSUME TypeOK, Copied,
           UNCHANGED <<lh, hdr, logdata, cache, disk, tail, boot, overrun>>,
           \A p \in Proc : pc'[p] \in {"write_log", "write_head", "install", "clear"}
                             => pc'[p] = pc[p]
    PROVE  Copied'
<1>1. Fits => Fits'
  BY DEF Fits
<1>2. InLog => InLog'
  BY DEF InLog
<1>3. Installed => Installed'
  BY DEF Installed
<1> QED BY <1>1, <1>2, <1>3 DEF Copied

LEMMA CopiedCalls ==
    ASSUME Inv, Copied, NEW p \in Proc,
           \/ CallBegin(p) \/ BeginSleep(p) \/ Kill(p) \/ BeginOp(p)
           \/ EndOp(p) \/ CommitDone(p)
    PROVE  Copied'
<1> USE DEF Inv, BookInv, diskVars, history
<1>1. EndOp(p) => ~committing
  BY DEF EndOp, Exclusive, InOp
<1>2. UNCHANGED <<lh, hdr, logdata, cache, disk, tail, boot, overrun>>
  BY DEF CallBegin, BeginSleep, Kill, BeginOp, EndOp, CommitDone
<1>3. \A q \in Proc : pc'[q] \in {"write_log", "write_head", "install", "clear"}
                         => pc'[q] = pc[q]
  BY <1>1 DEF CallBegin, BeginSleep, Kill, BeginOp, EndOp, CommitDone, Wakeup, TypeOK
<1> QED BY <1>2, <1>3, CopiedSame

LEMMA CopiedReadHead == ASSUME Inv, Copied, ReadHead
                  PROVE  Copied'
<1> SUFFICES ASSUME ~overrun' PROVE Fits' /\ InLog' /\ Installed'
  BY DEF Copied
<1> USE DEF Inv, DataInv, BookInv, ReadHead, history, diskVars, memVars
<1>0. \A q \in Proc : pc[q] = "idle" /\ buf[q] = NoBuf
  BY BootAlone
<1>1. ~overrun /\ Fits /\ InLog /\ Installed
  BY DEF Copied
<1>2. Fits'
  BY <1>1 DEF Fits
<1>3. InLog'
  BY <1>0, <1>1 DEF InLog, TypeOK
<1>4. Installed'
  BY <1>0, <1>1 DEF Installed, TypeOK
<1> QED BY <1>2, <1>3, <1>4

LEMMA CopiedRecoverInstall == ASSUME Inv, Copied, RecoverInstall
                  PROVE  Copied'
<1> SUFFICES ASSUME ~overrun' PROVE Fits' /\ InLog' /\ Installed'
  BY DEF Copied
<1> USE DEF Inv, DataInv, BookInv, RecoverInstall, InstallBlock, WriteHome, LogBlock, history, diskVars, memVars
<1>0. \A q \in Proc : pc[q] = "idle" /\ buf[q] = NoBuf
  BY BootAlone
<1>1. ~overrun /\ Fits /\ InLog /\ Installed
  BY DEF Copied
<1>2. Fits'
  BY <1>1 DEF Fits
<1>3. InLog'
  BY <1>0, <1>1 DEF InLog, TypeOK
<1>4. Installed'
  <2>1. tail + 1 \in 1..Len(lh) /\ tail + 1 \in Slots /\ lh \in Seq(Blocks)
        /\ tail \in Nat
    BY <1>1, NextInSlots
  <2>2. /\ disk' = [disk EXCEPT ![lh[tail + 1]] = logdata[tail + 1]]
        /\ tail' = tail + 1 /\ logdata' = logdata /\ lh' = lh
    BY <2>1
  <2>3. \A i \in 1..tail : disk[lh[i]] = logdata[i]
    BY <1>1 DEF Installed
  <2>4. \A i \in 1..(tail + 1) : disk'[lh[i]] = logdata[i]
    BY <2>1, <2>2, <2>3 DEF Distinct, TypeOK
  <2> QED BY <1>0, <2>2, <2>4 DEF Installed
<1> QED BY <1>2, <1>3, <1>4

LEMMA CopiedRecoverReset == ASSUME Inv, Copied, RecoverReset
                  PROVE  Copied'
<1> SUFFICES ASSUME ~overrun' PROVE Fits' /\ InLog' /\ Installed'
  BY DEF Copied
<1> USE DEF Inv, DataInv, BookInv, RecoverReset, history, diskVars, memVars
<1>0. \A q \in Proc : pc[q] = "idle" /\ buf[q] = NoBuf
  BY BootAlone
<1>1. ~overrun /\ Fits /\ InLog /\ Installed
  BY DEF Copied
<1>2. Fits'
  BY <1>1, SizeAssumption DEF Fits
<1>3. InLog'
  BY <1>0, <1>1 DEF InLog, TypeOK
<1>4. Installed'
  BY <1>0, <1>1 DEF Installed, AtBoot, TypeOK
<1> QED BY <1>2, <1>3, <1>4

LEMMA CopiedRecoverClear == ASSUME Inv, Copied, RecoverClear
                  PROVE  Copied'
<1> SUFFICES ASSUME ~overrun' PROVE Fits' /\ InLog' /\ Installed'
  BY DEF Copied
<1> USE DEF Inv, DataInv, BookInv, RecoverClear, WriteHead, history, diskVars, memVars
<1>0. \A q \in Proc : pc[q] = "idle" /\ buf[q] = NoBuf
  BY BootAlone
<1>1. ~overrun /\ Fits /\ InLog /\ Installed
  BY DEF Copied
<1>2. Fits'
  BY <1>1 DEF Fits
<1>3. InLog'
  BY <1>0, <1>1 DEF InLog, TypeOK
<1>4. Installed'
  BY <1>0, <1>1 DEF Installed, TypeOK
<1> QED BY <1>2, <1>3, <1>4

LEMMA CopiedLogWriteCheck == ASSUME Inv, Copied, NEW p \in Proc, NEW b \in Blocks, NEW v \in Val,
           LogWriteCheck(p, b, v)
                  PROVE  Copied'
<1> SUFFICES ASSUME ~overrun' PROVE Fits' /\ InLog' /\ Installed'
  BY DEF Copied
<1> USE DEF Inv, DataInv, BookInv, LogWriteCheck, history, diskVars, memVars
<1>0. boot = "up" /\ ~committing /\ Committer = {}
  <2>1. p \in InOp
    BY DEF InOp
  <2> QED BY <2>1, CallAlone
<1>1. ~overrun /\ Fits /\ InLog /\ Installed
  BY DEF Copied
<1>2. Fits'
  BY <1>1 DEF Fits
<1>3. InLog'
  BY <1>0, <1>1 DEF InLog, TypeOK, Committer
<1>4. Installed'
  BY <1>0, <1>1 DEF Installed, TypeOK
<1> QED BY <1>2, <1>3, <1>4

LEMMA CopiedLogWriteAppend == ASSUME Inv, Copied, NEW p \in Proc, LogWriteAppend(p)
                  PROVE  Copied'
<1> SUFFICES ASSUME ~overrun' PROVE Fits' /\ InLog' /\ Installed'
  BY DEF Copied
<1> USE DEF Inv, DataInv, BookInv, LogWriteAppend, history, diskVars, memVars
<1>0. boot = "up" /\ ~committing /\ Committer = {}
  <2>1. p \in InOp
    BY DEF InOp
  <2> QED BY <2>1, CallAlone
<1>1. ~overrun /\ Fits /\ InLog /\ Installed
  BY DEF Copied, AddEntry
<1>2. Fits'
  <2>1. CASE buf[p] \in Entries(lh)
    BY <1>1, <2>1 DEF Fits
  <2>2. CASE buf[p] \notin Entries(lh)
    <3>1. lh' \in Seq(Blocks)
      BY BookLogWriteAppend DEF TypeOK
    <3>2. ~(Len(lh') > NLOG - 1)
      <4>1. overrun' = (overrun \/ Len(lh') > NLOG - 1)
        BY <2>2 DEF AddEntry
      <4> QED BY <4>1
    <3>3. Len(lh') \in Nat
      BY <3>1
    <3> QED BY <1>1, <3>2, <3>3, SizeAssumption DEF Fits
  <2> QED BY <2>1, <2>2
<1>3. InLog'
  BY <1>0, <1>1 DEF InLog, TypeOK, Committer
<1>4. Installed'
  BY <1>0, <1>1 DEF Installed, TypeOK, Committer
<1> QED BY <1>2, <1>3, <1>4

LEMMA CopiedCommit == ASSUME Inv, Copied, NEW p \in Proc, Commit(p)
                  PROVE  Copied'
<1> SUFFICES ASSUME ~overrun' PROVE Fits' /\ InLog' /\ Installed'
  BY DEF Copied
<1> USE DEF Inv, DataInv, BookInv, Commit, history, diskVars, memVars
<1>0. /\ boot = "up" /\ committing /\ InOp = {}
      /\ \A q \in Proc : q # p => pc[q] \in {"idle", "begin", "sleep"}
  <2>1. p \in Committer
    BY DEF Committer
  <2> QED BY <2>1, CommitterAlone
<1>1. ~overrun /\ Fits /\ InLog /\ Installed
  BY DEF Copied
<1>2. Fits'
  BY <1>1 DEF Fits
<1>3. InLog'
  <2>1. tail' = 0 /\ pc'[p] \in {"write_log", "done"}
    BY DEF TypeOK
  <2>2. \A q \in Proc : q # p => pc'[q] = pc[q]
    BY DEF TypeOK
  <2> QED BY <1>0, <2>1, <2>2 DEF InLog
<1>4. Installed'
  BY <1>0, <1>1 DEF Installed, TypeOK
<1> QED BY <1>2, <1>3, <1>4

LEMMA CopiedWriteLogBlock == ASSUME Inv, Copied, NEW p \in Proc, WriteLogBlock(p)
                  PROVE  Copied'
<1> SUFFICES ASSUME ~overrun' PROVE Fits' /\ InLog' /\ Installed'
  BY DEF Copied
<1> USE DEF Inv, DataInv, BookInv, WriteLogBlock, WriteHome, history, diskVars, memVars
<1>0. /\ boot = "up" /\ committing /\ InOp = {}
      /\ \A q \in Proc : q # p => pc[q] \in {"idle", "begin", "sleep"}
  <2>1. p \in Committer
    BY DEF Committer
  <2> QED BY <2>1, CommitterAlone
<1>1. ~overrun /\ Fits /\ InLog /\ Installed
  BY DEF Copied
<1>2. Fits'
  BY <1>1 DEF Fits
<1>3. InLog'
  <2>1. /\ tail \in Nat /\ tail + 1 \in Slots
        /\ pc' = pc /\ lh' = lh /\ cache' = cache /\ tail' = tail + 1
        /\ logdata' = [logdata EXCEPT ![tail + 1] = cache[lh[tail + 1]]]
    BY <1>1, NextInSlots
  <2>2. DOMAIN logdata = Slots /\ Len(lh) \in Nat /\ tail < Len(lh)
        /\ Len(lh) <= NLOG - 1
    BY <1>1 DEF TypeOK, Fits
  <2>3. \A i \in 1..tail : logdata[i] = cache[lh[i]]
    BY <1>1 DEF InLog
  <2>4. \A i \in 1..(tail + 1) : logdata'[i] = cache[lh[i]]
    BY <2>1, <2>2, <2>3, SizeAssumption DEF Slots
  <2> HIDE DEF Inv, DataInv, BookInv
  <2> QED BY <1>0, <2>1, <2>4 DEF InLog
<1>4. Installed'
  BY <1>0 DEF Installed
<1> QED BY <1>2, <1>3, <1>4

LEMMA CopiedWriteLogEnd == ASSUME Inv, Copied, NEW p \in Proc, WriteLogEnd(p)
                  PROVE  Copied'
<1> SUFFICES ASSUME ~overrun' PROVE Fits' /\ InLog' /\ Installed'
  BY DEF Copied
<1> USE DEF Inv, DataInv, BookInv, WriteLogEnd, history, diskVars, memVars
<1>0. /\ boot = "up" /\ committing /\ InOp = {}
      /\ \A q \in Proc : q # p => pc[q] \in {"idle", "begin", "sleep"}
  <2>1. p \in Committer
    BY DEF Committer
  <2> QED BY <2>1, CommitterAlone
<1>1. ~overrun /\ Fits /\ InLog /\ Installed
  BY DEF Copied
<1>2. Fits'
  BY <1>1 DEF Fits
<1>3. InLog'
  BY <1>0, <1>1 DEF InLog, TypeOK
<1>4. Installed'
  BY <1>0, <1>1 DEF Installed, TypeOK
<1> QED BY <1>2, <1>3, <1>4

LEMMA CopiedCommitHead == ASSUME Inv, Copied, NEW p \in Proc, CommitHead(p)
                  PROVE  Copied'
<1> SUFFICES ASSUME ~overrun' PROVE Fits' /\ InLog' /\ Installed'
  BY DEF Copied
<1> USE DEF Inv, DataInv, BookInv, CommitHead, WriteHead, history, diskVars, memVars
<1>0. /\ boot = "up" /\ committing /\ InOp = {}
      /\ \A q \in Proc : q # p => pc[q] \in {"idle", "begin", "sleep"}
  <2>1. p \in Committer
    BY DEF Committer
  <2> QED BY <2>1, CommitterAlone
<1>1. ~overrun /\ Fits /\ InLog /\ Installed
  BY DEF Copied
<1>2. Fits'
  BY <1>1 DEF Fits
<1>3. InLog'
  BY <1>0, <1>1 DEF InLog, TypeOK
<1>4. Installed'
  <2>1. tail' = 0 /\ boot' = "up" /\ \A q \in Proc : pc'[q] # "clear"
    BY <1>0 DEF TypeOK
  <2> QED BY <2>1 DEF Installed
<1> QED BY <1>2, <1>3, <1>4

LEMMA CopiedCommitInstall == ASSUME Inv, Copied, NEW p \in Proc, CommitInstall(p)
                  PROVE  Copied'
<1> SUFFICES ASSUME ~overrun' PROVE Fits' /\ InLog' /\ Installed'
  BY DEF Copied
<1> USE DEF Inv, DataInv, BookInv, CommitInstall, InstallBlock, WriteHome, LogBlock, history, diskVars, memVars
<1>0. /\ boot = "up" /\ committing /\ InOp = {}
      /\ \A q \in Proc : q # p => pc[q] \in {"idle", "begin", "sleep"}
  <2>1. p \in Committer
    BY DEF Committer
  <2> QED BY <2>1, CommitterAlone
<1>1. ~overrun /\ Fits /\ InLog /\ Installed
  BY DEF Copied
<1>2. Fits'
  BY <1>1 DEF Fits
<1>3. InLog'
  <2>1. tail + 1 \in 1..Len(lh) /\ tail + 1 \in Slots /\ lh[tail + 1] \in Blocks
    BY <1>1, NextInSlots
  <2>2. logdata[tail + 1] = cache[lh[tail + 1]]
    BY <1>1, <2>1 DEF InLog
  <2>3. cache' = cache
    BY <2>1, <2>2 DEF TypeOK
  <2>4. \A q \in Proc : pc[q] # "write_log"
    BY <1>0
  <2> QED BY <1>1, <2>3, <2>4 DEF InLog
<1>4. Installed'
  <2>1. tail + 1 \in 1..Len(lh) /\ tail + 1 \in Slots /\ lh \in Seq(Blocks)
        /\ tail \in Nat
    BY <1>1, NextInSlots
  <2>2. /\ disk' = [disk EXCEPT ![lh[tail + 1]] = logdata[tail + 1]]
        /\ tail' = tail + 1 /\ logdata' = logdata /\ lh' = lh
    BY <2>1
  <2>3. \A i \in 1..tail : disk[lh[i]] = logdata[i]
    BY <1>1 DEF Installed
  <2>4. \A i \in 1..(tail + 1) : disk'[lh[i]] = logdata[i]
    BY <2>1, <2>2, <2>3 DEF Distinct, TypeOK
  <2>5. boot' = "up" /\ \A q \in Proc : pc'[q] # "clear"
    BY <1>0
  <2> QED BY <2>2, <2>4, <2>5 DEF Installed
<1> QED BY <1>2, <1>3, <1>4

LEMMA CopiedCommitReset == ASSUME Inv, Copied, NEW p \in Proc, CommitReset(p)
                  PROVE  Copied'
<1> SUFFICES ASSUME ~overrun' PROVE Fits' /\ InLog' /\ Installed'
  BY DEF Copied
<1> USE DEF Inv, DataInv, BookInv, CommitReset, history, diskVars, memVars
<1>0. /\ boot = "up" /\ committing /\ InOp = {}
      /\ \A q \in Proc : q # p => pc[q] \in {"idle", "begin", "sleep"}
  <2>1. p \in Committer
    BY DEF Committer
  <2> QED BY <2>1, CommitterAlone
<1>1. ~overrun /\ Fits /\ InLog /\ Installed
  BY DEF Copied
<1>2. Fits'
  BY <1>1, SizeAssumption DEF Fits
<1>3. InLog'
  BY <1>0, <1>1 DEF InLog, TypeOK
<1>4. Installed'
  <2>1. hdr = lh /\ \A i \in 1..Len(lh) : disk[lh[i]] = logdata[i]
    BY <1>1 DEF Erased, Installed
  <2>2. boot' = "up" /\ \A q \in Proc : pc'[q] # "install"
    BY <1>0 DEF TypeOK
  <2> QED BY <2>1, <2>2 DEF Installed
<1> QED BY <1>2, <1>3, <1>4

LEMMA CopiedCommitClear == ASSUME Inv, Copied, NEW p \in Proc, CommitClear(p)
                  PROVE  Copied'
<1> SUFFICES ASSUME ~overrun' PROVE Fits' /\ InLog' /\ Installed'
  BY DEF Copied
<1> USE DEF Inv, DataInv, BookInv, CommitClear, WriteHead, history, diskVars, memVars
<1>0. /\ boot = "up" /\ committing /\ InOp = {}
      /\ \A q \in Proc : q # p => pc[q] \in {"idle", "begin", "sleep"}
  <2>1. p \in Committer
    BY DEF Committer
  <2> QED BY <2>1, CommitterAlone
<1>1. ~overrun /\ Fits /\ InLog /\ Installed
  BY DEF Copied
<1>2. Fits'
  BY <1>1 DEF Fits
<1>3. InLog'
  BY <1>0, <1>1 DEF InLog, TypeOK
<1>4. Installed'
  BY <1>0, <1>1 DEF Installed, TypeOK
<1> QED BY <1>2, <1>3, <1>4

LEMMA CopiedCrash == ASSUME Inv, Copied, Crash
                  PROVE  Copied'
<1> SUFFICES ASSUME ~overrun' PROVE Fits' /\ InLog' /\ Installed'
  BY DEF Copied
<1> USE DEF Inv, DataInv, BookInv, Crash, history, diskVars, memVars
<1>0. TypeOK
  OBVIOUS
<1>1. ~overrun /\ Fits /\ InLog /\ Installed
  BY DEF Copied
<1>2. Fits'
  BY <1>1, SizeAssumption DEF Fits
<1>3. InLog'
  BY <1>0, <1>1 DEF InLog, TypeOK
<1>4. Installed'
  BY <1>0, <1>1 DEF Installed, TypeOK
<1> QED BY <1>2, <1>3, <1>4

LEMMA CopiedInit == Init => Copied
<1> SUFFICES ASSUME Init PROVE Fits /\ InLog /\ Installed
  BY DEF Copied
<1>1. Len(lh) = 0 /\ Len(hdr) = 0
  BY DEF Init
<1> QED BY <1>1, SizeAssumption DEF Init, Fits, InLog, Installed

LEMMA CopiedNext == ASSUME Inv, Copied, [Next]_vars PROVE Copied'
<1>1. CASE Recover
  BY <1>1, CopiedReadHead, CopiedRecoverInstall, CopiedRecoverReset,
     CopiedRecoverClear DEF Recover
<1>2. CASE \E p \in Proc : CallBegin(p) \/ ProcStep(p) \/ Kill(p)
  BY <1>2, CopiedCalls, CopiedLogWriteAppend, CopiedCommit, CopiedWriteLogBlock,
     CopiedWriteLogEnd, CopiedCommitHead, CopiedCommitInstall, CopiedCommitReset,
     CopiedCommitClear
     DEF ProcStep
<1>3. CASE \E p \in Proc, b \in Blocks, v \in Val : LogWriteCheck(p, b, v)
  BY <1>3, CopiedLogWriteCheck
<1>4. CASE UNCHANGED vars
  BY <1>4, CopiedSame DEF vars, memVars, diskVars, history, Inv, BookInv
<1>5. CASE \E b \in Blocks : Recycle(b)
  BY <1>4, <1>5, RecycleSame
<1>6. CASE Crash
  BY <1>6, CopiedCrash
<1> QED BY <1>1, <1>2, <1>3, <1>4, <1>5, <1>6 DEF Next

\* Cache, log and home of every block are related as Copied says, in every
\* state.
THEOREM CopiesAgree == Spec => [](Inv /\ Copied)
<1>1. Init => Inv /\ Copied
  BY BookInit, DataInit, CopiedInit DEF Inv
<1>2. Inv /\ Copied /\ [Next]_vars => (Inv /\ Copied)'
  BY BookNext, DataNext, CopiedNext DEF Inv
<1> QED BY <1>1, <1>2, PTL DEF Spec

-----------------------------------------------------------------------------
(* What a reboot would find *)

\* Recovered reads the header, the log blocks it names, and the other homes.
LEMMA RecoveredSame ==
    ASSUME hdr' = hdr,
           \A i \in 1..Len(hdr) : LogOnDisk(i)' = LogOnDisk(i),
           \A b \in Blocks : b \notin Entries(hdr) => disk'[b] = disk[b]
    PROVE  Recovered' = Recovered
<1>1. Entries(hdr)' = Entries(hdr)
  BY DEF Entries
<1> SUFFICES ASSUME NEW b \in Blocks PROVE Recovered'[b] = Recovered[b]
  BY DEF Recovered
<1>2. CASE b \in Entries(hdr)
  <2> DEFINE k == CHOOSE i \in 1..Len(hdr) : hdr[i] = b
  <2>1. k \in 1..Len(hdr)
    BY <1>2 DEF Entries
  <2>2. Recovered[b] = LogOnDisk(k) /\ Recovered'[b] = LogOnDisk(k)'
    BY <1>1, <1>2 DEF Recovered
  <2> QED BY <2>1, <2>2
<1>3. CASE b \notin Entries(hdr)
  BY <1>1, <1>3 DEF Recovered
<1> QED BY <1>2, <1>3

\* An image that agrees with the log where the header points and with the
\* home blocks elsewhere is the recovered one.
LEMMA RecoveredIs ==
    ASSUME NEW f \in [Blocks -> Val],
           \A i \in 1..Len(hdr) : LogOnDisk(i) = f[hdr[i]],
           \A b \in Blocks : b \notin Entries(hdr) => disk[b] = f[b]
    PROVE  Recovered = f
<1> SUFFICES ASSUME NEW b \in Blocks PROVE Recovered[b] = f[b]
  BY DEF Recovered
<1>1. CASE b \in Entries(hdr)
  <2> DEFINE k == CHOOSE i \in 1..Len(hdr) : hdr[i] = b
  <2>1. k \in 1..Len(hdr) /\ hdr[k] = b
    BY <1>1 DEF Entries
  <2>2. Recovered[b] = LogOnDisk(k)
    BY <1>1 DEF Recovered
  <2> QED BY <2>1, <2>2
<1>2. CASE b \notin Entries(hdr)
  BY <1>2 DEF Recovered
<1> QED BY <1>1, <1>2

\* Once everything the header names is installed, recovery changes nothing.
LEMMA RecoveredInstalled ==
    ASSUME TypeOK, \A i \in 1..Len(hdr) : disk[hdr[i]] = LogOnDisk(i)
    PROVE  Recovered = disk
<1>1. disk \in [Blocks -> Val]
  BY DEF TypeOK
<1> QED BY <1>1, RecoveredIs

LEMMA RecoveredEmpty == ASSUME TypeOK, hdr = <<>> PROVE Recovered = disk
<1>1. Len(hdr) = 0
  OBVIOUS
<1> QED BY <1>1, RecoveredInstalled

\* While the header fits, its log blocks are in the log area.
LEMMA LogOnDiskFits ==
    ASSUME TypeOK, Fits, NEW i \in 1..Len(hdr)
    PROVE  LogOnDisk(i) = logdata[i] /\ LogOnDisk(i)' = logdata'[i]
<1>1. i \in Slots
  BY SizeAssumption DEF Fits, Slots, TypeOK
<1> QED BY <1>1 DEF LogOnDisk

\* A step that writes neither to the log nor to a home that the header does
\* not name.
LEMMA RecoveredKept ==
    ASSUME TypeOK, Fits, UNCHANGED <<hdr, logdata>>,
           \A b \in Blocks : b \notin Entries(hdr) => disk'[b] = disk[b]
    PROVE  Recovered' = Recovered
BY LogOnDiskFits, RecoveredSame

LEMMA DiskSame == ASSUME UNCHANGED <<disk, hdr, logdata>>
                  PROVE  Recovered' = Recovered
BY RecoveredSame DEF LogOnDisk

\* When the log is quiet everything is durable: the last end_op() returns
\* only after its commit (log.c:162-170).  What a reboot finds is then what
\* the cache holds, also after a commit that wrote past the log area.
THEOREM QuietIsDurable == Spec => []QuietDurable
<1>1. Inv => QuietDurable
  <2> SUFFICES ASSUME Inv, boot = "up", outstanding = 0, ~committing
               PROVE  Recovered = cache
    BY DEF QuietDurable
  <2>1. InOp = {} /\ Committer = {}
    BY ReservationsFinite, FS_EmptySet DEF Inv, BookInv, Reserved, Exclusive
  <2>2. lh = <<>> /\ hdr = <<>> /\ dirty = {}
    BY <2>1 DEF Inv, DataInv, QuietEmpty, HeaderEmpty, Pinned, Entries, Committer
  <2>3. Busy = {}
    BY <2>1 DEF Inv, DataInv, Holders, Busy, InOp
  <2>4. TypeOK /\ cache = disk
    BY <2>2, <2>3 DEF Inv, BookInv, DataInv, Pinned, SafeToRecycle, TypeOK
  <2> QED BY <2>2, <2>4, RecoveredEmpty
<1> QED BY <1>1, CacheOwed, PTL

-----------------------------------------------------------------------------
(* Log implements AtomicDisk *)

LEMMA AtomicInit == Init => AD!Init
<1> SUFFICES ASSUME Init PROVE AD!Init
  OBVIOUS
<1>1. TypeOK /\ hdr = <<>>
  BY BookInit DEF BookInv, Init
<1>2. Recovered = disk
  BY <1>1, RecoveredEmpty
<1>3. InOp = {}
  BY DEF Init, InOp
<1> QED BY <1>2, <1>3 DEF Init, AD!Init, Visible

\* A step that keeps the recovered and the visible contents and the calls in
\* progress is a stuttering step of the atomic disk.
LEMMA AtomicStutter ==
    ASSUME Recovered' = Recovered, Visible' = Visible, InOp' = InOp,
           overrun' = overrun
    PROVE  UNCHANGED AD!vars
BY DEF AD!vars

\* Recovery is invisible: it only makes the disk what it is read as.
LEMMA AtomicRecover == ASSUME Inv, Copied, ~overrun, Recover
                       PROVE  UNCHANGED AD!vars
<1> USE DEF Inv, BookInv, DataInv, diskVars
<1>1. TypeOK /\ boot # "up" /\ Inv'
  BY BookNext, DataNext DEF Recover, ReadHead, RecoverInstall, RecoverReset,
     RecoverClear, Next
<1>2. /\ \A q \in Proc : pc[q] = "idle" /\ buf[q] = NoBuf
      /\ Busy = {} /\ dirty = {}
  BY <1>1, BootAlone
<1>3. InOp' = InOp /\ overrun' = overrun
  BY DEF Recover, ReadHead, RecoverInstall, RecoverReset, RecoverClear, InOp, history
<1>. Fits /\ Installed
  BY DEF Copied
<1>4. CASE ReadHead \/ RecoverReset
  <2>1. Recovered' = Recovered
    BY <1>4, DiskSame DEF ReadHead, RecoverReset
  <2>2. Visible' = Visible
    BY <1>1, <1>4, <2>1 DEF ReadHead, RecoverReset, Visible
  <2> QED BY <1>3, <2>1, <2>2, AtomicStutter
<1>5. CASE RecoverInstall
  <2>1. lh = hdr /\ tail + 1 \in 1..Len(lh)
    BY <1>1, <1>5, NextInSlots DEF RecoverInstall, InstallBlock, AtBoot
  <2>2. \A b \in Blocks : b \notin Entries(hdr) => disk'[b] = disk[b]
    BY <1>5, <2>1 DEF RecoverInstall, InstallBlock, WriteHome, Entries, TypeOK
  <2>3. Recovered' = Recovered
    BY <1>1, <1>5, <2>2, RecoveredKept DEF RecoverInstall, InstallBlock
  <2>4. Visible' = Visible
    BY <1>1, <1>5, <2>3 DEF RecoverInstall, Visible
  <2> QED BY <1>3, <2>3, <2>4, AtomicStutter
<1>6. CASE RecoverClear
  <2>1. Recovered = disk
    BY <1>1, <1>6, RecoveredInstalled, LogOnDiskFits DEF RecoverClear, Installed
  <2>2. (TypeOK /\ hdr = <<>>)'
    BY <1>1, <1>6 DEF RecoverClear, WriteHead, AtBoot
  <2>3. Recovered' = disk'
    <3>1. (TypeOK /\ hdr = <<>> => Recovered = disk)'
      BY RecoveredEmpty, PTL
    <3> QED BY <2>2, <3>1
  <2>4. cache = disk
    BY <1>2 DEF Pinned, SafeToRecycle, TypeOK
  <2>5. Visible = disk /\ Visible' = disk
    BY <1>1, <1>6, <2>1, <2>4 DEF RecoverClear, Visible
  <2> QED BY <1>3, <1>6, <2>1, <2>3, <2>5, AtomicStutter DEF RecoverClear
<1> QED BY <1>4, <1>5, <1>6 DEF Recover

\* The steps that change neither disk nor cache nor the calls in progress.
LEMMA AtomicQuiet ==
    ASSUME Inv, NEW p \in Proc, overrun' = overrun,
           \/ CallBegin(p) \/ Kill(p) \/ BeginSleep(p) \/ LogWriteAppend(p)
           \/ Commit(p) \/ WriteLogEnd(p) \/ CommitReset(p) \/ CommitDone(p)
    PROVE  UNCHANGED AD!vars
<1> USE DEF CallBegin, Kill, BeginSleep, LogWriteAppend, Commit, WriteLogEnd,
            CommitReset, CommitDone, diskVars
<1>1. UNCHANGED <<disk, hdr, logdata, cache, boot>>
  OBVIOUS
<1>2. Recovered' = Recovered
  BY <1>1, DiskSame
<1>3. Visible' = Visible
  BY <1>1, <1>2 DEF Visible
<1>4. InOp' = InOp
  BY DEF InOp, Inv, BookInv, TypeOK, Wakeup
<1> QED BY <1>2, <1>3, <1>4, AtomicStutter

\* A call in progress makes the transaction longer than the log area.
LEMMA AtomicDamage ==
    ASSUME Inv, NEW p \in Proc, LogWriteAppend(p), overrun' # overrun
    PROVE  AD!Damage
<1> USE DEF LogWriteAppend, diskVars
<1>1. UNCHANGED <<disk, hdr, logdata, cache, boot>>
  OBVIOUS
<1>2. Recovered' = Recovered /\ Visible' = Visible
  BY <1>1, DiskSame DEF Visible
<1>3. InOp' = InOp /\ p \in InOp
  BY DEF InOp, Inv, BookInv, TypeOK
<1>4. overrun' = TRUE
  <2>1. overrun \in BOOLEAN /\ overrun' \in BOOLEAN /\ (overrun => overrun')
    BY BookLogWriteAppend DEF Inv, BookInv, TypeOK, AddEntry, history
  <2> QED BY <2>1
<1> QED BY <1>2, <1>3, <1>4 DEF AD!Damage

\* Copying to the log, installing and erasing do not change what is read.
LEMMA AtomicCopy ==
    ASSUME Inv, Copied, ~overrun, NEW p \in Proc,
           WriteLogBlock(p) \/ CommitInstall(p) \/ CommitClear(p)
    PROVE  UNCHANGED AD!vars
<1> USE DEF Inv, BookInv, DataInv
<1>1. p \in Committer
  BY DEF WriteLogBlock, CommitInstall, CommitClear, Committer
<1>2. /\ boot = "up" /\ InOp = {} /\ Busy = {}
      /\ \A q \in Proc : q # p => pc[q] \in {"idle", "begin", "sleep"}
  BY <1>1, CommitterAlone
<1>3. InOp' = InOp /\ boot' = boot /\ overrun' = overrun
  BY DEF WriteLogBlock, CommitInstall, CommitClear, InOp, TypeOK, history
<1>. Fits /\ InLog /\ Installed
  BY DEF Copied
<1>4. CASE WriteLogBlock(p)
  <2>1. tail + 1 \in Slots
    BY <1>4, NextInSlots DEF WriteLogBlock
  <2>2. hdr = <<>> /\ Len(hdr) = 0
    BY <1>2, <1>4 DEF HeaderEmpty, WriteLogBlock
  <2>3. Recovered' = Recovered /\ cache' = cache
    BY <1>4, <2>1, <2>2, RecoveredSame DEF WriteLogBlock
  <2> QED BY <1>2, <1>3, <2>3, AtomicStutter DEF Visible
<1>5. CASE CommitInstall(p)
  <2>1. /\ tail + 1 \in 1..Len(lh) /\ tail + 1 \in Slots
        /\ lh[tail + 1] \in Blocks
    BY <1>5, NextInSlots DEF CommitInstall, InstallBlock
  <2>2. hdr = lh /\ logdata[tail + 1] = cache[lh[tail + 1]]
    BY <1>5, <2>1 DEF CommitInstall, InLog, Erased
  <2>3. cache' = cache
    BY <1>5, <2>1, <2>2 DEF CommitInstall, InstallBlock, WriteHome, LogBlock, TypeOK
  <2>4. \A b \in Blocks : b \notin Entries(hdr) => disk'[b] = disk[b]
    BY <1>5, <2>1, <2>2 DEF CommitInstall, InstallBlock, WriteHome, Entries, TypeOK
  <2>5. Recovered' = Recovered
    BY <1>5, <2>4, RecoveredKept DEF CommitInstall, InstallBlock
  <2> QED BY <1>2, <1>3, <2>3, <2>5, AtomicStutter DEF Visible
<1>6. CASE CommitClear(p)
  <2>1. Recovered = disk
    BY <1>6, RecoveredInstalled, LogOnDiskFits DEF CommitClear, Installed
  <2>2. (TypeOK /\ hdr = <<>>)'
    BY <1>6, BookCommitClear DEF CommitClear, WriteHead, Erased
  <2>3. Recovered' = disk'
    <3>1. (TypeOK /\ hdr = <<>> => Recovered = disk)'
      BY RecoveredEmpty, PTL
    <3> QED BY <2>2, <3>1
  <2>4. Recovered' = Recovered /\ cache' = cache
    BY <1>6, <2>1, <2>3 DEF CommitClear
  <2> QED BY <1>2, <1>3, <2>4, AtomicStutter DEF Visible
<1> QED BY <1>4, <1>5, <1>6

LEMMA RecoveredIsCache ==
    (/\ cache \in [Blocks -> Val]
     /\ \A i \in 1..Len(hdr) : LogOnDisk(i) = cache[hdr[i]]
     /\ \A b \in Blocks : b \notin Entries(hdr) => disk[b] = cache[b])
    => Recovered = cache
BY RecoveredIs

\* Writing the header is the commit: no call is in progress, and what a
\* reboot finds becomes what the calls wrote.
LEMMA AtomicCommit == ASSUME Inv, Copied, ~overrun, NEW p \in Proc, CommitHead(p)
                      PROVE  AD!Commit
<1> USE DEF Inv, BookInv, DataInv
<1>1. p \in Committer
  BY DEF CommitHead, Committer
<1>2. boot = "up" /\ InOp = {} /\ Busy = {}
  BY <1>1, CommitterAlone
<1>3. InOp' = InOp
  BY DEF CommitHead, InOp, TypeOK
<1>. Fits /\ InLog
  BY DEF Copied
<1>4. Recovered' = cache
  <2>1. /\ hdr' = lh /\ logdata' = logdata /\ disk' = disk /\ cache' = cache
        /\ \A i \in 1..Len(lh) : logdata[i] = cache[lh[i]]
    BY DEF CommitHead, WriteHead, InLog
  <2>2. \A b \in Blocks : b \notin Entries(lh) => disk[b] = cache[b]
    BY <1>2 DEF Pinned, SafeToRecycle
  <2>. \A i \in 1..Len(lh) : LogOnDisk(i)' = logdata[i]
    <3>1. \A i \in 1..Len(lh) : i \in Slots
      BY SizeAssumption DEF Fits, Slots, TypeOK
    <3> QED BY <2>1, <3>1 DEF LogOnDisk
  <2>3. cache \in [Blocks -> Val]
    BY DEF TypeOK
  <2>4. (/\ cache \in [Blocks -> Val]
         /\ \A i \in 1..Len(hdr) : LogOnDisk(i) = cache[hdr[i]]
         /\ \A b \in Blocks : b \notin Entries(hdr) => disk[b] = cache[b])'
    BY <2>1, <2>2, <2>3 DEF Entries
  <2>5. (Recovered = cache)'
    BY <2>4, RecoveredIsCache, PTL
  <2> QED BY <2>1, <2>5
<1> QED BY <1>2, <1>3, <1>4 DEF AD!Commit, Visible, CommitHead

\* A call's begin, writes and end are those of the atomic disk.
LEMMA AtomicCall ==
    ASSUME Inv, NEW p \in Proc
    PROVE  /\ BeginOp(p) => AD!Begin(p)
           /\ EndOp(p) => AD!End(p)
           /\ \A b \in Blocks, v \in Val : LogWriteCheck(p, b, v) => AD!Write(p, b, v)
<1> USE DEF Inv, BookInv, diskVars
<1>1. ASSUME UNCHANGED <<disk, hdr, logdata>> PROVE Recovered' = Recovered
  BY <1>1, DiskSame
<1>2. ASSUME BeginOp(p) PROVE AD!Begin(p)
  <2>1. InOp' = InOp \cup {p} /\ p \notin InOp
    BY <1>2 DEF BeginOp, InOp, TypeOK
  <2>2. Recovered' = Recovered /\ Visible' = Visible
    BY <1>1, <1>2 DEF BeginOp, Visible
  <2> QED BY <2>1, <2>2 DEF AD!Begin
<1>3. ASSUME EndOp(p) PROVE AD!End(p)
  <2>1. p \in InOp /\ ~committing
    BY <1>3 DEF EndOp, InOp, Exclusive
  <2>2. InOp' = InOp \ {p}
    BY <1>3, <2>1 DEF EndOp, InOp, TypeOK, Wakeup
  <2>3. Recovered' = Recovered /\ Visible' = Visible
    BY <1>1, <1>3 DEF EndOp, Visible
  <2> QED BY <2>1, <2>2, <2>3 DEF AD!End
<1>4. ASSUME NEW b \in Blocks, NEW v \in Val, LogWriteCheck(p, b, v)
      PROVE  AD!Write(p, b, v)
  <2>1. p \in InOp /\ InOp' = InOp
    BY <1>4 DEF LogWriteCheck, InOp, TypeOK
  <2>2. boot = "up" /\ boot' = "up"
    BY <1>4, <2>1, CallAlone DEF LogWriteCheck
  <2>3. Recovered' = Recovered /\ Visible' = [Visible EXCEPT ![b] = v]
    BY <1>1, <1>4, <2>2 DEF LogWriteCheck, Visible
  <2> QED BY <2>1, <2>3 DEF AD!Write
<1> QED BY <1>2, <1>3, <1>4

LEMMA AtomicCrash == ASSUME Crash PROVE AD!Crash
<1>1. Recovered' = Recovered
  BY DiskSame DEF Crash, diskVars
<1>2. InOp' = {}
  BY DEF Crash, InOp
<1>3. Visible' = Recovered'
  BY DEF Crash, Visible
<1> QED BY <1>1, <1>2, <1>3 DEF AD!Crash

LEMMA AtomicNext == ASSUME Inv, Copied, [Next]_vars
                    PROVE  [AD!Next]_(AD!vars)
<1> SUFFICES ASSUME ~overrun PROVE [AD!Next]_(AD!vars)
  BY DEF AD!Next
<1>1. CASE Recover
  BY <1>1, AtomicRecover
<1>2. CASE \E p \in Proc : BeginOp(p) \/ EndOp(p) \/ CommitHead(p)
  <2>1. overrun' = overrun
    BY <1>2 DEF BeginOp, EndOp, CommitHead, history
  <2> QED BY <1>2, <2>1, AtomicCommit, AtomicCall DEF AD!Next, AD!Intact
<1>3. CASE \E p \in Proc : WriteLogBlock(p) \/ CommitInstall(p) \/ CommitClear(p)
  BY <1>3, AtomicCopy
<1>4. CASE \E p \in Proc : LogWriteAppend(p)
  BY <1>4, AtomicQuiet, AtomicDamage DEF AD!Next
<1>5. CASE \E p \in Proc : \/ CallBegin(p) \/ Kill(p) \/ BeginSleep(p)
                            \/ Commit(p) \/ WriteLogEnd(p) \/ CommitReset(p)
                            \/ CommitDone(p)
  <2>1. overrun' = overrun
    BY <1>5 DEF CallBegin, Kill, BeginSleep, Commit, WriteLogEnd, CommitReset,
       CommitDone, history
  <2> QED BY <1>5, <2>1, AtomicQuiet
<1>6. CASE \E p \in Proc, b \in Blocks, v \in Val : LogWriteCheck(p, b, v)
  <2>1. overrun' = overrun
    BY <1>6 DEF LogWriteCheck, history
  <2> QED BY <1>6, <2>1, AtomicCall DEF AD!Next, AD!Intact
<1>7. CASE Crash
  <2>1. overrun' = overrun
    BY <1>7 DEF Crash
  <2> QED BY <1>7, <2>1, AtomicCrash DEF AD!Next, AD!Intact
<1>8. CASE UNCHANGED vars
  <2>1. Recovered' = Recovered
    BY <1>8, DiskSame DEF vars, diskVars
  <2>2. Visible' = Visible /\ InOp' = InOp /\ overrun' = overrun
    BY <1>8, <2>1 DEF vars, memVars, history, Visible, InOp
  <2> QED BY <2>1, <2>2, AtomicStutter
<1>9. CASE \E b \in Blocks : Recycle(b)
  BY <1>8, <1>9, RecycleSame
<1> QED BY <1>1, <1>2, <1>3, <1>4, <1>5, <1>6, <1>7, <1>8, <1>9 DEF Next, ProcStep

\* The log implements the atomic disk, for any number of processes, blocks and
\* crashes and any sizes of the log: until a transaction gets longer than the
\* log area, the next boot finds all the calls up to a moment at which none
\* was in progress, and of the others nothing (log.c:10-14).
THEOREM LogIsAtomic == Spec => AtomicSpec
<1>1. Init => AD!Init
  BY AtomicInit
<1>2. Inv /\ Copied /\ [Next]_vars => [AD!Next]_(AD!vars)
  BY AtomicNext
<1> QED BY <1>1, <1>2, CopiesAgree, PTL DEF Spec, AtomicSpec, AD!Spec

=============================================================================
