----------------------------- MODULE PipeProofs -----------------------------
(***************************************************************************)
(* Proofs about pipes, for any number of processes, any buffer size that   *)
(* divides the range of the counters, and calls of any length.  The second *)
(* part is about Umalloc, which divides the heap of one program.           *)
(***************************************************************************)
EXTENDS Pipe, Umalloc, FiniteSetTheorems, WellFoundedInduction, TLAPS

Holders(e) == {p \in Proc : e \in holds[p]}
Reading == {"read", "read_doze", "read_sleep"}
Writing == {"write", "write_doze", "write_sleep"}
Closing(e) == IF e = "r" THEN "close_r" ELSE "close_w"
Open(e) == IF e = "r" THEN readopen ELSE writeopen

\* The counters are the lengths of the streams modulo their range, and every
\* unread byte is at its position modulo the size of the buffer.
Counters == /\ nread = got % UINT /\ nwrite = sent % UINT
            /\ got <= sent /\ sent <= got + PIPESIZE
            /\ \A s \in got..(sent - 1) : data[s % PIPESIZE] = s

\* A reference for each process that has the end open, and who is in a call
\* has it open and something left to do.
Counted == /\ \A e \in End : ref[e] = Cardinality(Holders(e))
           /\ \A p \in Proc : /\ pc[p] \in Reading => "r" \in holds[p] /\ left[p] > 0
                              /\ pc[p] \in Writing => "w" \in holds[p] /\ left[p] > 0
                              /\ pc[p] = "none" => holds[p] = {}

\* An end is shut once, by the process that dropped its last reference.
ShutOnce == /\ \A e \in End : \A p \in Proc : pc[p] = Closing(e) => Holders(e) = {} /\ Open(e)
            /\ \A e \in End : \A p, q \in Proc : pc[p] = Closing(e) /\ pc[q] = Closing(e) => p = q
            /\ \A e \in End : ~Open(e) => Holders(e) = {}
            /\ freed = (~readopen /\ ~writeopen)

\* What a process found before its step into sleep(), with p->lock, is still so.
Dozing == \A p \in Proc : /\ pc[p] = "read_doze" => Empty /\ writeopen
                          /\ pc[p] = "write_doze" => Full /\ readopen

Inv == TypeOK /\ Counters /\ Counted /\ ShutOnce /\ Dozing /\ NoneStranded

-----------------------------------------------------------------------------
(* Arithmetic of the counters *)

LEMMA DivMod == ASSUME NEW a \in Nat, NEW b \in Nat \ {0}
                PROVE  (\E q \in Nat : a = b * q + (a % b)) /\ a % b \in 0..(b - 1)
<1>1. a = b * (a \div b) + (a % b) /\ a \div b \in Nat
  OBVIOUS
<1>2. a % b \in 0..(b - 1)
  OBVIOUS
<1> QED BY <1>1, <1>2

LEMMA ModUnique == ASSUME NEW a \in Nat, NEW b \in Nat \ {0}, NEW q \in Int,
                          NEW r \in 0..(b - 1), a = b * q + r
                   PROVE  a % b = r
OBVIOUS

LEMMA Sizes == /\ PIPESIZE \in Nat \ {0} /\ UINT \in Nat \ {0} /\ PIPESIZE < UINT
               /\ \E u \in Nat : UINT = PIPESIZE * u
<1> DEFINE r == UINT % PIPESIZE
<1>1. PIPESIZE \in Nat \ {0} /\ UINT \in Nat \ {0} /\ PIPESIZE < UINT /\ r = 0
  BY PipeAssumption
<1>2. PICK u \in Nat : UINT = PIPESIZE * u + r
  BY <1>1, DivMod
<1> HIDE DEF r
<1>3. UINT = PIPESIZE * u
  BY <1>1, <1>2
<1> QED BY <1>1, <1>3

\* data[n % PIPESIZE] is the same byte before and after the counter wraps
\* around, because PIPESIZE divides the counter's range.
LEMMA WrapAround == ASSUME NEW a \in Nat, NEW j \in Nat
                    PROVE  /\ ((a % UINT) + j) % PIPESIZE = (a + j) % PIPESIZE
                           /\ ((a % UINT) + j) % UINT = (a + j) % UINT
<1> DEFINE n == a % UINT
           m == n + j
<1>1. PICK u \in Nat : UINT = PIPESIZE * u
  BY Sizes
<1>2. PICK x \in Nat : a = UINT * x + n
  BY Sizes, DivMod
<1>3. n \in Nat
  BY Sizes, DivMod
<1> HIDE DEF n
<1>4. m \in Nat /\ a + j = UINT * x + m
  BY <1>2, <1>3, Sizes
<1> HIDE DEF m
<1>5. ASSUME NEW b \in Nat \ {0}, NEW k \in Nat, UINT = b * k PROVE m % b = (a + j) % b
  <2> DEFINE r == m % b
  <2>1. PICK y \in Nat : m = b * y + r
    BY <1>4, DivMod
  <2>2. r \in 0..(b - 1)
    BY <1>4, DivMod
  <2> HIDE DEF r
  <2>3. a + j = (b * k) * x + (b * y + r)
    BY <1>4, <1>5, <2>1, <2>2
  <2>4. (b * k) * x = b * (k * x) /\ b * (k * x + y) = b * (k * x) + b * y
    OBVIOUS
  <2>5. a + j = b * (k * x + y) + r /\ k * x + y \in Int /\ a + j \in Nat
    BY <2>2, <2>3, <2>4
  <2> DEFINE q == k * x + y
             c == a + j
  <2> HIDE DEF q, c
  <2>6. c = b * q + r /\ q \in Int /\ c \in Nat
    BY <2>5 DEF q, c
  <2>7. c % b = r
    BY <2>2, <2>6, ModUnique
  <2> QED BY <2>7 DEF c, r
<1>6. UINT = UINT * 1
  BY Sizes
<1> QED BY <1>1, <1>5, <1>6, Sizes DEF m, n

\* Numbers less than b apart are different modulo b.
LEMMA ModApart == ASSUME NEW b \in Nat \ {0}, NEW i \in Nat, NEW j \in Nat,
                         i <= j, j < i + b, i % b = j % b
                  PROVE  i = j
<1>1. PICK x \in Nat : i = b * x + (i % b)
  BY DivMod
<1>2. PICK y \in Nat : j = b * y + (j % b)
  BY DivMod
<1>3. i % b \in Nat
  BY DivMod
<1>4. b * (y - x) = j - i
  BY <1>1, <1>2, <1>3
<1>5. CASE y - x >= 1
  <2>1. b * (y - x) >= b
    BY <1>5
  <2> QED BY <1>4, <2>1
<1>6. CASE y - x <= -1
  <2>1. b * (y - x) <= -b
    BY <1>6
  <2> QED BY <1>4, <2>1
<1>7. CASE y = x
  BY <1>4, <1>7
<1> QED BY <1>5, <1>6, <1>7

\* What pipe.c computes from the counters: how much is stored and how much room
\* is left, and whether the pipe is empty or full.
LEMMA Amounts == ASSUME NEW g \in Nat, NEW s \in Nat, g <= s, s <= g + PIPESIZE
                 PROVE  /\ (s % UINT) + UINT - (g % UINT) \in Nat
                        /\ ((s % UINT) + UINT - (g % UINT)) % UINT = s - g
                        /\ ((g % UINT) + PIPESIZE + UINT - (s % UINT)) % UINT = g + PIPESIZE - s
                        /\ (g % UINT) = (s % UINT) <=> s = g
                        /\ (s % UINT) = ((g % UINT) + PIPESIZE) % UINT <=> s = g + PIPESIZE
<1> DEFINE gm == g % UINT
           sm == s % UINT
<1>1. PICK x \in Nat : g = UINT * x + gm
  BY Sizes, DivMod
<1>2. PICK y \in Nat : s = UINT * y + sm
  BY Sizes, DivMod
<1>3. gm \in 0..(UINT - 1) /\ sm \in 0..(UINT - 1)
  BY Sizes, DivMod
<1>4. (gm + PIPESIZE) % UINT = (g + PIPESIZE) % UINT
  BY Sizes, WrapAround
<1>5. gm = sm <=> s = g
  <2>1. s < g + UINT
    BY Sizes
  <2>2. gm = sm => g = s
    BY <2>1, Sizes, ModApart
  <2> QED BY <2>2
<1>6. sm = (gm + PIPESIZE) % UINT <=> s = g + PIPESIZE
  <2>1. s < (g + PIPESIZE) + UINT /\ g + PIPESIZE < s + UINT /\ g + PIPESIZE \in Nat
    BY Sizes
  <2> QED BY <1>4, <2>1, Sizes, ModApart
<1> HIDE DEF gm, sm
<1>7. (sm + UINT - gm) % UINT = s - g
  <2>1. UINT * (x - y + 1) = UINT * x - UINT * y + UINT
    BY Sizes
  <2>2. sm + UINT - gm = UINT * (x - y + 1) + (s - g)
    BY <1>1, <1>2, <1>3, <2>1, Sizes
  <2>3. sm + UINT - gm \in Nat /\ x - y + 1 \in Int /\ s - g \in 0..(UINT - 1)
    BY <1>3, Sizes
  <2> DEFINE c == sm + UINT - gm
             q == x - y + 1
             r == s - g
  <2> HIDE DEF c, q, r
  <2>4. c = UINT * q + r /\ c \in Nat /\ q \in Int /\ r \in 0..(UINT - 1)
    BY <2>2, <2>3 DEF c, q, r
  <2>5. c % UINT = r
    BY <2>4, Sizes, ModUnique
  <2> QED BY <2>5 DEF c, r
<1>8. (gm + PIPESIZE + UINT - sm) % UINT = g + PIPESIZE - s
  <2>1. UINT * (y - x + 1) = UINT * y - UINT * x + UINT
    BY Sizes
  <2>2. gm + PIPESIZE + UINT - sm = UINT * (y - x + 1) + (g + PIPESIZE - s)
    BY <1>1, <1>2, <1>3, <2>1, Sizes
  <2>3. /\ gm + PIPESIZE + UINT - sm \in Nat /\ y - x + 1 \in Int
        /\ g + PIPESIZE - s \in 0..(UINT - 1)
    BY <1>3, Sizes
  <2> DEFINE c == gm + PIPESIZE + UINT - sm
             q == y - x + 1
             r == g + PIPESIZE - s
  <2> HIDE DEF c, q, r
  <2>4. c = UINT * q + r /\ c \in Nat /\ q \in Int /\ r \in 0..(UINT - 1)
    BY <2>2, <2>3 DEF c, q, r
  <2>5. c % UINT = r
    BY <2>4, Sizes, ModUnique
  <2> QED BY <2>5 DEF c, r
<1> QED BY <1>3, <1>5, <1>6, <1>7, <1>8, Sizes DEF gm, sm

-----------------------------------------------------------------------------
(* The invariant is inductive *)

USE Sizes DEF End, Phase, Reading, Writing

LEMMA Derived == ASSUME TypeOK, Counters
                 PROVE  /\ Stored = sent - got /\ Room = got + PIPESIZE - sent
                        /\ Empty <=> sent = got
                        /\ Full <=> sent = got + PIPESIZE
<1>1. /\ got \in Nat /\ sent \in Nat /\ got <= sent /\ sent <= got + PIPESIZE
      /\ nread = got % UINT /\ nwrite = sent % UINT
  BY DEF TypeOK, Counters
<1>2. /\ (nwrite + UINT - nread) % UINT = sent - got
      /\ (nread + PIPESIZE + UINT - nwrite) % UINT = got + PIPESIZE - sent
      /\ nread = nwrite <=> sent = got
      /\ nwrite = (nread + PIPESIZE) % UINT <=> sent = got + PIPESIZE
  BY <1>1, Amounts, ZenonT(40)
<1> QED BY <1>2 DEF Stored, Room, Empty, Full

LEMMA DerivedNext == ASSUME TypeOK', Counters'
                     PROVE  /\ Empty' <=> sent' = got'
                            /\ Full' <=> sent' = got' + PIPESIZE
BY Amounts, ZenonT(40) DEF TypeOK, Counters, Empty, Full

\* The references of an end are those of the processes that have it open.
LEMMA HoldersFinite == ASSUME NEW S \in SUBSET Proc
                       PROVE  IsFiniteSet(S) /\ Cardinality(S) \in 0..Cardinality(Proc)
BY PipeAssumption, FS_Subset, FS_CardinalityType

LEMMA CallWriteInv == ASSUME Inv, NEW p \in Proc, NEW n \in WriteSizes, CallWrite(p, n) PROVE Inv'
<1> USE DEF CallWrite, Inv, pipeVars, fileVars, history, CanCall
<1>1. Counters'
  BY DEF Counters
<1>2. TypeOK'
  BY PipeAssumption DEF TypeOK, Dozing, Counted
<1>3. Counted'
  BY PipeAssumption DEF TypeOK, Counted, Holders
<1>4. ShutOnce'
  BY DEF TypeOK, ShutOnce, Holders, Closing, Open
<1>5. Dozing'
  BY DEF TypeOK, Dozing, Empty, Full
<1>6. NoneStranded'
  BY DEF TypeOK, NoneStranded, WriterNotStranded, ReaderNotStranded, Dozing, Empty, Full, Counted, ShutOnce, Holders, Closing, Open
<1> QED BY <1>1, <1>2, <1>3, <1>4, <1>5, <1>6

LEMMA CallReadInv == ASSUME Inv, NEW p \in Proc, NEW n \in ReadSizes, CallRead(p, n) PROVE Inv'
<1> USE DEF CallRead, Inv, pipeVars, fileVars, history, CanCall
<1>1. Counters'
  BY DEF Counters
<1>2. TypeOK'
  BY PipeAssumption DEF TypeOK, Dozing, Counted
<1>3. Counted'
  BY PipeAssumption DEF TypeOK, Counted, Holders
<1>4. ShutOnce'
  BY DEF TypeOK, ShutOnce, Holders, Closing, Open
<1>5. Dozing'
  BY DEF TypeOK, Dozing, Empty, Full
<1>6. NoneStranded'
  BY DEF TypeOK, NoneStranded, WriterNotStranded, ReaderNotStranded, Dozing, Empty, Full, Counted, ShutOnce, Holders, Closing, Open
<1> QED BY <1>1, <1>2, <1>3, <1>4, <1>5, <1>6

LEMMA ExitInv == ASSUME Inv, NEW p \in Proc, Exit(p) PROVE Inv'
<1> USE DEF Exit, Inv, pipeVars, fileVars, history
<1>1. Counters'
  BY DEF Counters
<1>2. TypeOK'
  BY PipeAssumption DEF TypeOK, Dozing, Counted
<1>3. Counted'
  BY PipeAssumption DEF TypeOK, Counted, Holders
<1>4. ShutOnce'
  BY DEF TypeOK, ShutOnce, Holders, Closing, Open
<1>5. Dozing'
  BY DEF TypeOK, Dozing, Empty, Full
<1>6. NoneStranded'
  BY DEF TypeOK, NoneStranded, WriterNotStranded, ReaderNotStranded, Dozing, Empty, Full, Counted, ShutOnce, Holders, Closing, Open
<1> QED BY <1>1, <1>2, <1>3, <1>4, <1>5, <1>6

LEMMA ReadEmptyInv == ASSUME Inv, NEW p \in Proc, ReadEmpty(p) PROVE Inv'
<1> USE DEF ReadEmpty, Inv, pipeVars, fileVars, history, Unlocked
<1>1. Counters'
  BY DEF Counters
<1>2. TypeOK'
  BY PipeAssumption DEF TypeOK, Dozing, Counted
<1>3. Counted'
  BY PipeAssumption DEF TypeOK, Counted, Holders
<1>4. ShutOnce'
  BY DEF TypeOK, ShutOnce, Holders, Closing, Open
<1>5. Dozing'
  BY DEF TypeOK, Dozing, Empty, Full
<1>6. NoneStranded'
  BY DEF TypeOK, NoneStranded, WriterNotStranded, ReaderNotStranded, Dozing, Empty, Full, Counted, ShutOnce, Holders, Closing, Open
<1> QED BY <1>1, <1>2, <1>3, <1>4, <1>5, <1>6

LEMMA DozeInv == ASSUME Inv, NEW p \in Proc, Doze(p) PROVE Inv'
<1> USE DEF Doze, Inv, pipeVars, fileVars, history
<1>0. PICK next \in {"read_sleep", "write_sleep"} :
         /\ pc' = [pc EXCEPT ![p] = next]
         /\ next = "read_sleep" => pc[p] = "read_doze"
         /\ next = "write_sleep" => pc[p] = "write_doze"
  OBVIOUS
<1>1. Counters'
  BY DEF Counters
<1>2. TypeOK'
  BY <1>0 DEF TypeOK
<1>3. Counted'
  BY PipeAssumption DEF TypeOK, Counted, Holders
<1>4. ShutOnce'
  BY <1>0 DEF TypeOK, ShutOnce, Holders, Closing, Open
<1>5. Dozing'
  BY DEF TypeOK, Dozing, Empty, Full
<1>6. NoneStranded'
  BY DEF TypeOK, NoneStranded, WriterNotStranded, ReaderNotStranded, Dozing, Empty, Full, Counted, ShutOnce, Holders, Closing, Open
<1> QED BY <1>1, <1>2, <1>3, <1>4, <1>5, <1>6

LEMMA KillInv == ASSUME Inv, NEW p \in Proc, Kill(p) PROVE Inv'
<1> USE DEF Kill, Inv, pipeVars, fileVars, history
<1>1. Counters'
  BY DEF Counters
<1>2. TypeOK'
  BY PipeAssumption DEF TypeOK, Dozing, Counted
<1>3. Counted'
  BY PipeAssumption DEF TypeOK, Counted, Holders
<1>4. ShutOnce'
  BY DEF TypeOK, ShutOnce, Holders, Closing, Open
<1>5. Dozing'
  BY DEF TypeOK, Dozing, Empty, Full
<1>6. NoneStranded'
  BY DEF TypeOK, NoneStranded, WriterNotStranded, ReaderNotStranded, Dozing, Empty, Full, Counted, ShutOnce, Holders, Closing, Open
<1> QED BY <1>1, <1>2, <1>3, <1>4, <1>5, <1>6

LEMMA PipeCloseInv == ASSUME Inv, NEW p \in Proc, PipeClose(p) PROVE Inv'
<1> USE DEF PipeClose, Inv, pipeVars, fileVars, history, Unlocked
<1>0. PICK e \in End : pc[p] = Closing(e)
  BY DEF Closing
<1>1. /\ Holders(e) = {} /\ Open(e) /\ \A q \in Proc \ {p} : pc[q] # Closing(e)
      /\ readopen' = (readopen /\ e # "r") /\ writeopen' = (writeopen /\ e # "w")
      /\ freed' = (~readopen' /\ ~writeopen')
      /\ untold' = (untold /\ e = "r")
      /\ UNCHANGED <<data, nread, nwrite, ref, holds, left, killed, sent, got>>
  BY <1>0 DEF ShutOnce, Closing, Open, TypeOK
<1>2. /\ pc' \in [Proc -> Phase] /\ pc'[p] = "user"
      /\ \A q \in Proc \ {p} :
            pc'[q] = IF e = "w" /\ pc[q] = "read_sleep" THEN "read"
                     ELSE IF e = "r" /\ pc[q] = "write_sleep" THEN "write" ELSE pc[q]
  <2>1. CASE e = "w"
    BY <1>0, <2>1 DEF WakeReaders, Closing, TypeOK
  <2>2. CASE e = "r"
    BY <1>0, <2>2 DEF WakeWriters, Closing, TypeOK
  <2> QED BY <2>1, <2>2
<1>3. \A q \in Proc : e \notin holds[q]
  BY <1>1 DEF Holders
<1>4. Counters'
  BY <1>1 DEF Counters
<1>5. TypeOK'
  BY <1>1, <1>2 DEF TypeOK
<1>6. Counted'
  <2>1. \A f \in End : Holders(f)' = Holders(f)
    BY <1>1 DEF Holders
  <2>2. \A f \in End : ref'[f] = Cardinality(Holders(f)')
    BY <1>1, <2>1 DEF Counted
  <2>3. \A q \in Proc : /\ pc'[q] \in Reading => "r" \in holds'[q] /\ left'[q] > 0
                        /\ pc'[q] \in Writing => "w" \in holds'[q] /\ left'[q] > 0
    BY <1>1, <1>2 DEF Counted
  <2>4. \A q \in Proc : pc'[q] = "none" => holds'[q] = {}
    BY <1>1, <1>2 DEF Counted
  <2> QED BY <2>2, <2>3, <2>4 DEF Counted
<1>7. ShutOnce'
  <2>1. ASSUME NEW f \in End, NEW q \in Proc, pc'[q] = Closing(f)
        PROVE  pc[q] = Closing(f) /\ f # e
    BY <1>0, <1>1, <1>2, <2>1 DEF Closing
  <2>2. \A f \in End : Holders(f)' = Holders(f) /\ (Open(f)' <=> Open(f) /\ f # e)
    BY <1>1 DEF Holders, Open
  <2>3. \A f \in End : ~Open(f)' => Holders(f)' = {}
    BY <1>1, <2>2 DEF ShutOnce
  <2>4. freed' = (~readopen' /\ ~writeopen')
    BY <1>1
  <2> QED BY <2>1, <2>2, <2>3, <2>4 DEF ShutOnce, Closing
<1>8. Dozing'
  BY <1>2 DEF Dozing, Empty, Full, TypeOK
<1>9. NoneStranded'
  <2>1. ASSUME NEW q \in Proc, pc'[q] = "write_sleep" PROVE Full' /\ readopen'
    BY <1>1, <1>2, <2>1 DEF NoneStranded, WriterNotStranded, Full
  <2>2. ASSUME NEW q \in Proc, pc'[q] = "read_sleep" PROVE writeopen' /\ (Empty \/ untold)'
    BY <1>1, <1>2, <1>3, <2>2 DEF NoneStranded, ReaderNotStranded, Empty, Counted
  <2> QED BY <2>1, <2>2 DEF NoneStranded, WriterNotStranded, ReaderNotStranded
<1> QED BY <1>4, <1>5, <1>6, <1>7, <1>8, <1>9


\* filedup() for each end that the parent has open.
LEMMA ForkInv == ASSUME Inv, NEW p \in Proc, NEW q \in Proc, Fork(p, q) PROVE Inv'
<1> USE DEF Fork, CanCall, Inv, pipeVars, fileVars, history
<1>1. p # q /\ holds[q] = {} /\ holds' = [holds EXCEPT ![q] = holds[p]]
  BY DEF Counted
<1>2. \A e \in End : /\ q \notin Holders(e)
                     /\ Holders(e)' = IF e \in holds[p] THEN Holders(e) \cup {q} ELSE Holders(e)
                     /\ p \in Holders(e) <=> e \in holds[p]
  BY <1>1 DEF Holders, TypeOK
<1>3. \A e \in End : ref'[e] = Cardinality(Holders(e)')
  <2>1. SUFFICES ASSUME NEW e \in End PROVE ref'[e] = Cardinality(Holders(e)')
    OBVIOUS
  <2>2. IsFiniteSet(Holders(e)) /\ ref[e] = Cardinality(Holders(e))
    BY HoldersFinite DEF Holders, Counted
  <2>3. CASE e \in holds[p]
    <3>1. Cardinality(Holders(e) \cup {q}) = Cardinality(Holders(e)) + 1
      BY <1>2, <2>2, FS_AddElement
    <3> QED BY <1>2, <2>2, <2>3, <3>1
  <2>4. CASE e \notin holds[p]
    BY <1>2, <2>2, <2>4
  <2> QED BY <2>3, <2>4
<1>4. ref' \in [End -> 0..Cardinality(Proc)]
  <2>1. \A e \in End : Cardinality(Holders(e)') \in 0..Cardinality(Proc)
    BY HoldersFinite DEF Holders
  <2>2. DOMAIN ref' = End /\ ref' = [e \in End |-> ref'[e]]
    OBVIOUS
  <2> QED BY <1>3, <2>1, <2>2
<1>5. Counters'
  BY DEF Counters
<1>6. TypeOK'
  BY <1>1, <1>4 DEF TypeOK
<1>7. Counted'
  BY <1>1, <1>3 DEF TypeOK, Counted
<1>8. ShutOnce'
  <2>1. \A e \in End : Holders(e) = {} => Holders(e)' = {}
    BY <1>2
  <2> QED BY <2>1 DEF TypeOK, ShutOnce, Closing, Open
<1>9. Dozing'
  BY DEF TypeOK, Dozing, Empty, Full
<1>10. NoneStranded'
  BY DEF TypeOK, NoneStranded, WriterNotStranded, ReaderNotStranded, Empty, Full
<1> QED BY <1>5, <1>6, <1>7, <1>8, <1>9, <1>10

\* fileclose(): who drops the last reference goes on to pipeclose(), alone.
LEMMA CloseInv == ASSUME Inv, NEW p \in Proc, NEW e \in End, Close(p, e) PROVE Inv'
<1> USE DEF Close, Inv, pipeVars, fileVars, history
<1>1. /\ pc[p] = "user" /\ p \in Holders(e)
      /\ holds' = [holds EXCEPT ![p] = @ \ {e}] /\ ref' = [ref EXCEPT ![e] = @ - 1]
      /\ pc' = [pc EXCEPT ![p] = IF ref[e] > 1 THEN "user" ELSE Closing(e)]
  BY DEF Holders, Closing
<1>2. /\ Holders(e)' = Holders(e) \ {p}
      /\ \A f \in End \ {e} : Holders(f)' = Holders(f)
  BY <1>1 DEF Holders, TypeOK
<1>3. /\ IsFiniteSet(Holders(e)) /\ ref[e] = Cardinality(Holders(e)) /\ ref[e] \in Nat
      /\ Cardinality(Holders(e)') = ref[e] - 1
      /\ IsFiniteSet(Holders(e)') /\ Cardinality(Holders(e)') \in Nat
  <2>1. IsFiniteSet(Holders(e)) /\ ref[e] = Cardinality(Holders(e)) /\ ref[e] \in Nat
    <3>1. Holders(e) \in SUBSET Proc
      BY DEF Holders
    <3>2. IsFiniteSet(Holders(e)) /\ Cardinality(Holders(e)) \in Nat
      BY <3>1, HoldersFinite, FS_CardinalityType
    <3> QED BY <3>2 DEF Counted
  <2>2. IsFiniteSet(Holders(e) \ {p}) /\ Cardinality(Holders(e) \ {p}) = Cardinality(Holders(e)) - 1
    BY <1>1, <2>1, FS_RemoveElement
  <2>3. Cardinality(Holders(e) \ {p}) \in Nat
    BY <2>2, FS_CardinalityType
  <2> QED BY <1>2, <2>1, <2>2, <2>3
<1>4. \A f \in End : ref'[f] = Cardinality(Holders(f)')
  BY <1>1, <1>2, <1>3, ZenonT(40) DEF Counted, TypeOK
<1>5. ref[e] <= 1 => Holders(e)' = {}
  <2>1. ref[e] <= 1 => Cardinality(Holders(e)') = 0
    BY <1>3
  <2> QED BY <1>3, <2>1, FS_EmptySet
<1>6. Counters'
  BY DEF Counters
<1>7. TypeOK'
  <2>1. ref' \in [End -> 0..Cardinality(Proc)]
    <3>1. ref[e] \in 0..Cardinality(Proc) /\ ref[e] - 1 \in Nat /\ Cardinality(Proc) \in Nat
      BY <1>3, HoldersFinite DEF TypeOK
    <3>2. ref[e] - 1 \in 0..Cardinality(Proc)
      BY <3>1
    <3> QED BY <1>1, <3>2 DEF TypeOK
  <2> QED BY <1>1, <2>1 DEF TypeOK, Closing
<1>8. Counted'
  BY <1>1, <1>4 DEF TypeOK, Counted, Closing
<1>9. ShutOnce'
  <2>1. \A f \in End : Holders(f) = {} => Holders(f)' = {}
    BY <1>2
  <2>2. \A f \in End : Open(f)' = Open(f)
    BY DEF Open
  <2>3. Open(e) /\ \A q \in Proc : pc[q] # Closing(e)
    BY <1>1 DEF ShutOnce
  <2>4. \A q \in Proc, f \in End : pc'[q] = Closing(f) =>
           \/ pc[q] = Closing(f)
           \/ q = p /\ f = e /\ ref[e] <= 1
    BY <1>1, <1>3 DEF TypeOK, Closing
  <2>5. \A q \in Proc, f \in End : pc'[q] = Closing(f) => Holders(f)' = {} /\ Open(f)'
    BY <1>5, <2>1, <2>2, <2>3, <2>4 DEF ShutOnce
  <2>6. \A f \in End : \A q, r \in Proc : pc'[q] = Closing(f) /\ pc'[r] = Closing(f) => q = r
    BY <2>3, <2>4 DEF ShutOnce
  <2> QED BY <2>1, <2>2, <2>5, <2>6 DEF ShutOnce, Closing
<1>10. Dozing'
  BY <1>1 DEF TypeOK, Dozing, Empty, Full, Closing
<1>11. NoneStranded'
  BY <1>1 DEF TypeOK, NoneStranded, WriterNotStranded, ReaderNotStranded, Empty, Full, Closing
<1> QED BY <1>6, <1>7, <1>8, <1>9, <1>10, <1>11

-----------------------------------------------------------------------------
(* pipewrite() and piperead() *)

\* Calls that open and close nothing and send nobody into pipeclose().
LEMMA ShutOnceKept == ASSUME ShutOnce, UNCHANGED <<holds, readopen, writeopen, freed>>,
                             \A q \in Proc : pc'[q] \in {"close_r", "close_w"} => pc'[q] = pc[q]
                      PROVE  ShutOnce'
<1>1. \A e \in End : Holders(e)' = Holders(e) /\ Open(e)' = Open(e)
  BY DEF Holders, Open
<1>2. \A e \in End, q \in Proc : pc'[q] = Closing(e) => pc[q] = Closing(e)
  BY DEF Closing
<1>3. /\ \A e \in End : Closing(e)' = Closing(e)
      /\ freed' = (~readopen' /\ ~writeopen')
  BY DEF Closing, ShutOnce
<1> QED BY <1>1, <1>2, <1>3 DEF ShutOnce

\* The bytes that pipewrite() stores go behind those that wait to be read.
LEMMA PutCounters == ASSUME TypeOK, Counters, NEW k \in Nat, k <= Room, Put(k),
                            UNCHANGED <<nread, got>>
                     PROVE  /\ Counters' /\ sent' = sent + k /\ sent' \in Nat
                            /\ nwrite' \in 0..(UINT - 1)
                            /\ data' \in [0..(PIPESIZE - 1) -> Nat]
<1>1. /\ got \in Nat /\ sent \in Nat /\ got <= sent /\ sent + k <= got + PIPESIZE
      /\ nwrite = sent % UINT /\ nread = got % UINT /\ sent' = sent + k
  BY Derived DEF TypeOK, Counters, Put
<1>2. nwrite' = (sent + k) % UINT /\ nwrite' \in 0..(UINT - 1)
  <2>1. nwrite' = ((sent % UINT) + k) % UINT
    BY <1>1 DEF Put
  <2>2. nwrite' = (sent + k) % UINT /\ sent + k \in Nat
    <3>1. ((sent % UINT) + k) % UINT = (sent + k) % UINT
      BY <1>1, WrapAround
    <3>2. sent + k \in Nat
      BY <1>1
    <3> QED BY <2>1, <3>1, <3>2, Zenon
  <2> QED BY <2>2, DivMod
<1>3. \A j \in Nat : (nwrite + j) % PIPESIZE = (sent + j) % PIPESIZE
  BY <1>1, WrapAround
<1> DEFINE Hit(i) == \E j \in 0..(k - 1) : i = (nwrite + j) % PIPESIZE
           pick(i) == CHOOSE j \in 0..(k - 1) : i = (nwrite + j) % PIPESIZE
<1>4. data' = [i \in 0..(PIPESIZE - 1) |-> IF Hit(i) THEN sent + pick(i) ELSE data[i]]
  BY DEF Put, TypeOK
<1>5. \A i : Hit(i) => pick(i) \in 0..(k - 1) /\ i = (nwrite + pick(i)) % PIPESIZE
  OBVIOUS
<1> HIDE DEF Hit, pick
<1>6. data' \in [0..(PIPESIZE - 1) -> Nat]
  <2>1. ASSUME NEW i \in 0..(PIPESIZE - 1)
        PROVE  (IF Hit(i) THEN sent + pick(i) ELSE data[i]) \in Nat
    <3>1. data[i] \in Nat
      BY DEF TypeOK
    <3>2. Hit(i) => pick(i) \in 0..(k - 1)
      BY <1>5
    <3> QED BY <1>1, <3>1, <3>2
  <2> QED BY <1>4, <2>1
<1>7. ASSUME NEW s \in got..(sent + k - 1) PROVE data'[s % PIPESIZE] = s
  <2> DEFINE i == s % PIPESIZE
  <2>1. i \in 0..(PIPESIZE - 1) /\ s \in Nat
    BY <1>1, DivMod
  <2>2. CASE s < sent
    <3>1. ASSUME Hit(i) PROVE FALSE
      <4>1. PICK j \in 0..(k - 1) : i = (nwrite + j) % PIPESIZE
        BY <3>1 DEF Hit
      <4>2. i = (sent + j) % PIPESIZE /\ sent + j \in Nat
        BY <1>1, <1>3, <4>1
      <4>3. s <= sent + j /\ sent + j < s + PIPESIZE
        BY <1>1, <2>1, <2>2, <4>1
      <4>4. s = sent + j
        BY <2>1, <4>2, <4>3, ModApart
      <4> QED BY <1>1, <2>1, <2>2, <4>1, <4>4
    <3>2. data[i] = s
      BY <1>1, <2>2 DEF Counters
    <3> QED BY <1>4, <2>1, <3>1, <3>2
  <2>3. CASE s >= sent
    <3>1. s - sent \in 0..(k - 1) /\ i = (nwrite + (s - sent)) % PIPESIZE
      <4> DEFINE d == s - sent
      <4>1. d \in 0..(k - 1) /\ d \in Nat /\ sent + d = s
        BY <1>1, <2>1, <2>3
      <4> HIDE DEF d
      <4>2. (nwrite + d) % PIPESIZE = (sent + d) % PIPESIZE
        BY <1>3, <4>1
      <4> QED BY <4>1, <4>2 DEF d
    <3>2. Hit(i)
      BY <3>1 DEF Hit
    <3> DEFINE j == pick(i)
    <3>3. j \in 0..(k - 1) /\ i = (nwrite + j) % PIPESIZE
      BY <1>5, <3>2
    <3> HIDE DEF j
    <3>4. i = (sent + j) % PIPESIZE /\ sent + j \in Nat
      BY <1>1, <1>3, <3>3
    <3>5. s < sent + j + PIPESIZE /\ sent + j < s + PIPESIZE
      BY <1>1, <2>3, <3>1, <3>3
    <3>6. sent + j = s
      <4> DEFINE t == sent + j
      <4>1. t \in Nat /\ s % PIPESIZE = t % PIPESIZE /\ s < t + PIPESIZE /\ t < s + PIPESIZE
        BY <3>4, <3>5
      <4> HIDE DEF t, i
      <4>2. s <= t => s = t
        BY <2>1, <4>1, ModApart
      <4>3. t <= s => t = s
        BY <2>1, <4>1, ModApart
      <4> QED BY <2>1, <4>1, <4>2, <4>3 DEF t
    <3> QED BY <1>4, <2>1, <3>2, <3>6 DEF j
  <2> QED BY <1>1, <2>1, <2>2, <2>3
<1> QED BY <1>1, <1>2, <1>6, <1>7 DEF Counters
LEMMA WriteAllInv == ASSUME Inv, NEW p \in Proc, WriteAll(p) PROVE Inv'
<1> USE DEF Inv, pipeVars, fileVars, history
<1>1. /\ pc[p] = "write" /\ left[p] \in Nat \ {0} /\ left[p] <= Room /\ Put(left[p])
      /\ left' = [left EXCEPT ![p] = 0] /\ untold' = FALSE
      /\ UNCHANGED <<nread, readopen, writeopen, freed, ref, holds, killed, got>>
      /\ \A q \in Proc : pc[q] \notin {"read_doze", "write_doze"}
  BY DEF WriteAll, Unlocked, Counted, TypeOK
<1>2. /\ pc' \in [Proc -> Phase] /\ pc'[p] = "user"
      /\ \A q \in Proc \ {p} : pc'[q] = IF pc[q] = "read_sleep" THEN "read" ELSE pc[q]
  BY DEF WriteAll, WakeReaders, TypeOK
<1>3. /\ Counters' /\ sent' \in Nat /\ nwrite' \in 0..(UINT - 1)
      /\ data' \in [0..(PIPESIZE - 1) -> Nat]
  BY <1>1, PutCounters
<1>4. ~Full
  BY <1>1, Derived DEF TypeOK, Counters
<1>5. TypeOK'
  BY <1>1, <1>2, <1>3 DEF TypeOK
<1>6. Counted'
  BY <1>1, <1>2 DEF Counted, Holders, TypeOK
<1>7. ShutOnce'
  BY <1>1, <1>2, ShutOnceKept
<1>8. Dozing'
  BY <1>1, <1>2 DEF Dozing
<1>9. NoneStranded'
  BY <1>2, <1>4 DEF NoneStranded, WriterNotStranded, ReaderNotStranded
<1> QED BY <1>3, <1>5, <1>6, <1>7, <1>8, <1>9

LEMMA WriteFullInv == ASSUME Inv, NEW p \in Proc, WriteFull(p) PROVE Inv'
<1> USE DEF Inv, pipeVars, fileVars, history
<1>1. /\ pc[p] = "write" /\ left[p] \in Nat /\ left[p] > Room /\ Room \in Nat /\ Put(Room)
      /\ UNCHANGED <<nread, readopen, writeopen, freed, ref, holds, killed, got>>
      /\ \A q \in Proc : pc[q] \notin {"read_doze", "write_doze"}
  BY Derived, SMTT(30) DEF WriteFull, Unlocked, TypeOK, Counters
<1>2. /\ Counters' /\ sent' = sent + Room /\ sent' \in Nat /\ nwrite' \in 0..(UINT - 1)
      /\ data' \in [0..(PIPESIZE - 1) -> Nat]
  BY <1>1, PutCounters
<1>3. sent' = got' + PIPESIZE /\ got \in Nat /\ sent \in Nat
  BY <1>1, <1>2, Derived DEF TypeOK
<1>4. CASE ~readopen \/ killed[p]
  <2>1. /\ left' = [left EXCEPT ![p] = 0] /\ pc' = [pc EXCEPT ![p] = "user"]
        /\ untold' = (untold \/ (killed[p] /\ Room > 0))
    BY <1>4 DEF WriteFull
  <2>2. TypeOK'
    BY <1>1, <1>2, <2>1 DEF TypeOK
  <2>3. Counted'
    BY <1>1, <2>1 DEF Counted, Holders, TypeOK
  <2>4. ShutOnce'
    BY <1>1, <2>1, ShutOnceKept DEF TypeOK
  <2>5. Dozing'
    BY <1>1, <2>1 DEF Dozing, TypeOK
  <2>6. Full'
    BY <1>2, <1>3, <2>2, DerivedNext
  <2>7. ASSUME NEW q \in Proc, pc'[q] = "read_sleep" PROVE (Empty \/ untold)' /\ writeopen'
    <3>1. pc[q] = "read_sleep" /\ "r" \in holds[q] /\ writeopen /\ (Empty \/ untold)
      BY <2>1, <2>7 DEF TypeOK, Counted, NoneStranded, ReaderNotStranded
    <3>2. readopen
      BY <3>1 DEF ShutOnce, Open, Holders
    <3>3. Empty => Room > 0
      <4>1. Room = got + PIPESIZE - sent /\ (Empty <=> sent = got)
        BY Derived
      <4> QED BY <1>3, <4>1
    <3> QED BY <1>1, <1>4, <2>1, <3>1, <3>2, <3>3
  <2>8. NoneStranded'
    BY <1>1, <2>1, <2>6, <2>7 DEF TypeOK, NoneStranded, WriterNotStranded, ReaderNotStranded
  <2> QED BY <1>2, <2>2, <2>3, <2>4, <2>5, <2>8
<1>5. CASE readopen /\ ~killed[p]
  <2>1. /\ left' = [left EXCEPT ![p] = @ - Room] /\ untold' = FALSE
        /\ pc' \in [Proc -> Phase] /\ pc'[p] = "write_doze"
        /\ \A q \in Proc \ {p} : pc'[q] = IF pc[q] = "read_sleep" THEN "read" ELSE pc[q]
    BY <1>5 DEF WriteFull, WakeReaders, TypeOK
  <2>2. left[p] - Room \in Nat \ {0}
    BY <1>1
  <2>3. TypeOK'
    BY <1>1, <1>2, <2>1, <2>2 DEF TypeOK
  <2>4. Counted'
    BY <1>1, <2>1, <2>2 DEF Counted, Holders, TypeOK
  <2>5. ShutOnce'
    BY <1>1, <2>1, ShutOnceKept
  <2>6. Full'
    BY <1>2, <1>3, <2>3, DerivedNext
  <2>7. Dozing'
    BY <1>1, <1>5, <2>1, <2>6 DEF Dozing
  <2>8. NoneStranded'
    BY <1>1, <1>5, <2>1, <2>6 DEF NoneStranded, WriterNotStranded, ReaderNotStranded
  <2> QED BY <1>2, <2>3, <2>4, <2>5, <2>7, <2>8
<1> QED BY <1>4, <1>5 DEF TypeOK

LEMMA ReadSomeInv == ASSUME Inv, NEW p \in Proc, ReadSome(p) PROVE Inv'
<1> USE DEF Inv, pipeVars, fileVars, history
<1>1. /\ pc[p] = "read" /\ left[p] \in Nat \ {0} /\ ~(Empty /\ writeopen)
      /\ left' = [left EXCEPT ![p] = 0]
      /\ UNCHANGED <<data, nwrite, readopen, writeopen, freed, ref, holds, killed, sent, untold>>
      /\ \A q \in Proc : pc[q] \notin {"read_doze", "write_doze"}
  BY DEF ReadSome, Unlocked, Counted, TypeOK
<1>2. /\ pc' \in [Proc -> Phase] /\ pc'[p] = "user"
      /\ \A q \in Proc \ {p} : pc'[q] = IF pc[q] = "write_sleep" THEN "write" ELSE pc[q]
  BY DEF ReadSome, WakeWriters, TypeOK
<1>3. /\ got \in Nat /\ sent \in Nat /\ Stored = sent - got /\ got <= sent
      /\ sent <= got + PIPESIZE /\ nread = got % UINT
  BY Derived DEF TypeOK, Counters
<1> DEFINE k == Min({left[p], Stored})
<1>4. k \in Nat /\ k <= sent - got
  <2>1. \E m \in {left[p], Stored} : \A n \in {left[p], Stored} : m <= n
    BY <1>1, <1>3
  <2>2. k \in {left[p], Stored} /\ k <= Stored
    BY <2>1 DEF Min
  <2> QED BY <1>1, <1>3, <2>2
<1>5. nread' = (nread + k) % UINT /\ got' = got + k
  BY DEF ReadSome
<1> HIDE DEF k
<1>6. nread' = got' % UINT /\ nread' \in 0..(UINT - 1) /\ got' \in Nat
  <2>1. ((got % UINT) + k) % UINT = (got + k) % UINT
    BY <1>3, <1>4, WrapAround
  <2>2. got' \in Nat /\ nread' = got' % UINT
    BY <1>3, <1>4, <1>5, <2>1
  <2> QED BY <2>2, DivMod
<1>7. Counters'
  BY <1>1, <1>3, <1>4, <1>5, <1>6 DEF Counters
<1>8. TypeOK'
  BY <1>1, <1>2, <1>6 DEF TypeOK
<1>9. Counted'
  BY <1>1, <1>2 DEF Counted, Holders, TypeOK
<1>10. ShutOnce'
  BY <1>1, <1>2, ShutOnceKept
<1>11. Dozing'
  BY <1>1, <1>2 DEF Dozing
<1>12. NoneStranded'
  BY <1>1, <1>2 DEF NoneStranded, WriterNotStranded, ReaderNotStranded
<1> QED BY <1>7, <1>8, <1>9, <1>10, <1>11, <1>12

-----------------------------------------------------------------------------
(* Theorems *)

LEMMA InitInv == Init => Inv
<1> SUFFICES ASSUME Init PROVE Inv
  OBVIOUS
<1> USE DEF Init
<1>1. Counters
  <2>1. 0 % UINT = 0
    BY ModUnique
  <2> QED BY <2>1 DEF Counters
<1>2. \A e \in End : Holders(e) = {First} /\ Cardinality(Holders(e)) = 1
  <2>1. \A e \in End : Holders(e) = {First}
    BY PipeAssumption DEF Holders
  <2> QED BY <2>1, FS_Singleton
<1>3. TypeOK
  <2>1. 1 \in 0..Cardinality(Proc)
    <3>1. {First} \in SUBSET Proc /\ Cardinality({First}) = 1
      BY PipeAssumption, FS_Singleton
    <3> QED BY <3>1, HoldersFinite
  <2>2. 0 \in 0..(UINT - 1)
    OBVIOUS
  <2> QED BY <2>1, <2>2, PipeAssumption DEF TypeOK
<1>4. Counted
  BY <1>2 DEF Counted
<1>5. ShutOnce
  BY DEF ShutOnce, Closing, Open
<1>6. Dozing /\ NoneStranded
  BY DEF Dozing, NoneStranded, WriterNotStranded, ReaderNotStranded
<1> QED BY <1>1, <1>3, <1>4, <1>5, <1>6 DEF Inv

LEMMA StepInv == Inv /\ [Next]_vars => Inv'
<1> SUFFICES ASSUME Inv, [Next]_vars PROVE Inv'
  OBVIOUS
<1>1. ASSUME NEW p \in Proc, Step(p) \/ Exit(p) PROVE Inv'
  BY <1>1, PipeCloseInv, WriteAllInv, WriteFullInv, ReadEmptyInv, ReadSomeInv, DozeInv,
     ExitInv DEF Step
<1>2. ASSUME NEW p \in Proc, NEW q \in Proc, Fork(p, q) PROVE Inv'
  BY <1>2, ForkInv
<1>3. ASSUME NEW p \in Proc, NEW e \in End, Close(p, e) PROVE Inv'
  BY <1>3, CloseInv
<1>4. ASSUME NEW p \in Proc, NEW n \in WriteSizes, CallWrite(p, n) PROVE Inv'
  BY <1>4, CallWriteInv
<1>5. ASSUME NEW p \in Proc, NEW n \in ReadSizes, CallRead(p, n) PROVE Inv'
  BY <1>5, CallReadInv
<1>6. ASSUME NEW p \in Killable, Kill(p) PROVE Inv'
  BY <1>6, KillInv, PipeAssumption
<1>7. CASE UNCHANGED vars
  BY <1>7 DEF vars, pipeVars, fileVars, history, Inv, TypeOK, Counters, Counted, Holders,
     ShutOnce, Closing, Open, Dozing, NoneStranded, WriterNotStranded,
     ReaderNotStranded, Empty, Full
<1> QED BY <1>1, <1>2, <1>3, <1>4, <1>5, <1>6, <1>7 DEF Next

\* A pipe is a queue in its own memory (pipe.c): bytes come out once, in order
\* and unharmed by the counters' wrapping, and pipeclose() frees the page only
\* when no process can reach it.
THEOREM PipeIsQueue == Spec => []PipeInv
<1>1. Inv => IsQueue
  <2> SUFFICES ASSUME Inv PROVE IsQueue
    OBVIOUS
  <2> USE DEF Inv
  <2>1. /\ got \in Nat /\ sent \in Nat /\ Stored = sent - got /\ got <= sent
        /\ sent <= got + PIPESIZE /\ nread = got % UINT
    BY Derived DEF TypeOK, Counters
  <2>2. ASSUME NEW i \in 0..(Stored - 1) PROVE data[(nread + i) % PIPESIZE] = got + i
    <3>1. i \in Nat /\ got + i \in got..(sent - 1)
      BY <2>1
    <3>2. (nread + i) % PIPESIZE = (got + i) % PIPESIZE
      BY <2>1, <3>1, WrapAround
    <3> QED BY <3>1, <3>2 DEF Counters
  <2> QED BY <2>1, <2>2 DEF IsQueue
<1>2. Inv => FreedUnreachable
  <2> SUFFICES ASSUME Inv PROVE FreedUnreachable
    OBVIOUS
  <2>1. \A e \in End : ref[e] = Cardinality({p \in Proc : e \in holds[p]})
    BY DEF Inv, Counted, Holders
  <2>2. ASSUME freed, NEW p \in Proc PROVE holds[p] = {} /\ pc[p] \in {"none", "user"}
    <3>1. ~Open("r") /\ ~Open("w")
      BY <2>2 DEF Inv, ShutOnce, Open
    <3>2. Holders("r") = {} /\ Holders("w") = {}
      BY <3>1 DEF Inv, ShutOnce
    <3>3. holds[p] = {}
      BY <3>2 DEF Inv, TypeOK, Holders
    <3>4. pc[p] # Closing("r") /\ pc[p] # Closing("w")
      BY <3>1 DEF Inv, ShutOnce
    <3> QED BY <3>3, <3>4 DEF Inv, TypeOK, Counted, Closing
  <2> QED BY <2>1, <2>2 DEF FreedUnreachable
<1>3. Inv => PipeInv
  BY <1>1, <1>2 DEF Inv, PipeInv
<1> QED BY <1>3, InitInv, StepInv, PTL DEF Spec

\* No wakeup of pipe.c is lost: a writer asleep faces a full pipe that somebody
\* can read, a reader asleep an empty one that somebody can write to, but for
\* what a killed writer stored.
THEOREM WakeupsReach == Spec => []NoneStranded
<1>1. Inv => NoneStranded
  BY DEF Inv
<1> QED BY <1>1, InitInv, StepInv, PTL DEF Spec

-----------------------------------------------------------------------------
(* The allocator of the programs: rings and tilings *)

Headers == [0 .. Units -> [ptr : 0 .. Units, size : Nat]]
RingOf(h, F) == /\ F \subseteq 1 .. Units
                /\ \A a \in F \cup {Base} : Follows(F, a, h[a].ptr)
BlockOf(h, a) == a .. a + h[a].size - 1
\* The blocks that begin at B do not overlap and make up A.
Tiles(h, B, A) == /\ B \subseteq 1 .. Units
                  /\ \A a \in B : h[a].size \in Nat /\ h[a].size >= 1 /\ BlockOf(h, a) \subseteq A
                  /\ \A a, b \in B : a < b => a + h[a].size <= b
                  /\ \A x \in A : \E a \in B : x \in BlockOf(h, a)
Joined(h, F) == \A a \in F : h[a].ptr # a + h[a].size

\* The last block of the ring in front of an address.
Before(F, q, x) == q \in F \cup {Base} /\ q < x /\ \A b \in F : b < x => b <= q

LEMMA SomeBefore ==
    ASSUME NEW F \in SUBSET (1 .. Units), NEW x \in Nat, x >= 1, Units \in Nat
    PROVE  \E q \in F \cup {Base} : Before(F, q, x)
<1> DEFINE R == OpToRel(<, Nat)
           T == {x - q : q \in {a \in F \cup {Base} : a < x}}
<1>1. IsWellFoundedOn(R, Nat)
  BY NatLessThanWellFounded
<1>2. \A y, z \in Nat : z < y => <<z, y>> \in R
  BY DEF OpToRel
<1>3. T \subseteq Nat /\ T # {}
  <2>1. \A a \in F \cup {Base} : a \in Nat
    BY DEF Base
  <2>2. x - Base \in T
    BY DEF Base
  <2>3. T \subseteq Nat
    BY <2>1
  <2> QED BY <2>2, <2>3
<1> HIDE DEF R, T
<1>4. PICK d \in T : \A e \in T : ~ (<<e, d>> \in R)
  BY <1>1, <1>3, WFMin, Zenon
<1>5. \A e \in T : ~(e < d)
  BY <1>2, <1>3, <1>4
<1>6. PICK q \in {a \in F \cup {Base} : a < x} : d = x - q
  BY DEF T
<1>7. ASSUME NEW b \in F, b < x PROVE b <= q
  <2>1. x - b \in T /\ b \in Nat /\ q \in Nat
    BY <1>7, <1>6 DEF T, Base
  <2>2. ~(x - b < x - q)
    BY <1>5, <1>6, <2>1
  <2> QED BY <2>1, <2>2
<1> QED BY <1>6, <1>7 DEF Before

\* free() stops at the last block in front of bp, and nowhere else.
LEMMA BelongsBefore ==
    ASSUME NEW F, RingOf(hdr, F), NEW p \in F \cup {Base}, NEW bp \in 1 .. Units, bp \notin F, Units \in Nat
    PROVE  Belongs(p, bp) <=> Before(F, p, bp)
<1> DEFINE n == hdr[p].ptr
<1>1. F \subseteq 1 .. Units /\ Follows(F, p, n) /\ p \in Nat
  BY DEF RingOf, Base
<1>2. Belongs(p, bp) <=> \/ bp > p /\ bp < n
                         \/ p >= n /\ (bp > p \/ bp < n)
  BY DEF Belongs
<1> HIDE DEF n
<1>3. CASE n \in F /\ p < n /\ \A b \in F : p < b => n <= b
  <2>1. n \in Nat
    BY <1>1, <1>3
  <2>2. ASSUME Belongs(p, bp) PROVE Before(F, p, bp)
    <3>1. bp > p /\ bp < n
      BY <1>1, <1>2, <1>3, <2>1, <2>2
    <3>2. ASSUME NEW b \in F, b < bp PROVE b <= p
      BY <1>1, <1>3, <2>1, <3>1, <3>2
    <3> QED BY <3>1, <3>2 DEF Before
  <2>3. ASSUME Before(F, p, bp) PROVE Belongs(p, bp)
    <3>1. p < bp /\ (n < bp => n <= p)
      BY <1>3, <2>3 DEF Before
    <3>2. n # bp
      BY <1>3
    <3> QED BY <1>1, <1>2, <1>3, <2>1, <3>1, <3>2
  <2> QED BY <2>2, <2>3
<1>4. CASE n = Base /\ \A b \in F : b <= p
  <2>1. Belongs(p, bp) <=> bp > p
    BY <1>1, <1>2, <1>4 DEF Base
  <2>2. Before(F, p, bp) <=> bp > p
    BY <1>1, <1>4 DEF Before
  <2> QED BY <2>1, <2>2
<1> QED BY <1>1, <1>3, <1>4 DEF Follows

\* A block is put in behind p: what follows p follows it.
LEMMA FollowsIn ==
    ASSUME NEW F \in SUBSET (1 .. Units), NEW x \in 1 .. Units, x \notin F, Units \in Nat,
           NEW p, Before(F, p, x), NEW n, Follows(F, p, n)
    PROVE  Follows(F \cup {x}, p, x) /\ Follows(F \cup {x}, x, n)
<1>1. p \in Nat /\ x \in Nat /\ p < x /\ \A b \in F : b \in Nat /\ (b < x => b <= p)
  BY DEF Before, Base
<1>2. Follows(F \cup {x}, p, x)
  <2>1. \A b \in F \cup {x} : p < b => x <= b
    BY <1>1
  <2> QED BY <1>1, <2>1 DEF Follows
<1>3. CASE n \in F /\ p < n /\ \A b \in F : p < b => n <= b
  <2>1. x < n
    BY <1>1, <1>3
  <2>2. \A b \in F \cup {x} : x < b => n <= b
    BY <1>1, <1>3
  <2> QED BY <1>2, <1>3, <2>1, <2>2 DEF Follows
<1>4. CASE n = Base /\ \A b \in F : b <= p
  <2>1. \A b \in F \cup {x} : b <= x
    BY <1>1, <1>4
  <2> QED BY <1>2, <1>4, <2>1 DEF Follows
<1> QED BY <1>3, <1>4 DEF Follows

LEMMA FollowsStays ==
    ASSUME NEW F \in SUBSET (1 .. Units), NEW x \in 1 .. Units, x \notin F, Units \in Nat,
           NEW p, Before(F, p, x), NEW a \in F \cup {Base}, a # p, NEW n, Follows(F, a, n)
    PROVE  Follows(F \cup {x}, a, n)
<1>1. p \in Nat /\ x \in Nat /\ p < x /\ (\A b \in F : b \in Nat /\ b >= 1 /\ (b < x => b <= p)) /\ p \in F \cup {Base}
  BY DEF Before, Base
<1>2. a \in Nat /\ (a < x => a < p)
  BY <1>1 DEF Base
<1>3. CASE n \in F /\ a < n /\ \A b \in F : a < b => n <= b
  <2>1. a < x => n <= p
    <3> SUFFICES ASSUME a < x PROVE n <= p
      OBVIOUS
    <3>1. p \in F
      BY <1>1, <1>2 DEF Base
    <3> QED BY <1>2, <1>3, <3>1
  <2>2. \A b \in F \cup {x} : a < b => n <= b
    BY <1>1, <1>3, <2>1
  <2> QED BY <1>3, <2>2 DEF Follows
<1>4. CASE n = Base /\ \A b \in F : b <= a
  <2>1. ~(a < x)
    <3> SUFFICES ASSUME a < x PROVE FALSE
      OBVIOUS
    <3>1. p \in F
      BY <1>1, <1>2 DEF Base
    <3> QED BY <1>1, <1>2, <1>4, <3>1
  <2>2. \A b \in F \cup {x} : b <= a
    BY <1>1, <1>2, <1>4, <2>1
  <2> QED BY <1>4, <2>2 DEF Follows
<1> QED BY <1>3, <1>4 DEF Follows

PutIn(h, g, F, p, x) == /\ g[p].ptr = x /\ g[x].ptr = h[p].ptr
                        /\ \A c \in (F \cup {Base}) \ {p} : g[c].ptr = h[c].ptr
LEMMA RingGrows ==
    ASSUME NEW h, NEW g, NEW F, RingOf(h, F), NEW x \in 1 .. Units, x \notin F, Units \in Nat,
           NEW p, Before(F, p, x), PutIn(h, g, F, p, x)
    PROVE  RingOf(g, F \cup {x})
<1>1. F \in SUBSET (1 .. Units) /\ p \in F \cup {Base} /\ \A a \in F \cup {Base} : Follows(F, a, h[a].ptr)
  BY DEF RingOf, Before
<1>2. Follows(F \cup {x}, p, g[p].ptr) /\ Follows(F \cup {x}, x, g[x].ptr)
  <2>1. Follows(F, p, h[p].ptr)
    BY <1>1
  <2>2. Follows(F \cup {x}, p, x) /\ Follows(F \cup {x}, x, h[p].ptr)
    BY <1>1, <2>1, FollowsIn
  <2> QED BY <2>2 DEF PutIn
<1>3. ASSUME NEW a \in (F \cup {Base}) \ {p} PROVE Follows(F \cup {x}, a, g[a].ptr)
  <2>1. Follows(F, a, h[a].ptr) /\ a \in F \cup {Base} /\ a # p
    BY <1>1, <1>3
  <2>2. Follows(F \cup {x}, a, h[a].ptr)
    BY <1>1, <2>1, FollowsStays
  <2> QED BY <2>2 DEF PutIn
<1> QED BY <1>1, <1>2, <1>3 DEF RingOf

\* A block is left out: what follows it follows the one before.
LEMMA FollowsOut ==
    ASSUME NEW F \in SUBSET (1 .. Units), Units \in Nat, NEW x \in F, NEW a \in F \cup {Base}, Follows(F, a, x)
    PROVE  /\ \A n : Follows(F, x, n) => Follows(F \ {x}, a, n)
           /\ \A c \in (F \cup {Base}) \ {a, x} : \A n : Follows(F, c, n) => Follows(F \ {x}, c, n)
<1>1. a \in Nat /\ x \in Nat /\ a < x /\ x # Base /\ \A b \in F : b \in Nat /\ b >= 1 /\ (a < b => x <= b)
  BY DEF Follows, Base
<1>2. ASSUME NEW n, Follows(F, x, n) PROVE Follows(F \ {x}, a, n)
  <2>1. CASE n \in F /\ x < n /\ \A b \in F : x < b => n <= b
    <3>1. n \in F \ {x} /\ a < n
      BY <1>1, <2>1
    <3>2. \A b \in F \ {x} : a < b => n <= b
      BY <1>1, <2>1
    <3> QED BY <3>1, <3>2 DEF Follows
  <2>2. CASE n = Base /\ \A b \in F : b <= x
    <3>1. \A b \in F \ {x} : b <= a
      BY <1>1, <2>2
    <3> QED BY <2>2, <3>1 DEF Follows
  <2> QED BY <1>2, <2>1, <2>2 DEF Follows
<1>3. ASSUME NEW c \in (F \cup {Base}) \ {a, x}, NEW n, Follows(F, c, n) PROVE Follows(F \ {x}, c, n)
  <2>1. c \in Nat /\ (c < a \/ c > x)
    BY <1>1 DEF Base
  <2>2. CASE n \in F /\ c < n /\ \A b \in F : c < b => n <= b
    <3>1. n # x
      <4> SUFFICES ASSUME n = x PROVE FALSE
        OBVIOUS
      <4>1. (c < a /\ x <= a) \/ a = Base
        BY <1>1, <2>1, <2>2
      <4> QED BY <1>1, <2>1, <2>2, <4>1 DEF Base
    <3> QED BY <2>2, <3>1 DEF Follows
  <2>3. CASE n = Base /\ \A b \in F : b <= c
    BY <2>3 DEF Follows
  <2> QED BY <1>3, <2>2, <2>3 DEF Follows
<1> QED BY <1>2, <1>3

LeftOut(h, g, F, a, x) == /\ h[a].ptr = x /\ g[a].ptr = h[x].ptr
                          /\ \A c \in (F \cup {Base}) \ {a, x} : g[c].ptr = h[c].ptr
LEMMA RingShrinks ==
    ASSUME NEW h, NEW g, NEW F, RingOf(h, F), NEW x \in F, Units \in Nat, NEW a \in F \cup {Base}, LeftOut(h, g, F, a, x)
    PROVE  RingOf(g, F \ {x})
<1>1. F \in SUBSET (1 .. Units) /\ Follows(F, a, x) /\ \A c \in F \cup {Base} : Follows(F, c, h[c].ptr)
  BY DEF RingOf, LeftOut
<1>2. /\ \A n : Follows(F, x, n) => Follows(F \ {x}, a, n)
      /\ \A c \in (F \cup {Base}) \ {a, x} : \A n : Follows(F, c, n) => Follows(F \ {x}, c, n)
  BY <1>1, FollowsOut
<1>3. ASSUME NEW c \in (F \ {x}) \cup {Base} PROVE Follows(F \ {x}, c, g[c].ptr)
  <2>1. CASE c = a
    BY <1>1, <1>2, <2>1 DEF LeftOut
  <2>2. CASE c # a
    <3>1. c \in (F \cup {Base}) \ {a, x}
      BY <1>1, <2>2 DEF Base
    <3> QED BY <1>1, <1>2, <3>1 DEF LeftOut
  <2> QED BY <2>1, <2>2
<1> QED BY <1>1, <1>3 DEF RingOf

-----------------------------------------------------------------------------

\* What overlaps nothing, and what its blocks are made of, depends on the sizes.
SameSizes(h, g, B) == \A a \in B : g[a].size = h[a].size
LEMMA TilesSame ==
    ASSUME NEW h, NEW g, NEW B, NEW A, Tiles(h, B, A), SameSizes(h, g, B)
    PROVE  Tiles(g, B, A)
BY DEF Tiles, SameSizes, BlockOf

LEMMA TilesMerge ==
    ASSUME NEW h, NEW g, NEW B, NEW A, Tiles(h, B, A), NEW x \in B, NEW n \in B, n = x + h[x].size, Units \in Nat,
           g[x].size = h[x].size + h[n].size, SameSizes(h, g, B \ {x, n})
    PROVE  Tiles(g, B \ {n}, A)
<1>1. /\ B \subseteq 1 .. Units /\ \A a \in B : a \in Nat /\ h[a].size \in Nat /\ h[a].size >= 1
      /\ \A a, b \in B : a < b => a + h[a].size <= b
  BY DEF Tiles
<1>2. x < n /\ g[x].size \in Nat /\ g[x].size >= 1 /\ x + g[x].size = n + h[n].size
  BY <1>1
<1>3. BlockOf(g, x) = BlockOf(h, x) \cup BlockOf(h, n)
  BY <1>1, <1>2 DEF BlockOf
<1>4. \A a \in B \ {x, n} : g[a].size = h[a].size /\ BlockOf(g, a) = BlockOf(h, a)
  BY DEF SameSizes, BlockOf
<1>5. \A a \in B \ {n} : g[a].size \in Nat /\ g[a].size >= 1 /\ BlockOf(g, a) \subseteq A
  <2>1. \A a \in B : BlockOf(h, a) \subseteq A
    BY DEF Tiles
  <2> QED BY <1>1, <1>2, <1>3, <1>4, <2>1
<1>6. ASSUME NEW a \in B \ {n}, NEW b \in B \ {n}, a < b PROVE a + g[a].size <= b
  <2>1. CASE a = x
    <3>1. n < b
      BY <1>1, <1>2, <1>6, <2>1
    <3> QED BY <1>1, <1>2, <2>1, <3>1
  <2>2. CASE a # x
    BY <1>1, <1>4, <1>6, <2>2
  <2> QED BY <2>1, <2>2
<1>7. ASSUME NEW y \in A PROVE \E a \in B \ {n} : y \in BlockOf(g, a)
  <2>1. PICK a \in B : y \in BlockOf(h, a)
    BY DEF Tiles
  <2>2. x \in B \ {n}
    BY <1>1, <1>2
  <2> QED BY <1>3, <1>4, <2>1, <2>2
<1> QED BY <1>1, <1>5, <1>6, <1>7 DEF Tiles

Splits(h, g, B, A, p, nu, c) ==
    /\ Tiles(h, B, A) /\ A \subseteq 1 .. Units /\ p \in B /\ nu \in Nat \ {0} /\ nu < h[p].size
    /\ c = p + h[p].size - nu /\ g[p].size = h[p].size - nu /\ g[c].size = nu /\ SameSizes(h, g, B \ {p})
LEMMA TilesSplit ==
    ASSUME NEW h, NEW g, NEW B, NEW A, NEW p, NEW nu, NEW c, Units \in Nat, Splits(h, g, B, A, p, nu, c)
    PROVE  c \in 1 .. Units /\ c \notin B /\ p < c /\ Tiles(g, B \cup {c}, A)
<1> USE DEF Splits
<1>1. /\ B \subseteq 1 .. Units /\ \A a \in B : a \in Nat /\ h[a].size \in Nat /\ h[a].size >= 1
      /\ \A a, b \in B : a < b => a + h[a].size <= b
      /\ \A a \in B : BlockOf(h, a) \subseteq A
  BY DEF Tiles
<1>2. c \in Nat /\ p < c /\ c < p + h[p].size /\ p + g[p].size = c /\ g[p].size \in Nat /\ g[p].size >= 1 /\ c + nu = p + h[p].size
  BY <1>1
<1>3. c \notin B
  BY <1>1, <1>2
<1>4. c \in BlockOf(h, p)
  BY <1>1, <1>2 DEF BlockOf
<1>5. c \in 1 .. Units
  BY <1>1, <1>4
<1>6. BlockOf(h, p) = BlockOf(g, p) \cup BlockOf(g, c)
  BY <1>1, <1>2 DEF BlockOf
<1>7. \A a \in B \ {p} : g[a].size = h[a].size /\ BlockOf(g, a) = BlockOf(h, a)
  BY DEF SameSizes, BlockOf
<1>8. \A a \in B \cup {c} : g[a].size \in Nat /\ g[a].size >= 1 /\ BlockOf(g, a) \subseteq A
  BY <1>1, <1>2, <1>6, <1>7
<1>9. ASSUME NEW a \in B \cup {c}, NEW b \in B \cup {c}, a < b PROVE a + g[a].size <= b
  <2>1. CASE a = c
    <3>1. b \in B /\ p < b
      BY <1>1, <1>2, <1>9, <2>1
    <3> QED BY <1>1, <1>2, <2>1, <3>1
  <2>2. CASE a = p
    <3>1. CASE b = c
      BY <1>2, <2>2, <3>1
    <3>2. CASE b \in B
      BY <1>1, <1>2, <1>9, <2>2, <3>2
    <3> QED BY <3>1, <3>2
  <2>3. CASE a \in B \ {p}
    <3>1. CASE b = c
      <4>1. a < p
        <5> SUFFICES ASSUME ~(a < p) PROVE FALSE
          OBVIOUS
        <5>1. p < a /\ p + h[p].size <= a
          BY <1>1, <2>3
        <5> QED BY <1>1, <1>2, <1>9, <2>3, <3>1, <5>1
      <4> QED BY <1>1, <1>2, <1>7, <2>3, <3>1, <4>1
    <3>2. CASE b \in B
      BY <1>1, <1>7, <1>9, <2>3, <3>2
    <3> QED BY <3>1, <3>2
  <2> QED BY <2>1, <2>2, <2>3
<1>10. ASSUME NEW y \in A PROVE \E a \in B \cup {c} : y \in BlockOf(g, a)
  <2>1. PICK a \in B : y \in BlockOf(h, a)
    BY DEF Tiles
  <2> QED BY <1>6, <1>7, <2>1
<1> QED BY <1>1, <1>2, <1>3, <1>5, <1>8, <1>9, <1>10 DEF Tiles

Adds(h, g, B, A, k, n) == /\ Tiles(h, B, A) /\ k \in 2 .. Units /\ A \subseteq 2 .. k - 1
                          /\ n \in Nat \ {0} /\ k + n <= Units /\ g[k].size = n /\ SameSizes(h, g, B)
LEMMA TilesAdd ==
    ASSUME NEW h, NEW g, NEW B, NEW A, NEW k, NEW n, Units \in Nat, Adds(h, g, B, A, k, n)
    PROVE  k \notin B /\ Tiles(g, B \cup {k}, A \cup k .. k + n - 1)
<1> USE DEF Adds
<1>1. /\ B \subseteq 1 .. Units /\ \A a \in B : a \in Nat /\ h[a].size \in Nat /\ h[a].size >= 1 /\ g[a].size = h[a].size
      /\ \A a, b \in B : a < b => a + h[a].size <= b
      /\ \A a \in B : BlockOf(h, a) \subseteq A /\ BlockOf(g, a) = BlockOf(h, a)
  BY DEF Tiles, SameSizes, BlockOf
<1>2. ASSUME NEW a \in B PROVE a + h[a].size <= k /\ a < k
  <2>1. a + h[a].size - 1 \in BlockOf(h, a)
    BY <1>1 DEF BlockOf
  <2>2. a + h[a].size - 1 \in 2 .. k - 1
    BY <1>1, <2>1
  <2> QED BY <1>1, <2>2
<1>3. k \notin B
  BY <1>2
<1>4. BlockOf(g, k) = k .. k + n - 1
  BY DEF BlockOf
<1>5. \A a \in B \cup {k} : g[a].size \in Nat /\ g[a].size >= 1 /\ BlockOf(g, a) \subseteq A \cup k .. k + n - 1
  BY <1>1, <1>4
<1>6. ASSUME NEW a \in B \cup {k}, NEW b \in B \cup {k}, a < b PROVE a + g[a].size <= b
  <2>1. a \in B
    BY <1>1, <1>2, <1>6
  <2>2. a + g[a].size <= k /\ (b \in B => a + g[a].size <= b)
    BY <1>1, <1>2, <1>6, <2>1
  <2> QED BY <2>2
<1>7. \A y \in A \cup k .. k + n - 1 : \E a \in B \cup {k} : y \in BlockOf(g, a)
  <2>1. \A y \in A : \E a \in B : y \in BlockOf(h, a)
    BY DEF Tiles
  <2> QED BY <1>1, <1>4, <2>1
<1> QED BY <1>1, <1>3, <1>5, <1>6, <1>7 DEF Tiles

-----------------------------------------------------------------------------

\* The searches go round the ring.  From f the search for a block has met those
\* behind f up to x; the search for a place has yet to come to q before it is
\* back at f.
Tested(f, x, a) == IF f < x THEN f < a /\ a <= x ELSE f # x /\ (f < a \/ a <= x)
Ahead(x, f, q) == IF x < f THEN x <= q /\ q < f ELSE x = f \/ x <= q \/ q < f

LEMMA TestsOneMore ==
    ASSUME NEW F \in SUBSET (1 .. Units), Units \in Nat, NEW f \in F \cup {Base}, NEW x \in F \cup {Base},
           NEW n, Follows(F, x, n), n # f, NEW a \in F, Tested(f, n, a)
    PROVE  a = n \/ Tested(f, x, a)
<1>1. f \in Nat /\ x \in Nat /\ a \in Nat /\ a >= 1 /\ (f \in F \/ f = 0) /\ Base = 0
  BY DEF Base
<1>2. CASE n \in F /\ x < n /\ \A b \in F : x < b => n <= b
  <2>1. n \in Nat /\ (x < a => n <= a) /\ (x < f => n < f)
    BY <1>1, <1>2
  <2> QED BY <1>1, <1>2, <2>1 DEF Tested
<1>3. CASE n = Base /\ \A b \in F : b <= x
  <2>1. a <= x /\ f <= x
    BY <1>1, <1>3
  <2> QED BY <1>1, <1>3, <2>1 DEF Tested
<1> QED BY <1>2, <1>3 DEF Follows

LEMMA AllTested ==
    ASSUME NEW F \in SUBSET (1 .. Units), Units \in Nat, NEW f \in F \cup {Base}, NEW x \in F \cup {Base},
           Follows(F, x, f), NEW a \in F
    PROVE  a = f \/ Tested(f, x, a)
<1>1. f \in Nat /\ x \in Nat /\ a \in Nat /\ a >= 1 /\ Base = 0
  BY DEF Base
<1>2. CASE f \in F /\ x < f /\ \A b \in F : x < b => f <= b
  <2>1. x < a => f <= a
    BY <1>2
  <2> QED BY <1>1, <1>2, <2>1 DEF Tested
<1>3. CASE f = Base /\ \A b \in F : b <= x
  <2>1. a <= x
    BY <1>3
  <2> QED BY <1>1, <1>3, <2>1 DEF Tested
<1> QED BY <1>2, <1>3 DEF Follows

LEMMA StillAhead ==
    ASSUME NEW F \in SUBSET (1 .. Units), Units \in Nat, NEW f \in F \cup {Base}, NEW x \in F \cup {Base},
           NEW q \in F \cup {Base}, q # x, Ahead(x, f, q), NEW n, Follows(F, x, n)
    PROVE  n # f /\ Ahead(n, f, q)
<1>1. f \in Nat /\ x \in Nat /\ q \in Nat /\ Base = 0 /\ (f \in F \/ f = 0) /\ (q \in F \/ q = 0)
  BY DEF Base
<1>2. CASE n \in F /\ x < n /\ \A b \in F : x < b => n <= b
  <2>1. n \in Nat /\ (x < q => n <= q) /\ (x < f => n <= f)
    BY <1>1, <1>2
  <2> QED BY <1>1, <1>2, <2>1 DEF Ahead
<1>3. CASE n = Base /\ \A b \in F : b <= x
  <2>1. q <= x /\ f <= x
    BY <1>1, <1>3
  <2> QED BY <1>1, <1>3, <2>1 DEF Ahead
<1> QED BY <1>2, <1>3 DEF Follows

-----------------------------------------------------------------------------

\* x and the block that follows it become one, where they touch.
Merged(h, g, F, B, x, n) ==
    /\ h[x].ptr = n /\ x + h[x].size = n /\ n \in F
    /\ g[x].ptr = h[n].ptr /\ g[x].size = h[x].size + h[n].size
    /\ \A c \in (B \cup {Base}) \ {x, n} : g[c] = h[c]
JoinedBut(h, F, S) == \A a \in F \ S : h[a].ptr # a + h[a].size
Heap(h, F, B, A) == F \subseteq B /\ RingOf(h, F) /\ Tiles(h, B, A)

LEMMA MergeKeeps ==
    ASSUME Units \in Nat, NEW h, NEW g, NEW F, NEW B, NEW A, NEW x \in F, NEW n, NEW S,
           Heap(h, F, B, A), Merged(h, g, F, B, x, n), JoinedBut(h, F, S), n \notin S
    PROVE  x < n /\ x \in F \ {n} /\ Heap(g, F \ {n}, B \ {n}, A) /\ JoinedBut(g, F \ {n}, S \ {x})
<1>1. /\ F \subseteq B /\ B \subseteq 1 .. Units /\ \A a \in B : a \in Nat /\ h[a].size \in Nat /\ h[a].size >= 1
  <2>1. F \subseteq B /\ Tiles(h, B, A)
    BY DEF Heap
  <2> QED BY <2>1 DEF Tiles
<1>2. x < n /\ n \in F /\ x \in F /\ n \in Nat
  <2>1. x + h[x].size = n /\ n \in F
    BY DEF Merged
  <2>2. x \in Nat /\ h[x].size \in Nat /\ h[x].size >= 1 /\ n \in Nat
    BY <1>1, <2>1
  <2> QED BY <2>1, <2>2
<1>3. RingOf(g, F \ {n})
  <2>1. LeftOut(h, g, F, x, n)
    BY <1>1 DEF Merged, LeftOut
  <2> QED BY <1>2, <2>1, RingShrinks DEF Heap
<1>4. Tiles(g, B \ {n}, A)
  <2>1. SameSizes(h, g, B \ {x, n})
    BY DEF Merged, SameSizes
  <2> QED BY <1>1, <1>2, <2>1, TilesMerge DEF Heap, Merged
<1>5. ASSUME NEW a \in (F \ {n}) \ (S \ {x}) PROVE g[a].ptr # a + g[a].size
  <2>1. CASE a = x
    <3>1. h[n].ptr # n + h[n].size
      BY <1>2 DEF JoinedBut
    <3>2. x + g[x].size = n + h[n].size
      <4>1. x \in Nat /\ h[x].size \in Nat /\ h[n].size \in Nat
        BY <1>1, <1>2
      <4>2. x + h[x].size = n /\ g[x].size = h[x].size + h[n].size
        BY DEF Merged
      <4> QED BY <4>1, <4>2
    <3> QED BY <2>1, <3>1, <3>2 DEF Merged
  <2>2. CASE a # x
    <3>1. g[a] = h[a] /\ a \in F \ S
      BY <1>1, <2>2 DEF Merged
    <3> QED BY <3>1 DEF JoinedBut
  <2> QED BY <2>1, <2>2
<1> QED BY <1>1, <1>2, <1>3, <1>4, <1>5 DEF Heap, JoinedBut

-----------------------------------------------------------------------------

OpType == [fn : {"none", "find", "place"}, nu : Nat, at : Nat, bp : Nat, moved : BOOLEAN, grown : BOOLEAN]
HeapTypes == /\ hdr \in Headers /\ hdr[Base].size = 0
             /\ brk \in 2 .. Units /\ arena \subseteq 2 .. brk - 1
             /\ held \subseteq (1 .. Units) \X Nat /\ nomem \in Nat /\ op \in OpType
             /\ op.fn # "none" => nomem = 0

\* The blocks of the ring, those the program has and the one that is in hand.
Given(d) == {b[1] : b \in d}
Hand(o) == IF o.fn = "place" THEN {o.bp} ELSE {}
Blocks(F, d, o) == F \cup Given(d) \cup Hand(o)
OwnedOnce(h, F, d, o) == /\ \A b \in d : h[b[1]].size = b[2]
                     /\ F \cap Given(d) = {} /\ F \cap Hand(o) = {} /\ Given(d) \cap Hand(o) = {}

\* What malloc() has met was too small; free() has yet to come to the place.
Searching(h, F, f, o) == o.fn = "find" =>
    /\ o.nu >= 1 /\ o.at \in F \cup {Base}
    /\ \A a \in F : Tested(f, o.at, a) => h[a].size < o.nu
    /\ o.grown => \E a \in F : h[a].size >= o.nu
Placing(h, F, f, o) == o.fn = "place" =>
    /\ o.at \in F \cup {Base}
    /\ \E q \in F \cup {Base} : Before(F, q, o.bp) /\ Ahead(o.at, f, q)
    /\ o.moved => o.at # f
    /\ o.nu = 0 \/ h[o.bp].size >= o.nu
NoneFits(h, F, k, m) == m # 0 => k + Larger(m, Chunk) > Units /\ \A a \in F : h[a].size < m

Good(F) == /\ Heap(hdr, F, Blocks(F, held, op), arena) /\ JoinedBut(hdr, F, {})
           /\ freep \in F \cup {Base}
           /\ OwnedOnce(hdr, F, held, op)
           /\ Searching(hdr, F, freep, op) /\ Placing(hdr, F, freep, op)
           /\ NoneFits(hdr, F, brk, nomem)
NoHeap == freep = NULL /\ arena = {} /\ held = {} /\ nomem = 0 /\ op.fn = "none"
HeapIInv == HeapTypes /\ (NoHeap \/ \E F \in SUBSET (1 .. Units) : freep # NULL /\ Good(F))

LEMMA HeapConstants == Units \in Nat /\ Units >= 2 /\ Chunk \in Nat \ {0} /\ Requests \subseteq Nat \ {0} /\ Base = 0 /\ NULL = Units + 1
BY HeapAssumption DEF Base, NULL

LEMMA LargerIs == ASSUME NEW a \in Nat, NEW b \in Nat PROVE Larger(a, b) \in Nat /\ Larger(a, b) >= a /\ Larger(a, b) >= b
BY DEF Larger

LEMMA HeaderAt == ASSUME NEW h \in Headers, NEW a \in 0 .. Units PROVE h[a].ptr \in 0 .. Units /\ h[a].size \in Nat
<1>1. h[a] \in [ptr : 0 .. Units, size : Nat]
  BY DEF Headers
<1> QED BY <1>1

LEMMA HeaderSet ==
    ASSUME NEW h \in Headers, NEW a \in 0 .. Units, NEW q \in 0 .. Units, NEW n \in Nat
    PROVE  LET g == [h EXCEPT ![a] = [ptr |-> q, size |-> n]]
           IN  g \in Headers /\ g[a] = [ptr |-> q, size |-> n] /\ \A c \in 0 .. Units : c # a => g[c] = h[c]
<1>1. [ptr |-> q, size |-> n] \in [ptr : 0 .. Units, size : Nat]
  OBVIOUS
<1> QED BY <1>1 DEF Headers

LEMMA SizeSet ==
    ASSUME NEW h \in Headers, NEW a \in 0 .. Units, NEW n \in Nat
    PROVE  LET g == [h EXCEPT ![a].size = n]
           IN  g \in Headers /\ g[a] = [ptr |-> h[a].ptr, size |-> n] /\ \A c \in 0 .. Units : c # a => g[c] = h[c]
<1> DEFINE g == [h EXCEPT ![a].size = n]
<1>1. h[a] \in [ptr : 0 .. Units, size : Nat] /\ DOMAIN h = 0 .. Units
  BY DEF Headers
<1>2. g[a] = [h[a] EXCEPT !.size = n]
  BY <1>1
<1>3. g[a] = [ptr |-> h[a].ptr, size |-> n]
  BY <1>1, <1>2
<1>4. \A c \in 0 .. Units : c # a => g[c] = h[c]
  BY <1>1
<1>5. g \in Headers
  BY <1>1, <1>3, <1>4 DEF Headers
<1> QED BY <1>3, <1>4, <1>5

LEMMA PtrSet ==
    ASSUME NEW h \in Headers, NEW a \in 0 .. Units, NEW n \in 0 .. Units
    PROVE  LET g == [h EXCEPT ![a].ptr = n]
           IN  g \in Headers /\ g[a] = [ptr |-> n, size |-> h[a].size] /\ \A c \in 0 .. Units : c # a => g[c] = h[c]
<1> DEFINE g == [h EXCEPT ![a].ptr = n]
<1>1. h[a] \in [ptr : 0 .. Units, size : Nat] /\ DOMAIN h = 0 .. Units
  BY DEF Headers
<1>2. g[a] = [h[a] EXCEPT !.ptr = n]
  BY <1>1
<1>3. g[a] = [ptr |-> n, size |-> h[a].size]
  BY <1>1, <1>2
<1>4. \A c \in 0 .. Units : c # a => g[c] = h[c]
  BY <1>1
<1>5. g \in Headers
  BY <1>1, <1>3, <1>4 DEF Headers
<1> QED BY <1>3, <1>4, <1>5

LEMMA SbrkGood ==
    ASSUME HeapTypes, NEW F \in SUBSET (1 .. Units), Good(F), sbrk
    PROVE  HeapTypes' /\ Good(F)'
<1>1. brk' = brk + 1 /\ brk + 1 <= Units /\ UNCHANGED <<hdr, freep, op, arena, held, nomem>>
  BY DEF sbrk, CanGrow
<1>2. HeapTypes'
  <2>1. brk' \in 2 .. Units /\ arena \subseteq 2 .. brk' - 1
    BY <1>1, HeapConstants DEF HeapTypes
  <2> QED BY <1>1, <2>1 DEF HeapTypes
<1>3. NoneFits(hdr, F, brk', nomem)
  <2>1. nomem \in Nat /\ brk \in Nat /\ Larger(nomem, Chunk) \in Nat
    BY HeapConstants, LargerIs DEF HeapTypes
  <2> QED BY <1>1, <2>1, HeapConstants DEF Good, NoneFits
<1> QED BY <1>1, <1>2, <1>3 DEF Good

LEMMA FreeGood ==
    ASSUME HeapTypes, NEW F \in SUBSET (1 .. Units), Good(F), free
    PROVE  HeapTypes' /\ Good(F)'
<1>1. PICK b \in held : op' = Place(0, freep, b[1]) /\ held' = held \ {b}
  BY DEF free
<1>2. op.fn = "none" /\ nomem' = 0 /\ UNCHANGED <<hdr, freep, brk, arena>>
  BY DEF free
<1>3. b[1] \in 1 .. Units /\ b[1] \in Given(held) /\ \A c \in held : c = <<c[1], c[2]>>
  BY DEF HeapTypes, Given
<1>4. Given(held') = Given(held) \ {b[1]}
  <2>1. \A c \in held : c[1] = b[1] => c = b
    BY <1>3 DEF Good, OwnedOnce
  <2> QED BY <1>1, <2>1 DEF Given
<1>5. freep \in F \cup {Base} /\ freep \in Nat
  BY HeapConstants DEF Good
<1>6. op' = [fn |-> "place", nu |-> 0, at |-> freep, bp |-> b[1], moved |-> FALSE, grown |-> FALSE]
  BY <1>1 DEF Place, NoCall
<1>7. Hand(op') = {b[1]} /\ Hand(op) = {}
  BY <1>2, <1>6 DEF Hand
<1>8. HeapTypes'
  <2>1. op' \in OpType
    BY <1>3, <1>5, <1>6 DEF OpType
  <2> QED BY <1>1, <1>2, <2>1 DEF HeapTypes
<1>9. Blocks(F, held', op') = Blocks(F, held, op)
  BY <1>3, <1>4, <1>7 DEF Blocks
<1>10. OwnedOnce(hdr, F, held', op')
  BY <1>1, <1>3, <1>4, <1>7 DEF OwnedOnce, Good
<1>11. Searching(hdr, F, freep, op') /\ NoneFits(hdr, F, brk, nomem')
  BY <1>2, <1>6 DEF Searching, NoneFits
<1>12. Placing(hdr, F, freep, op')
  <2>1. PICK q \in F \cup {Base} : Before(F, q, b[1])
    <3>1. \A x \in Nat : x >= 1 => \E q \in F \cup {Base} : Before(F, q, x)
      BY HeapConstants, SomeBefore
    <3>2. b[1] \in Nat /\ b[1] >= 1
      BY <1>3, HeapConstants
    <3> QED BY <3>1, <3>2
  <2>2. Ahead(freep, freep, q)
    BY <1>5 DEF Ahead
  <2> QED BY <1>5, <1>6, <2>1, <2>2 DEF Placing
<1> QED BY <1>2, <1>5, <1>8, <1>9, <1>10, <1>11, <1>12 DEF Good

LEMMA PassesGood ==
    ASSUME HeapTypes, NEW F \in SUBSET (1 .. Units), Good(F), passes
    PROVE  HeapTypes' /\ Good(F)'
<1> DEFINE n == hdr[op.at].ptr
<1>1. /\ op.fn = "place" /\ ~Belongs(op.at, op.bp) /\ op' = [op EXCEPT !.at = n, !.moved = TRUE]
      /\ UNCHANGED <<hdr, freep, brk, arena, held, nomem>>
  BY DEF passes
<1>2. /\ RingOf(hdr, F) /\ freep \in F \cup {Base} /\ op.at \in F \cup {Base} /\ op.bp \notin F /\ op.bp \in 1 .. Units
  <2>1. op.bp \in Blocks(F, held, op) /\ op.bp \in Hand(op)
    BY <1>1 DEF Blocks, Hand
  <2>2. Blocks(F, held, op) \subseteq 1 .. Units /\ RingOf(hdr, F)
    BY DEF Good, Heap, Tiles
  <2> QED BY <1>1, <2>1, <2>2 DEF Good, Placing, OwnedOnce
<1>3. PICK q \in F \cup {Base} : Before(F, q, op.bp) /\ Ahead(op.at, freep, q)
  BY <1>1 DEF Good, Placing
<1>4. Follows(F, op.at, n)
  BY <1>2 DEF RingOf
<1>5. n \in F \cup {Base}
  BY <1>4 DEF Follows
<1>6. q # op.at
  BY <1>1, <1>2, <1>3, HeapConstants, BelongsBefore
<1> HIDE DEF n
<1>7. n # freep /\ Ahead(n, freep, q)
  BY <1>2, <1>3, <1>4, <1>6, HeapConstants, StillAhead
<1>8. /\ op' \in OpType /\ op'.fn = "place" /\ op'.at = n /\ op'.bp = op.bp /\ op'.nu = op.nu
  <2>1. F \subseteq 1 .. Units /\ Base = 0
    BY HeapConstants
  <2>2. n \in Nat
    BY <1>5, <2>1
  <2>3. op \in OpType
    BY DEF HeapTypes
  <2> QED BY <1>1, <2>2, <2>3 DEF OpType
<1>9. HeapTypes'
  BY <1>1, <1>8 DEF HeapTypes
<1>10. Hand(op') = Hand(op)
  BY <1>1, <1>8 DEF Hand
<1>11. Searching(hdr, F, freep, op')
  BY <1>8 DEF Searching
<1>12. Placing(hdr, F, freep, op')
  BY <1>1, <1>3, <1>5, <1>7, <1>8 DEF Placing, Good
<1> QED BY <1>1, <1>9, <1>10, <1>11, <1>12 DEF Good, Blocks, OwnedOnce

LEMMA LooksGood ==
    ASSUME HeapTypes, NEW F \in SUBSET (1 .. Units), Good(F), looks
    PROVE  HeapTypes' /\ Good(F)'
<1> DEFINE n == hdr[op.at].ptr
<1>1. /\ op.fn = "find" /\ hdr[n].size < op.nu /\ n # freep /\ op' = [op EXCEPT !.at = n]
      /\ UNCHANGED <<hdr, freep, brk, arena, held, nomem>>
  BY DEF looks
<1>2. RingOf(hdr, F) /\ freep \in F \cup {Base} /\ op.at \in F \cup {Base}
  BY <1>1 DEF Good, Heap, Searching
<1>3. Follows(F, op.at, n)
  BY <1>2 DEF RingOf
<1>4. n \in F \cup {Base}
  BY <1>3 DEF Follows
<1> HIDE DEF n
<1>5. \A a \in F : Tested(freep, n, a) => a = n \/ Tested(freep, op.at, a)
  BY <1>1, <1>2, <1>3, HeapConstants, TestsOneMore
<1>6. /\ op' \in OpType /\ op'.fn = "find" /\ op'.at = n /\ op'.grown = op.grown /\ op'.nu = op.nu
  <2>1. n \in Nat /\ op \in OpType
    BY <1>4, HeapConstants DEF HeapTypes
  <2> QED BY <1>1, <2>1 DEF OpType
<1>7. HeapTypes'
  BY <1>1, <1>6 DEF HeapTypes
<1>8. Hand(op') = Hand(op)
  BY <1>1, <1>6 DEF Hand
<1>9. Placing(hdr, F, freep, op')
  BY <1>6 DEF Placing
<1>10. Searching(hdr, F, freep, op')
  BY <1>1, <1>4, <1>5, <1>6 DEF Searching, Good
<1> QED BY <1>1, <1>7, <1>8, <1>9, <1>10 DEF Good, Blocks, OwnedOnce

\* The first call makes the ring; every call begins behind freep.
LEMMA MallocGood ==
    ASSUME HeapTypes, malloc, NEW F \in SUBSET (1 .. Units), (Good(F) /\ freep # NULL) \/ (NoHeap /\ F = {})
    PROVE  HeapTypes' /\ Good(F)' /\ freep' # NULL
<1>1. op.fn = "none" /\ nomem' = 0 /\ UNCHANGED <<brk, arena, held>>
  BY DEF malloc
<1>2. PICK nu \in Requests : op' = Find(nu, freep', FALSE)
  BY DEF malloc
<1>3. nu \in Nat /\ nu >= 1
  BY HeapConstants
<1>4. op' = [fn |-> "find", nu |-> nu, at |-> freep', bp |-> Base, moved |-> FALSE, grown |-> FALSE]
  BY <1>2 DEF Find, NoCall
<1>5. hdr' \in Headers /\ hdr'[Base].size = 0
  <2>1. CASE freep = NULL
    <3>1. hdr' = [hdr EXCEPT ![Base] = [ptr |-> Base, size |-> 0]]
      BY <2>1 DEF malloc
    <3>2. [ptr |-> Base, size |-> 0] \in [ptr : 0 .. Units, size : Nat] /\ Base \in 0 .. Units
      BY HeapConstants
    <3> QED BY <3>1, <3>2 DEF HeapTypes, Headers
  <2>2. CASE freep # NULL
    BY <2>2 DEF malloc, HeapTypes
  <2> QED BY <2>1, <2>2
<1>6. /\ Heap(hdr', F, Blocks(F, held, op), arena) /\ JoinedBut(hdr', F, {})
      /\ freep' \in F \cup {Base} /\ OwnedOnce(hdr', F, held, op)
  <2>1. CASE Good(F) /\ freep # NULL
    <3>1. hdr' = hdr /\ freep' = freep
      BY <2>1 DEF malloc
    <3> QED BY <2>1, <3>1 DEF Good
  <2>2. CASE NoHeap /\ F = {}
    <3>1. hdr' = [hdr EXCEPT ![Base] = [ptr |-> Base, size |-> 0]] /\ freep' = Base
      BY <2>2 DEF malloc, NoHeap
    <3>2. held = {} /\ arena = {} /\ Given(held) = {} /\ Hand(op) = {}
      BY <1>1, <2>2 DEF NoHeap, Given, Hand
    <3>3. hdr'[Base].ptr = Base
      BY <3>1, HeapConstants DEF HeapTypes, Headers
    <3>4. Heap(hdr', F, Blocks(F, held, op), arena)
      BY <2>2, <3>2, <3>3 DEF Heap, RingOf, Tiles, Follows, Blocks
    <3> QED BY <2>2, <3>1, <3>2, <3>4 DEF JoinedBut, OwnedOnce
  <2> QED BY <2>1, <2>2
<1>7. freep' \in Nat /\ freep' # NULL
  BY <1>6, HeapConstants
<1>8. HeapTypes'
  <2>1. op' \in OpType
    BY <1>3, <1>4, <1>7, HeapConstants DEF OpType
  <2> QED BY <1>1, <1>5, <2>1 DEF HeapTypes
<1>9. Hand(op') = Hand(op)
  BY <1>1, <1>4 DEF Hand
<1>10. Placing(hdr', F, freep', op') /\ NoneFits(hdr', F, brk, nomem')
  BY <1>1, <1>4 DEF Placing, NoneFits
<1>11. Searching(hdr', F, freep', op')
  <2>1. \A a : ~Tested(freep', freep', a)
    BY <1>7 DEF Tested
  <2> QED BY <1>3, <1>4, <1>6, <2>1 DEF Searching
<1> QED BY <1>1, <1>6, <1>7, <1>8, <1>9, <1>10, <1>11 DEF Good, Blocks, OwnedOnce

LEMMA MorecoreGood ==
    ASSUME HeapTypes, NEW F \in SUBSET (1 .. Units), Good(F), morecore
    PROVE  HeapTypes' /\ Good(F)'
<1> DEFINE n == Larger(op.nu, Chunk)
           B == Blocks(F, held, op)
<1>1. op.fn = "find" /\ hdr[op.at].ptr = freep /\ hdr[freep].size < op.nu /\ freep' = freep /\ held' = held
  BY DEF morecore
<1>2. RingOf(hdr, F) /\ Tiles(hdr, B, arena) /\ F \subseteq B /\ freep \in F \cup {Base} /\ op.at \in F \cup {Base}
      /\ op.nu >= 1 /\ op.nu \in Nat /\ nomem = 0 /\ hdr \in Headers /\ hdr[Base].size = 0
      /\ Hand(op) = {} /\ brk \in 2 .. Units /\ arena \subseteq 2 .. brk - 1
  BY <1>1 DEF Good, Heap, Searching, HeapTypes, OpType, Hand
<1>3. n \in Nat /\ n >= op.nu /\ n >= 1
  BY <1>2, HeapConstants, LargerIs
<1>4. \A a \in F : hdr[a].size < op.nu
  <2>1. Follows(F, op.at, freep)
    BY <1>1, <1>2 DEF RingOf
  <2>2. \A a \in F : a = freep \/ Tested(freep, op.at, a)
    BY <1>2, <2>1, HeapConstants, AllTested
  <2> QED BY <1>1, <2>2 DEF Good, Searching
<1>5. CASE /\ CanGrow(n) /\ hdr' = [hdr EXCEPT ![brk].size = n] /\ op' = Place(op.nu, freep, brk)
           /\ brk' = brk + n /\ arena' = arena \cup brk .. brk + n - 1 /\ nomem' = nomem
  <2> HIDE DEF n
  <2>1. brk + n <= Units /\ brk' \in 2 .. Units /\ arena' \subseteq 2 .. brk' - 1
    BY <1>2, <1>3, <1>5, HeapConstants DEF CanGrow
  <2>2. /\ hdr' \in Headers /\ hdr'[brk].size = n /\ \A a \in 0 .. Units : hdr'[a].ptr = hdr[a].ptr
        /\ \A a \in 0 .. Units : a # brk => hdr'[a] = hdr[a]
    <3>1. brk \in 0 .. Units
      BY <1>2, HeapConstants
    <3>2. LET g == [hdr EXCEPT ![brk].size = n]
          IN  g \in Headers /\ g[brk] = [ptr |-> hdr[brk].ptr, size |-> n] /\ \A c \in 0 .. Units : c # brk => g[c] = hdr[c]
      BY <1>2, <1>3, <3>1, SizeSet
    <3>3. hdr' \in Headers /\ hdr'[brk] = [ptr |-> hdr[brk].ptr, size |-> n] /\ \A c \in 0 .. Units : c # brk => hdr'[c] = hdr[c]
      BY <1>5, <3>2
    <3> QED BY <3>3
  <2>3. B \subseteq 1 .. Units
    BY <1>2 DEF Tiles
  <2>4. brk \notin B /\ Tiles(hdr', B \cup {brk}, arena')
    <3>1. brk \notin B
      <4>1. \A a \in B : a \in BlockOf(hdr, a) /\ BlockOf(hdr, a) \subseteq arena
        BY <1>2 DEF Tiles, BlockOf
      <4> QED BY <1>2, <4>1
    <3>2. SameSizes(hdr, hdr', B)
      BY <2>2, <2>3, <3>1, HeapConstants DEF SameSizes
    <3>3. brk + n <= Units /\ n \in Nat \ {0} /\ hdr'[brk].size = n /\ Tiles(hdr, B, arena) /\ Units \in Nat
          /\ brk \in 2 .. Units /\ arena \subseteq 2 .. brk - 1 /\ arena' = arena \cup brk .. brk + n - 1
      BY <1>2, <1>3, <1>5, <2>1, <2>2, HeapConstants
    <3> HIDE DEF B
    <3>4. Adds(hdr, hdr', B, arena, brk, n)
      BY <3>2, <3>3 DEF Adds
    <3>5. Tiles(hdr', B \cup {brk}, arena \cup brk .. brk + n - 1)
      BY <3>3, <3>4, TilesAdd
    <3> QED BY <3>1, <3>3, <3>5
  <2>5. op' = [fn |-> "place", nu |-> op.nu, at |-> freep, bp |-> brk, moved |-> FALSE, grown |-> FALSE]
    BY <1>5 DEF Place, NoCall
  <2>6. freep \in Nat /\ brk \in Nat /\ brk >= 1
    BY <1>2, HeapConstants
  <2>7. HeapTypes'
    <3>1. op' \in OpType
      BY <1>2, <2>5, <2>6 DEF OpType
    <3>2. hdr'[Base].size = 0
      BY <1>2, <2>2, HeapConstants
    <3> QED BY <1>1, <1>2, <1>5, <2>1, <2>2, <3>1, <3>2 DEF HeapTypes
  <2>8. Hand(op') = {brk}
    BY <2>5 DEF Hand
  <2>9. Blocks(F, held', op') = B \cup {brk}
    BY <1>1, <1>2, <2>8 DEF Blocks
  <2>10. RingOf(hdr', F)
    BY <1>2, <2>2, HeapConstants DEF RingOf
  <2>11. \A a \in F : hdr'[a] = hdr[a]
    <3>1. \A a \in F : a \in 0 .. Units /\ a # brk
      BY <1>2, <2>3, <2>4, HeapConstants
    <3> QED BY <2>2, <3>1
  <2>12. JoinedBut(hdr', F, {})
    BY <2>11 DEF Good, JoinedBut
  <2>13. OwnedOnce(hdr', F, held', op')
    <3>1. \A b \in held : b[1] \in B
      BY DEF Blocks, Given
    <3>2. \A b \in held : hdr'[b[1]] = hdr[b[1]]
      BY <2>2, <2>3, <2>4, <3>1, HeapConstants
    <3>3. brk \notin F /\ brk \notin Given(held)
      BY <2>4 DEF Blocks
    <3> QED BY <1>1, <2>8, <3>2, <3>3 DEF Good, OwnedOnce
  <2>14. Searching(hdr', F, freep', op') /\ NoneFits(hdr', F, brk', nomem')
    BY <1>2, <1>5, <2>5 DEF Searching, NoneFits
  <2>15. Placing(hdr', F, freep', op')
    <3>1. PICK q \in F \cup {Base} : Before(F, q, brk)
      BY <2>6, HeapConstants, SomeBefore
    <3>2. Ahead(freep, freep, q)
      BY <2>6 DEF Ahead
    <3> QED BY <1>1, <1>2, <1>3, <2>2, <2>5, <3>1, <3>2 DEF Placing
  <2> QED BY <1>1, <1>2, <2>4, <2>7, <2>9, <2>10, <2>12, <2>13, <2>14, <2>15 DEF Good, Heap
<1>6. CASE ~CanGrow(n) /\ op' = NoCall /\ nomem' = op.nu /\ UNCHANGED <<hdr, brk, arena>>
  <2>1. brk + n > Units
    BY <1>2, <1>3, <1>6, HeapConstants DEF CanGrow
  <2>2. op' \in OpType /\ op'.fn = "none"
    BY <1>6, HeapConstants DEF NoCall, OpType
  <2>3. HeapTypes'
    BY <1>1, <1>2, <1>6, <2>2 DEF HeapTypes
  <2>4. Hand(op') = Hand(op)
    BY <1>1, <2>2 DEF Hand
  <2>5. Searching(hdr, F, freep, op') /\ Placing(hdr, F, freep, op')
    BY <2>2 DEF Searching, Placing
  <2>6. NoneFits(hdr, F, brk, nomem')
    BY <1>4, <1>6, <2>1 DEF NoneFits
  <2> QED BY <1>1, <1>6, <2>3, <2>4, <2>5, <2>6 DEF Good, Blocks, OwnedOnce
<1> QED BY <1>1, <1>5, <1>6 DEF morecore

\* What a program puts into its block is not the header of another.
LEMMA FilledKeeps ==
    ASSUME Units \in Nat, NEW h \in Headers, NEW B, NEW A, Tiles(h, B, A), NEW c \in B, NEW nu \in Nat, h[c].size = nu
    PROVE  Filled(h, c, nu) \in Headers /\ \A a \in B \cup {Base} : Filled(h, c, nu)[a] = h[a]
<1>1. DOMAIN h = 0 .. Units /\ Base = 0 /\ Base \in 0 .. Units
  BY DEF Headers, Base
<1>2. /\ B \subseteq 1 .. Units /\ \A a, b \in B : a < b => a + h[a].size <= b
  BY DEF Tiles
<1>3. ASSUME NEW a \in B \cup {Base} PROVE a \in 0 .. Units /\ a \notin c + 1 .. c + nu - 1
  <2>1. c \in Nat /\ c >= 1
    BY <1>2
  <2>2. CASE a = Base
    BY <1>1, <2>1, <2>2
  <2>3. CASE a \in B
    <3>1. a \in Nat /\ a \in 0 .. Units
      BY <1>2, <2>3
    <3>2. c < a => c + nu <= a
      BY <1>2, <2>3
    <3> QED BY <2>1, <3>1, <3>2
  <2> QED BY <2>2, <2>3
<1>4. Filled(h, c, nu) \in Headers
  BY <1>1 DEF Filled, Headers
<1> QED BY <1>1, <1>3, <1>4 DEF Filled

LEMMA GivenAdds == \A d, a, n : Given(d \cup {<<a, n>>}) = Given(d) \cup {a}
<1> SUFFICES ASSUME NEW d, NEW a, NEW n PROVE Given(d \cup {<<a, n>>}) = Given(d) \cup {a}
  OBVIOUS
<1>1. <<a, n>>[1] = a
  OBVIOUS
<1>2. ASSUME NEW y \in Given(d \cup {<<a, n>>}) PROVE y \in Given(d) \cup {a}
  <2>1. PICK b \in d \cup {<<a, n>>} : y = b[1]
    BY DEF Given
  <2> QED BY <1>1, <2>1 DEF Given
<1>3. ASSUME NEW y \in Given(d) \cup {a} PROVE y \in Given(d \cup {<<a, n>>})
  BY <1>1 DEF Given
<1> QED BY <1>2, <1>3

LEMMA TakesGood ==
    ASSUME HeapTypes, NEW F \in SUBSET (1 .. Units), Good(F), takes
    PROVE  HeapTypes' /\ \E G \in SUBSET (1 .. Units) : Good(G)'
<1> DEFINE B == Blocks(F, held, op)
<1>1. PICK p : p = hdr[op.at].ptr
  OBVIOUS
<1>2. PICK at : at = op.at
  OBVIOUS
<1>3. PICK nu : nu = op.nu
  OBVIOUS
<1>4. /\ op.fn = "find" /\ hdr[p].size >= nu /\ freep' = at /\ op' = NoCall /\ UNCHANGED <<brk, arena, nomem>>
      /\ hdr' = Filled(Take(at, p, nu)[1], Take(at, p, nu)[2], nu) /\ held' = held \cup {<<Take(at, p, nu)[2], nu>>}
  BY <1>1, <1>2, <1>3 DEF takes
<1>5. RingOf(hdr, F) /\ Tiles(hdr, B, arena) /\ F \subseteq B /\ at \in F \cup {Base}
      /\ nu \in Nat \ {0} /\ nomem = 0 /\ hdr \in Headers /\ hdr[Base].size = 0 /\ Hand(op) = {}
      /\ brk \in 2 .. Units /\ arena \subseteq 2 .. brk - 1 /\ B = F \cup Given(held) /\ F \cap Given(held) = {}
  BY <1>2, <1>3, <1>4 DEF Good, Heap, Searching, HeapTypes, OpType, Hand, OwnedOnce, Blocks
<1>6. Follows(F, at, p)
  BY <1>1, <1>2, <1>5 DEF RingOf
<1>7. p \in F /\ at < p /\ p \in 1 .. Units /\ at \in 0 .. Units
  <2>1. p # Base
    BY <1>4, <1>5
  <2>2. p \in F /\ at < p
    BY <1>6, <2>1, Zenon DEF Follows
  <2>3. at \in 0 .. Units
    BY <1>5, HeapConstants
  <2> QED BY <2>2, <2>3
<1>8. B \subseteq 1 .. Units /\ \A a \in B : hdr[a].size \in Nat /\ hdr[a].size >= 1
  BY <1>5 DEF Tiles
<1> HIDE DEF B
<1>9. Hand(op') = {} /\ op' \in OpType /\ op'.fn = "none"
  BY <1>4, HeapConstants DEF NoCall, OpType, Hand
<1>10. /\ \A h, G : Searching(h, G, freep', op') /\ Placing(h, G, freep', op')
       /\ \A h, G : NoneFits(h, G, brk', nomem')
  BY <1>4, <1>5, <1>9 DEF Searching, Placing, NoneFits
<1>11. CASE hdr[p].size = nu
  <2>1. PICK g : g = [hdr EXCEPT ![at].ptr = hdr[p].ptr]
    OBVIOUS
  <2>2. hdr' = Filled(g, p, nu) /\ held' = held \cup {<<p, nu>>}
    BY <1>4, <1>11, <2>1 DEF Take
  <2>3. g \in Headers /\ g[at] = [ptr |-> hdr[p].ptr, size |-> hdr[at].size] /\ \A c \in 0 .. Units : c # at => g[c] = hdr[c]
    <3>1. hdr[p].ptr \in 0 .. Units
      BY <1>5, <1>7, HeapConstants DEF Headers
    <3>2. LET e == [hdr EXCEPT ![at].ptr = hdr[p].ptr]
          IN  e \in Headers /\ e[at] = [ptr |-> hdr[p].ptr, size |-> hdr[at].size] /\ \A c \in 0 .. Units : c # at => e[c] = hdr[c]
      <4>1. hdr \in Headers /\ at \in 0 .. Units
        BY <1>5, <1>7
      <4> QED BY <3>1, <4>1, PtrSet
    <3> QED BY <2>1, <3>2
  <2>4. SameSizes(hdr, g, B)
    BY <1>8, <2>3, HeapConstants DEF SameSizes
  <2>5. Tiles(g, B, arena) /\ g[p].size = nu
    BY <1>5, <1>7, <1>11, <2>3, <2>4, HeapConstants, TilesSame
  <2>6. hdr' \in Headers /\ \A a \in B \cup {Base} : hdr'[a] = g[a]
    BY <1>5, <1>7, <2>2, <2>3, <2>5, HeapConstants, FilledKeeps
  <2>7. \A a \in B \cup {Base} : hdr'[a].size = hdr[a].size /\ (a # at => hdr'[a] = hdr[a])
    BY <1>8, <2>3, <2>6, HeapConstants
  <2>8. RingOf(hdr', F \ {p})
    <3>1. LeftOut(hdr, hdr', F, at, p)
      <4>1. hdr[at].ptr = p
        BY <1>1, <1>2
      <4>2. hdr'[at] = g[at] /\ g[at].ptr = hdr[p].ptr
        BY <1>5, <2>3, <2>6
      <4>3. \A c \in (F \cup {Base}) \ {at, p} : hdr'[c] = hdr[c]
        BY <1>5, <2>7
      <4> QED BY <4>1, <4>2, <4>3 DEF LeftOut
    <3> QED BY <1>5, <1>7, <3>1, HeapConstants, RingShrinks
  <2>9. Tiles(hdr', B, arena)
    BY <1>5, <2>7, TilesSame DEF SameSizes
  <2>10. JoinedBut(hdr', F \ {p}, {})
    <3> SUFFICES ASSUME NEW a \in F \ {p} PROVE hdr'[a].ptr # a + hdr'[a].size
      BY DEF JoinedBut
    <3>1. CASE a # at
      BY <1>5, <2>7, <3>1 DEF Good, JoinedBut
    <3>2. CASE a = at
      <4>1. hdr'[a].ptr = hdr[p].ptr /\ hdr'[a].size = hdr[a].size
        <5>1. a \in B /\ hdr'[a] = g[a]
          BY <1>5, <2>6
        <5>2. g[a].ptr = hdr[p].ptr
          BY <2>3, <3>2
        <5> QED BY <2>7, <5>1, <5>2
      <4>2. a + hdr[a].size <= p /\ a \in Nat /\ hdr[a].size \in Nat /\ a >= 1 /\ p \in Nat
        BY <1>5, <1>7, <1>8, <3>2 DEF Tiles
      <4>3. Follows(F, p, hdr[p].ptr)
        BY <1>5, <1>7 DEF RingOf
      <4>4. hdr[p].ptr = 0 \/ (hdr[p].ptr \in Nat /\ p < hdr[p].ptr)
        <5>1. hdr[p].ptr = Base \/ (hdr[p].ptr \in F /\ p < hdr[p].ptr)
          BY <4>3, Zenon DEF Follows
        <5>2. \A c \in F : c \in Nat
          BY HeapConstants
        <5> QED BY <5>1, <5>2, HeapConstants
      <4> QED BY <4>1, <4>2, <4>4
    <3> QED BY <3>1, <3>2
  <2>11. Given(held') = Given(held) \cup {p}
    BY <2>2, GivenAdds
  <2>12. Blocks(F \ {p}, held', op') = B
    BY <1>5, <1>7, <1>9, <2>11 DEF Blocks
  <2>13. OwnedOnce(hdr', F \ {p}, held', op')
    <3>1. \A b \in held : hdr'[b[1]].size = b[2]
      BY <1>5, <2>7 DEF Good, OwnedOnce, Given
    <3>2. hdr'[p].size = nu
      BY <1>5, <1>7, <1>11, <2>7
    <3>3. \A b \in held' : hdr'[b[1]].size = b[2]
      BY <2>2, <3>1, <3>2
    <3>4. (F \ {p}) \cap Given(held') = {} /\ (F \ {p}) \cap Hand(op') = {} /\ Given(held') \cap Hand(op') = {}
      BY <1>5, <1>9, <2>11
    <3> QED BY <3>3, <3>4 DEF OwnedOnce
  <2>14. HeapTypes'
    <3>1. held' \subseteq (1 .. Units) \X Nat
      BY <1>5, <1>7, <2>2 DEF HeapTypes
    <3>2. hdr'[Base].size = 0
      BY <1>5, <2>7
    <3> QED BY <1>4, <1>5, <1>9, <2>6, <3>1, <3>2 DEF HeapTypes
  <2>15. freep' \in (F \ {p}) \cup {Base}
    BY <1>4, <1>5, <1>7, HeapConstants
  <2>16. Heap(hdr', F \ {p}, Blocks(F \ {p}, held', op'), arena')
    BY <1>4, <1>5, <2>8, <2>9, <2>12 DEF Heap
  <2>17. Good(F \ {p})'
    BY <1>10, <2>10, <2>13, <2>15, <2>16 DEF Good
  <2> QED BY <2>14, <2>17
<1>12. CASE hdr[p].size # nu
  <2>1. PICK c : c = p + hdr[p].size - nu
    OBVIOUS
  <2>2. PICK e : e = [hdr EXCEPT ![p].size = hdr[p].size - nu]
    OBVIOUS
  <2>3. PICK g : g = [e EXCEPT ![c].size = nu]
    OBVIOUS
  <2>4. p \in Nat /\ hdr[p].size \in Nat /\ nu \in Nat /\ nu >= 1 /\ nu < hdr[p].size
    BY <1>4, <1>5, <1>7, <1>8, <1>12
  <2>5. arena \subseteq 1 .. Units
    BY <1>5, HeapConstants
  <2>6. c \in 1 .. Units /\ c \in Nat /\ p < c
    <3>1. c \in BlockOf(hdr, p)
      BY <2>1, <2>4 DEF BlockOf
    <3>2. BlockOf(hdr, p) \subseteq arena
      BY <1>5, <1>7 DEF Tiles
    <3> QED BY <2>1, <2>4, <2>5, <3>1, <3>2
  <2>7. e \in Headers /\ e[p] = [ptr |-> hdr[p].ptr, size |-> hdr[p].size - nu] /\ \A a \in 0 .. Units : a # p => e[a] = hdr[a]
    <3> DEFINE m == hdr[p].size - nu
    <3>1. p \in 0 .. Units /\ m \in Nat /\ e = [hdr EXCEPT ![p].size = m]
      BY <1>7, <2>2, <2>4, HeapConstants
    <3> HIDE DEF m
    <3>2. LET f == [hdr EXCEPT ![p].size = m]
          IN  f \in Headers /\ f[p] = [ptr |-> hdr[p].ptr, size |-> m] /\ \A a \in 0 .. Units : a # p => f[a] = hdr[a]
      <4>1. hdr \in Headers /\ p \in 0 .. Units /\ m \in Nat
        BY <1>5, <3>1
      <4> QED BY <4>1, SizeSet
    <3> QED BY <3>1, <3>2 DEF m
  <2>8. g \in Headers /\ g[c] = [ptr |-> e[c].ptr, size |-> nu] /\ \A a \in 0 .. Units : a # c => g[a] = e[a]
    <3>1. c \in 0 .. Units
      BY <2>6, HeapConstants
    <3>2. LET f == [e EXCEPT ![c].size = nu]
          IN  f \in Headers /\ f[c] = [ptr |-> e[c].ptr, size |-> nu] /\ \A a \in 0 .. Units : a # c => f[a] = e[a]
      BY <2>4, <2>7, <3>1, SizeSet
    <3> QED BY <2>3, <3>2
  <2>9. hdr' = Filled(g, c, nu) /\ held' = held \cup {<<c, nu>>}
    <3>1. Take(at, p, nu)[1] = [hdr EXCEPT ![p].size = @ - nu, ![c].size = nu] /\ Take(at, p, nu)[2] = c
      BY <1>12, <2>1 DEF Take
    <3>2. [hdr EXCEPT ![p].size = @ - nu, ![c].size = nu] = g
      BY <2>2, <2>3, <2>4, <2>6
    <3> QED BY <1>4, <3>1, <3>2
  <2>10. Splits(hdr, g, B, arena, p, nu, c)
    <3>1. g[p].size = hdr[p].size - nu
      BY <1>7, <2>4, <2>6, <2>7, <2>8, HeapConstants
    <3>2. c \notin B
      <4>1. \A a \in B : p < a => p + hdr[p].size <= a
        BY <1>5, <1>7 DEF Tiles
      <4> QED BY <2>1, <2>4, <2>6, <4>1
    <3>3. SameSizes(hdr, g, B \ {p})
      <4>1. \A a \in B \ {p} : a \in 0 .. Units /\ a # c /\ a # p
        BY <1>8, <3>2, HeapConstants
      <4> QED BY <2>7, <2>8, <4>1 DEF SameSizes
    <3> QED BY <1>5, <1>7, <2>1, <2>4, <2>5, <2>8, <3>1, <3>3 DEF Splits
  <2>11. c \notin B /\ Tiles(g, B \cup {c}, arena)
    BY <2>10, HeapConstants, TilesSplit
  <2>12. hdr' \in Headers /\ \A a \in B \cup {c, Base} : hdr'[a] = g[a]
    <3>1. g[c].size = nu /\ c \in B \cup {c}
      BY <2>8
    <3> QED BY <2>4, <2>8, <2>9, <2>11, <3>1, HeapConstants, FilledKeeps
  <2>13. \A a \in B \cup {Base} : a # p => hdr'[a] = hdr[a]
    BY <1>8, <2>6, <2>7, <2>8, <2>11, <2>12, HeapConstants
  <2>14. hdr'[p] = [ptr |-> hdr[p].ptr, size |-> hdr[p].size - nu] /\ hdr'[c].size = nu
    BY <1>5, <1>7, <2>6, <2>7, <2>8, <2>12, HeapConstants
  <2>15. RingOf(hdr', F)
    <3>1. \A a \in F \cup {Base} : hdr'[a].ptr = hdr[a].ptr
      BY <1>5, <2>13, <2>14
    <3> QED BY <1>5, <3>1 DEF RingOf
  <2>16. Tiles(hdr', B \cup {c}, arena)
    BY <2>11, <2>12, TilesSame DEF SameSizes
  <2>17. JoinedBut(hdr', F, {})
    <3> SUFFICES ASSUME NEW a \in F PROVE hdr'[a].ptr # a + hdr'[a].size
      BY DEF JoinedBut
    <3>1. CASE a # p
      BY <1>5, <2>13, <3>1 DEF Good, JoinedBut
    <3>2. CASE a = p
      <4>1. Follows(F, p, hdr[p].ptr)
        BY <1>5, <1>7 DEF RingOf
      <4>2. hdr[p].ptr = 0 \/ (hdr[p].ptr \in F /\ p < hdr[p].ptr)
        <5>1. hdr[p].ptr = Base \/ (hdr[p].ptr \in F /\ p < hdr[p].ptr)
          BY <4>1, Zenon DEF Follows
        <5> QED BY <5>1, HeapConstants
      <4>3. ASSUME hdr[p].ptr \in F, p < hdr[p].ptr PROVE p + hdr[p].size <= hdr[p].ptr
        BY <1>5, <1>7, <4>3 DEF Tiles
      <4>4. p + (hdr[p].size - nu) \in Nat /\ p + (hdr[p].size - nu) < p + hdr[p].size /\ p + (hdr[p].size - nu) # 0
        BY <1>7, <2>4
      <4>5. p + (hdr[p].size - nu) # hdr[p].ptr
        BY <1>5, <2>4, <4>2, <4>3, <4>4
      <4> QED BY <2>14, <3>2, <4>5
    <3> QED BY <3>1, <3>2
  <2>18. Given(held') = Given(held) \cup {c}
    BY <2>9, GivenAdds
  <2>19. Blocks(F, held', op') = B \cup {c}
    BY <1>5, <1>9, <2>18 DEF Blocks
  <2>20. OwnedOnce(hdr', F, held', op')
    <3>1. \A b \in held : b[1] \in B /\ b[1] # p
      BY <1>5, <1>7 DEF Given
    <3>2. \A b \in held : hdr'[b[1]].size = b[2]
      BY <2>13, <3>1 DEF Good, OwnedOnce
    <3>3. c \notin F
      BY <1>5, <2>11
    <3>4. \A b \in held' : hdr'[b[1]].size = b[2]
      BY <2>9, <2>14, <3>2
    <3>5. F \cap Given(held') = {} /\ F \cap Hand(op') = {} /\ Given(held') \cap Hand(op') = {}
      BY <1>5, <1>9, <2>18, <3>3
    <3> QED BY <3>4, <3>5 DEF OwnedOnce
  <2>21. HeapTypes'
    <3>1. hdr'[Base].size = 0
      BY <1>5, <1>7, <2>13, HeapConstants
    <3> QED BY <1>4, <1>5, <1>9, <2>6, <2>9, <2>12, <3>1 DEF HeapTypes
  <2>22. Heap(hdr', F, Blocks(F, held', op'), arena')
    BY <1>4, <1>5, <2>15, <2>16, <2>19 DEF Heap
  <2>23. Good(F)'
    BY <1>4, <1>5, <1>10, <2>17, <2>20, <2>22 DEF Good
  <2> QED BY <2>21, <2>23
<1> QED BY <1>11, <1>12

-----------------------------------------------------------------------------

\* free() puts x behind p into the ring G; D are the blocks of the program.
ToLink(h, F, D, p, x, A) ==
    /\ h \in Headers /\ F \in SUBSET (1 .. Units) /\ x \in 1 .. Units /\ x \notin F \cup D /\ F \cap D = {}
    /\ Before(F, p, x) /\ Heap(h, F, F \cup D \cup {x}, A) /\ JoinedBut(h, F, {}) /\ h[Base].size = 0
\* It is joined with what follows; p may touch it.
Half(h, g, G, D, p, x, A) ==
    /\ g \in Headers /\ G \in SUBSET (1 .. Units) /\ G \cap D = {} /\ x \in G /\ p \in G \cup {Base} /\ p < x
    /\ Heap(g, G, G \cup D, A) /\ JoinedBut(g, G, {p})
    /\ g[p].ptr = x /\ g[x].size >= h[x].size
    /\ \A c \in D \cup {Base} : g[c].size = h[c].size
Linked(h, g, G, D, p, x, A) ==
    /\ g \in Headers /\ G \in SUBSET (1 .. Units) /\ G \cap D = {} /\ p \in G \cup {Base}
    /\ Heap(g, G, G \cup D, A) /\ JoinedBut(g, G, {})
    /\ \E a \in G : g[a].size >= h[x].size
    /\ \A c \in D \cup {Base} : g[c].size = h[c].size

LEMMA LinkUp ==
    ASSUME NEW h, NEW F, NEW D, NEW p, NEW x, NEW A, ToLink(h, F, D, p, x, A)
    PROVE  /\ JoinUp(h, p, x) \in Headers
           /\ \E G : Half(h, [JoinUp(h, p, x) EXCEPT ![p].ptr = x], G, D, p, x, A)
<1> DEFINE B == F \cup D \cup {x}
           n == h[p].ptr
           e == [h EXCEPT ![x].ptr = n]
           f == [e EXCEPT ![p].ptr = x]
           u == JoinUp(h, p, x)
           g == [u EXCEPT ![p].ptr = x]
<1>1. /\ h \in Headers /\ F \in SUBSET (1 .. Units) /\ x \in 1 .. Units /\ x \notin F /\ x \notin D /\ F \cap D = {}
      /\ Before(F, p, x) /\ RingOf(h, F) /\ Tiles(h, B, A) /\ JoinedBut(h, F, {}) /\ h[Base].size = 0
  BY DEF ToLink, Heap
<1>2. p \in F \cup {Base} /\ p < x /\ p \in 0 .. Units /\ x \in 0 .. Units /\ p # x /\ Base # x
  BY <1>1, HeapConstants DEF Before
<1>3. Follows(F, p, n)
  BY <1>1, <1>2 DEF RingOf
<1>4. B \subseteq 1 .. Units /\ \A a \in B : a \in Nat /\ h[a].size \in Nat /\ h[a].size >= 1
  BY <1>1 DEF Tiles
<1>5. n \in 0 .. Units /\ (n \in F \/ n = Base)
  <2>1. n \in F \/ n = Base
    BY <1>3, Zenon DEF Follows
  <2>2. F \subseteq 0 .. Units /\ Base \in 0 .. Units
    BY <1>1, HeapConstants
  <2> HIDE DEF n
  <2> QED BY <2>1, <2>2, Zenon
<1> HIDE DEF n, B
<1>6. e \in Headers /\ e[x] = [ptr |-> n, size |-> h[x].size] /\ \A c \in 0 .. Units : c # x => e[c] = h[c]
  BY <1>1, <1>2, <1>5, PtrSet
<1> HIDE DEF e
<1>7. f \in Headers /\ f[p] = [ptr |-> x, size |-> e[p].size] /\ \A c \in 0 .. Units : c # p => f[c] = e[c]
  BY <1>2, <1>6, PtrSet
<1> HIDE DEF f
<1>8. /\ f[p] = [ptr |-> x, size |-> h[p].size] /\ f[x] = [ptr |-> n, size |-> h[x].size]
      /\ \A c \in 0 .. Units : c # p /\ c # x => f[c] = h[c]
  BY <1>2, <1>6, <1>7
<1>9. \A c \in 0 .. Units : f[c].size = h[c].size
  BY <1>8
<1>10. RingOf(f, F \cup {x})
  <2>1. \A c \in F \cup {Base} : c \in 0 .. Units /\ c # x
    BY <1>1, HeapConstants
  <2>2. PutIn(h, f, F, p, x)
    BY <1>8, <2>1 DEF PutIn, n
  <2> QED BY <1>1, <2>2, HeapConstants, RingGrows
<1>11. Tiles(f, B, A)
  <2>1. SameSizes(h, f, B)
    BY <1>4, <1>9, HeapConstants DEF SameSizes
  <2> QED BY <1>1, <2>1, TilesSame
<1>12. JoinedBut(f, F \cup {x}, {p, x})
  <2> SUFFICES ASSUME NEW a \in F, a # p, a # x PROVE f[a].ptr # a + f[a].size
    BY DEF JoinedBut
  <2>1. f[a] = h[a]
    BY <1>1, <1>8, HeapConstants
  <2> QED BY <1>1, <2>1 DEF JoinedBut
<1>13. Heap(f, F \cup {x}, B, A)
  BY <1>10, <1>11 DEF Heap, B
<1>14. \A c \in D \cup {Base} : c \in 0 .. Units /\ c # x
  BY <1>1, <1>2, <1>4, HeapConstants DEF B
<1>15. CASE x + h[x].size = n
  <2>1. n \in F /\ n # x /\ n # p /\ p < n
    <3>1. n # Base
      BY <1>1, <1>4, <1>15, HeapConstants DEF B
    <3>2. n \in F /\ p < n
      BY <1>3, <3>1, Zenon DEF Follows
    <3> QED BY <1>1, <1>2, <3>2, HeapConstants
  <2>2. u = [h EXCEPT ![x] = [ptr |-> h[n].ptr, size |-> h[x].size + h[n].size]]
    BY <1>15 DEF JoinUp, n
  <2>3. h[n].ptr \in 0 .. Units /\ h[x].size + h[n].size \in Nat /\ h[n].size \in Nat /\ h[x].size \in Nat
    <3>1. n \in 0 .. Units /\ x \in 0 .. Units /\ h \in Headers
      BY <1>1, <1>2, <1>5
    <3>2. h[n].ptr \in 0 .. Units /\ h[x].size \in Nat /\ h[n].size \in Nat
      BY <3>1, HeaderAt
    <3> QED BY <3>2
  <2>4. u \in Headers /\ u[x] = [ptr |-> h[n].ptr, size |-> h[x].size + h[n].size] /\ \A c \in 0 .. Units : c # x => u[c] = h[c]
    <3> DEFINE q == h[n].ptr
               m == h[x].size + h[n].size
    <3>1. q \in 0 .. Units /\ m \in Nat /\ u = [h EXCEPT ![x] = [ptr |-> q, size |-> m]]
      BY <2>2, <2>3
    <3> HIDE DEF q, m, u
    <3>2. LET r == [h EXCEPT ![x] = [ptr |-> q, size |-> m]]
          IN  r \in Headers /\ r[x] = [ptr |-> q, size |-> m] /\ \A c \in 0 .. Units : c # x => r[c] = h[c]
      <4>1. h \in Headers /\ x \in 0 .. Units /\ q \in 0 .. Units /\ m \in Nat
        BY <1>1, <1>2, <3>1
      <4> HIDE DEF u, g
      <4> QED BY <4>1, HeaderSet
    <3> QED BY <3>1, <3>2 DEF q, m
  <2> HIDE DEF u
  <2>5. g \in Headers /\ g[p] = [ptr |-> x, size |-> u[p].size] /\ \A c \in 0 .. Units : c # p => g[c] = u[c]
    BY <1>2, <2>4, PtrSet
  <2> HIDE DEF g
  <2>6. /\ g[p] = [ptr |-> x, size |-> h[p].size] /\ g[x] = [ptr |-> h[n].ptr, size |-> h[x].size + h[n].size]
        /\ \A c \in 0 .. Units : c # p /\ c # x => g[c] = h[c]
    BY <1>2, <2>4, <2>5
  <2>7. Merged(f, g, F \cup {x}, B, x, n)
    <3>1. f[n] = h[n]
      BY <1>5, <1>8, <2>1
    <3>2. \A c \in (B \cup {Base}) \ {x, n} : g[c] = f[c]
      <4>1. \A c \in B \cup {Base} : c \in 0 .. Units
        BY <1>4, HeapConstants
      <4> QED BY <1>8, <2>6, <4>1
    <3> QED BY <1>8, <1>15, <2>1, <2>6, <3>1, <3>2 DEF Merged
  <2> DEFINE G == (F \cup {x}) \ {n}
  <2>8. x \in G /\ Heap(g, G, B \ {n}, A) /\ JoinedBut(g, G, {p, x} \ {x})
    <3>1. Units \in Nat /\ x \in F \cup {x} /\ n \notin {p, x}
      BY <2>1, HeapConstants
    <3> QED BY <1>12, <1>13, <2>7, <3>1, MergeKeeps
  <2>9. B \ {n} = G \cup D
    BY <1>1, <2>1 DEF B
  <2>10. {p, x} \ {x} = {p}
    BY <1>2
  <2>11. g[x].size >= h[x].size
    BY <2>3, <2>6
  <2>12. \A c \in D \cup {Base} : g[c].size = h[c].size
    <3> SUFFICES ASSUME NEW c \in D \cup {Base} PROVE g[c].size = h[c].size
      OBVIOUS
    <3>1. c \in 0 .. Units /\ c # x
      BY <1>14
    <3> QED BY <2>6, <3>1
  <2>13. G \in SUBSET (1 .. Units) /\ G \cap D = {} /\ p \in G \cup {Base}
    BY <1>1, <1>2, <2>1
  <2>14. Half(h, g, G, D, p, x, A)
    <3>1. Heap(g, G, G \cup D, A) /\ JoinedBut(g, G, {p})
      BY <2>8, <2>9, <2>10
    <3>2. g[p].ptr = x
      BY <2>6
    <3> HIDE DEF G
    <3> QED BY <1>2, <2>5, <2>8, <2>11, <2>12, <2>13, <3>1, <3>2 DEF Half
  <2> QED BY <2>4, <2>14 DEF u, g
<1>16. CASE x + h[x].size # n
  <2>1. u = e
    BY <1>16 DEF JoinUp, n, e
  <2>2. g = f
    BY <2>1 DEF f, g
  <2> HIDE DEF u, g
  <2>3. JoinedBut(f, F \cup {x}, {p})
    <3>1. f[x].ptr # x + f[x].size
      BY <1>8, <1>16
    <3> QED BY <1>12, <3>1 DEF JoinedBut
  <2>4. B = (F \cup {x}) \cup D
    BY DEF B
  <2>5. \A c \in D \cup {Base} : f[c].size = h[c].size
    BY <1>9, <1>14
  <2>6. f[x].size >= h[x].size
    BY <1>4, <1>8 DEF B
  <2>7. Half(h, f, F \cup {x}, D, p, x, A)
    BY <1>1, <1>2, <1>7, <1>8, <1>13, <2>3, <2>4, <2>5, <2>6 DEF Half
  <2> QED BY <1>6, <2>1, <2>2, <2>7 DEF u, g
<1> QED BY <1>15, <1>16 DEF u, g

LEMMA JoinsDown ==
    ASSUME NEW u \in Headers, NEW p \in 0 .. Units, NEW x \in 0 .. Units, p + u[p].size = x
    PROVE  LET w == JoinDown(u, p, x)
           IN  /\ w \in Headers /\ w[p] = [ptr |-> u[x].ptr, size |-> u[p].size + u[x].size]
               /\ \A c \in 0 .. Units : c # p => w[c] = u[c]
<1> DEFINE w == JoinDown(u, p, x)
           q == u[x].ptr
           n == u[p].size + u[x].size
<1>1. q \in 0 .. Units /\ n \in Nat
  <2>1. u[x].ptr \in 0 .. Units /\ u[x].size \in Nat /\ u[p].size \in Nat
    BY HeaderAt
  <2> QED BY <2>1
<1>2. w = [u EXCEPT ![p] = [ptr |-> q, size |-> n]]
  BY DEF JoinDown
<1> HIDE DEF q, n, w
<1>3. LET g == [u EXCEPT ![p] = [ptr |-> q, size |-> n]]
      IN  g \in Headers /\ g[p] = [ptr |-> q, size |-> n] /\ \A c \in 0 .. Units : c # p => g[c] = u[c]
  BY <1>1, HeaderSet
<1>4. w \in Headers /\ w[p] = [ptr |-> q, size |-> n] /\ \A c \in 0 .. Units : c # p => w[c] = u[c]
  BY <1>2, <1>3
<1> QED BY <1>4 DEF q, n, w

LEMMA LinkDown ==
    ASSUME NEW h, NEW u \in Headers, NEW G, NEW D, NEW p, NEW x, NEW A, h[Base].size = 0, h[x].size \in Nat,
           Half(h, [u EXCEPT ![p].ptr = x], G, D, p, x, A)
    PROVE  \E H : Linked(h, JoinDown(u, p, x), H, D, p, x, A)
<1> DEFINE g == [u EXCEPT ![p].ptr = x]
           w == JoinDown(u, p, x)
<1>1. /\ G \in SUBSET (1 .. Units) /\ G \cap D = {} /\ x \in G /\ p \in G \cup {Base} /\ p < x
      /\ Heap(g, G, G \cup D, A) /\ JoinedBut(g, G, {p}) /\ g[p].ptr = x /\ g[x].size >= h[x].size
      /\ \A c \in D \cup {Base} : g[c].size = h[c].size
  BY DEF Half
<1>2. p \in 0 .. Units /\ x \in 0 .. Units /\ x # p /\ p \in Nat /\ x \in Nat /\ x # Base
  BY <1>1, HeapConstants
<1>3. G \cup D \subseteq 1 .. Units
  BY <1>1 DEF Heap, Tiles
<1>4. g \in Headers /\ g[p] = [ptr |-> x, size |-> u[p].size] /\ \A c \in 0 .. Units : c # p => g[c] = u[c]
  BY <1>2, PtrSet
<1> HIDE DEF g
<1>5. u[x] = g[x] /\ g[p].size = u[p].size
  BY <1>2, <1>4
<1>6. CASE p + u[p].size = x
  <2>1. u \in Headers /\ p \in 0 .. Units /\ x \in 0 .. Units
    BY <1>2
  <2>2. u[p].size \in Nat /\ u[x].size \in Nat
    BY <2>1, HeaderAt
  <2>3. w \in Headers /\ w[p] = [ptr |-> u[x].ptr, size |-> u[p].size + u[x].size] /\ \A c \in 0 .. Units : c # p => w[c] = u[c]
    BY <1>6, <2>1, JoinsDown
  <2> HIDE DEF w
  <2>4. p \in G
    <3> SUFFICES ASSUME p = Base PROVE FALSE
      BY <1>1
    <3>1. g[Base].size = 0
      BY <1>1
    <3> QED BY <1>2, <1>5, <1>6, <3>1, HeapConstants
  <2>5. Merged(g, w, G, G \cup D, p, x)
    <3>1. \A c \in ((G \cup D) \cup {Base}) \ {p, x} : w[c] = g[c]
      <4>1. \A c \in (G \cup D) \cup {Base} : c \in 0 .. Units
        BY <1>3, HeapConstants
      <4> QED BY <1>4, <2>3, <4>1
    <3> QED BY <1>1, <1>5, <1>6, <2>3, <3>1 DEF Merged
  <2>6. p \in G \ {x} /\ Heap(w, G \ {x}, (G \cup D) \ {x}, A) /\ JoinedBut(w, G \ {x}, {p} \ {p})
    <3>1. Units \in Nat /\ p \in G /\ x \notin {p} /\ Heap(g, G, G \cup D, A) /\ JoinedBut(g, G, {p})
      BY <1>1, <1>2, <2>4, HeapConstants
    <3> QED BY <2>5, <3>1, MergeKeeps
  <2>7. (G \cup D) \ {x} = (G \ {x}) \cup D /\ {p} \ {p} = {}
    BY <1>1
  <2>8. w[p].size >= h[x].size
    BY <1>1, <1>5, <2>2, <2>3
  <2>9. \A c \in D \cup {Base} : w[c].size = h[c].size
    <3>1. \A c \in D \cup {Base} : c \in 0 .. Units /\ c # p
      BY <1>1, <1>3, <2>4, HeapConstants
    <3> QED BY <1>1, <1>4, <2>3, <3>1
  <2>10. Linked(h, w, G \ {x}, D, p, x, A)
    BY <1>1, <2>3, <2>6, <2>7, <2>8, <2>9 DEF Linked
  <2> QED BY <2>10 DEF w
<1>7. CASE p + u[p].size # x
  <2>1. w = g
    BY <1>7 DEF JoinDown, g
  <2> HIDE DEF w
  <2>2. JoinedBut(g, G, {})
    <3>1. g[p].ptr # p + g[p].size
      BY <1>4, <1>7
    <3> QED BY <1>1, <3>1 DEF JoinedBut
  <2>3. Linked(h, g, G, D, p, x, A)
    BY <1>1, <1>4, <2>2 DEF Linked
  <2> QED BY <2>1, <2>3 DEF w
<1> QED BY <1>6, <1>7

LEMMA LinksGood ==
    ASSUME HeapTypes, NEW F \in SUBSET (1 .. Units), Good(F), links
    PROVE  HeapTypes' /\ \E G \in SUBSET (1 .. Units) : Good(G)'
<1>1. PICK p : p = op.at
  OBVIOUS
<1>2. PICK x : x = op.bp
  OBVIOUS
<1> DEFINE D == Given(held)
           B == Blocks(F, held, op)
<1>3. /\ op.fn = "place" /\ Belongs(p, x) /\ hdr' = JoinDown(JoinUp(hdr, p, x), p, x)
      /\ freep' = p /\ op' = (IF op.nu = 0 THEN NoCall ELSE Find(op.nu, p, TRUE))
      /\ UNCHANGED <<brk, arena, held, nomem>>
  BY <1>1, <1>2 DEF links
<1>4. Hand(op) = {x}
  BY <1>2, <1>3 DEF Hand
<1>5. B = F \cup D \cup {x} /\ Tiles(hdr, B, arena) /\ RingOf(hdr, F) /\ JoinedBut(hdr, F, {})
      /\ x \notin F \cup D /\ F \cap D = {} /\ p \in F \cup {Base} /\ nomem = 0
  BY <1>1, <1>2, <1>3, <1>4 DEF Good, Heap, OwnedOnce, Placing, Blocks, HeapTypes
<1>6. x \in 1 .. Units /\ x \notin F
  BY <1>5 DEF Tiles
<1>7. Before(F, p, x)
  BY <1>3, <1>5, <1>6, HeapConstants, BelongsBefore
<1>8. ToLink(hdr, F, D, p, x, arena)
  <2>1. Heap(hdr, F, F \cup D \cup {x}, arena)
    BY <1>5 DEF Heap
  <2> QED BY <1>5, <1>6, <1>7, <2>1 DEF ToLink, HeapTypes
<1> HIDE DEF D, B
<1>9. JoinUp(hdr, p, x) \in Headers /\ \E G : Half(hdr, [JoinUp(hdr, p, x) EXCEPT ![p].ptr = x], G, D, p, x, arena)
  BY <1>8, LinkUp
<1>10. hdr[Base].size = 0 /\ hdr[x].size \in Nat
  BY <1>5 DEF Tiles, HeapTypes
<1>11. PICK G : Linked(hdr, hdr', G, D, p, x, arena)
  BY <1>3, <1>9, <1>10, LinkDown
<1>12. /\ hdr' \in Headers /\ G \in SUBSET (1 .. Units) /\ G \cap D = {} /\ p \in G \cup {Base}
       /\ Heap(hdr', G, G \cup D, arena) /\ JoinedBut(hdr', G, {})
       /\ (\E a \in G : hdr'[a].size >= hdr[x].size)
       /\ \A c \in D \cup {Base} : hdr'[c].size = hdr[c].size
  BY <1>11 DEF Linked
<1>13. p \in Nat
  <2>1. p \in G \cup {Base} /\ G \in SUBSET (1 .. Units)
    BY <1>12
  <2> QED BY <2>1, HeapConstants
<1>14. op.nu \in Nat /\ op' \in OpType /\ op'.fn \in {"none", "find"}
  <2>1. op.nu \in Nat
    BY DEF HeapTypes, OpType
  <2>2. CASE op.nu = 0
    BY <1>3, <2>1, <2>2, HeapConstants DEF NoCall, OpType
  <2>3. CASE op.nu # 0
    BY <1>3, <1>13, <2>1, <2>3, HeapConstants DEF NoCall, Find, OpType
  <2> QED BY <2>2, <2>3
<1>15. HeapTypes'
  BY <1>3, <1>5, <1>10, <1>12, <1>14 DEF HeapTypes
<1>16. Hand(op') = {}
  BY <1>14 DEF Hand
<1>17. Blocks(G, held', op') = G \cup D
  BY <1>3, <1>16 DEF Blocks, D
<1>18. OwnedOnce(hdr', G, held', op')
  <2>1. \A b \in held : b[1] \in D
    BY DEF D, Given
  <2>2. \A b \in held : hdr'[b[1]].size = b[2]
    BY <1>12, <2>1 DEF Good, OwnedOnce
  <2> QED BY <1>3, <1>12, <1>16, <2>2 DEF OwnedOnce, D
<1>19. Placing(hdr', G, freep', op') /\ NoneFits(hdr', G, brk', nomem')
  BY <1>3, <1>5, <1>14 DEF Placing, NoneFits
<1>20. Searching(hdr', G, freep', op')
  <2> SUFFICES ASSUME op'.fn = "find" PROVE
           /\ op'.nu >= 1 /\ op'.at \in G \cup {Base}
           /\ \A a \in G : Tested(freep', op'.at, a) => hdr'[a].size < op'.nu
           /\ op'.grown => \E a \in G : hdr'[a].size >= op'.nu
    BY DEF Searching
  <2>1. op.nu # 0
    BY <1>3 DEF NoCall
  <2>2. op'.nu = op.nu /\ op'.at = p
    BY <1>3, <2>1 DEF Find, NoCall
  <2>3. \A a : ~Tested(p, p, a)
    BY <1>13 DEF Tested
  <2>4. hdr[x].size >= op.nu
    BY <1>2, <1>3, <2>1 DEF Good, Placing
  <2>5. PICK a \in G : hdr'[a].size >= hdr[x].size
    BY <1>12
  <2>6. hdr'[a].size \in Nat
    BY <1>12, HeapConstants DEF Headers
  <2>7. hdr'[a].size >= op.nu
    BY <1>10, <1>14, <2>4, <2>5, <2>6
  <2>8. op'.nu >= 1 /\ op'.at \in G \cup {Base}
    BY <1>12, <1>14, <2>1, <2>2
  <2>9. \A c \in G : ~Tested(freep', op'.at, c)
    BY <1>3, <2>2, <2>3
  <2>10. \E c \in G : hdr'[c].size >= op'.nu
    BY <2>2, <2>7
  <2> QED BY <2>8, <2>9, <2>10
<1>21. Good(G)'
  BY <1>3, <1>12, <1>17, <1>18, <1>19, <1>20 DEF Good
<1> QED BY <1>12, <1>15, <1>21

-----------------------------------------------------------------------------

LEMMA HeapInitInv == HeapInit => HeapIInv
<1> SUFFICES ASSUME HeapInit PROVE HeapIInv
  OBVIOUS
<1>1. hdr \in Headers /\ hdr[Base].size = 0
  BY HeapConstants DEF HeapInit, Headers
<1>2. op \in OpType /\ op.fn = "none"
  BY HeapConstants DEF HeapInit, NoCall, OpType
<1>3. HeapTypes
  BY <1>1, <1>2, HeapConstants DEF HeapInit, HeapTypes
<1> QED BY <1>2, <1>3 DEF HeapInit, HeapIInv, NoHeap

LEMMA HeapStep == HeapIInv /\ [HeapNext]_heapVars => HeapIInv'
<1> SUFFICES ASSUME HeapIInv, [HeapNext]_heapVars PROVE HeapIInv'
  OBVIOUS
<1>1. HeapTypes
  BY DEF HeapIInv
<1>2. CASE UNCHANGED heapVars
  BY <1>2 DEF heapVars, HeapIInv, HeapTypes, NoHeap, Good
<1>3. CASE HeapNext /\ NoHeap
  <2>1. CASE malloc
    <3>1. {} \in SUBSET (1 .. Units)
      OBVIOUS
    <3>2. HeapTypes' /\ Good({})' /\ freep' # NULL
      BY <1>1, <1>3, <2>1, <3>1, MallocGood
    <3> QED BY <3>1, <3>2 DEF HeapIInv
  <2>2. CASE sbrk
    <3>1. brk' = brk + 1 /\ brk + 1 <= Units /\ UNCHANGED <<hdr, freep, op, arena, held, nomem>>
      BY <2>2 DEF sbrk, CanGrow
    <3>2. brk' \in 2 .. Units /\ arena \subseteq 2 .. brk' - 1
      BY <1>1, <3>1, HeapConstants DEF HeapTypes
    <3>3. HeapTypes' /\ NoHeap'
      BY <1>1, <1>3, <3>1, <3>2 DEF HeapTypes, NoHeap
    <3> QED BY <3>3 DEF HeapIInv
  <2>3. ~free /\ ~passes /\ ~links /\ ~takes /\ ~looks /\ ~morecore
    BY <1>3 DEF NoHeap, free, passes, links, takes, looks, morecore
  <2> QED BY <1>3, <2>1, <2>2, <2>3 DEF HeapNext
<1>4. ASSUME NEW F \in SUBSET (1 .. Units), freep # NULL, Good(F), HeapNext PROVE HeapIInv'
  <2>1. HeapTypes' /\ \E G \in SUBSET (1 .. Units) : Good(G)'
    <3>1. CASE free
      BY <1>1, <1>4, <3>1, FreeGood
    <3>2. CASE passes
      BY <1>1, <1>4, <3>2, PassesGood
    <3>3. CASE links
      BY <1>1, <1>4, <3>3, LinksGood
    <3>4. CASE malloc
      <4>1. (Good(F) /\ freep # NULL) \/ (NoHeap /\ F = {})
        BY <1>4
      <4> QED BY <1>1, <3>4, <4>1, MallocGood
    <3>5. CASE takes
      BY <1>1, <1>4, <3>5, TakesGood
    <3>6. CASE looks
      BY <1>1, <1>4, <3>6, LooksGood
    <3>7. CASE morecore
      BY <1>1, <1>4, <3>7, MorecoreGood
    <3>8. CASE sbrk
      BY <1>1, <1>4, <3>8, SbrkGood
    <3> QED BY <1>4, <3>1, <3>2, <3>3, <3>4, <3>5, <3>6, <3>7, <3>8 DEF HeapNext
  <2>2. PICK G \in SUBSET (1 .. Units) : Good(G)'
    BY <2>1
  <2>3. freep' # NULL
    <3>1. freep' \in G \cup {Base}
      BY <2>2 DEF Good
    <3> QED BY <3>1, HeapConstants
  <2> QED BY <2>1, <2>2, <2>3 DEF HeapIInv
<1> QED BY <1>2, <1>3, <1>4 DEF HeapIInv

\* Every block of the ring is what the one before it points to.
LEMMA RingPointed ==
    ASSUME NEW F \in SUBSET (1 .. Units), Units \in Nat, RingOf(hdr, F), hdr \in Headers
    PROVE  F \in SUBSET Pointed
<1> SUFFICES ASSUME NEW a \in F PROVE a \in Pointed
  OBVIOUS
<1>1. a \in Nat /\ a >= 1
  OBVIOUS
<1>2. PICK q \in F \cup {Base} : Before(F, q, a)
  BY <1>1, SomeBefore
<1>3. PICK n : n = hdr[q].ptr
  OBVIOUS
<1>4. Follows(F, q, n)
  BY <1>3 DEF RingOf
<1>5. q \in Nat /\ q < a /\ \A b \in F : b \in Nat /\ (b < a => b <= q)
  BY <1>2, HeapConstants DEF Before
<1>6. n = a
  <2>1. CASE n \in F /\ q < n /\ \A b \in F : q < b => n <= b
    BY <1>5, <2>1
  <2>2. CASE n = Base /\ \A b \in F : b <= q
    BY <1>5, <2>2
  <2> QED BY <1>4, <2>1, <2>2, Zenon DEF Follows
<1>7. q \in DOMAIN hdr
  <2>1. q \in 0 .. Units
    BY HeapConstants
  <2>2. DOMAIN hdr = 0 .. Units
    BY DEF Headers
  <2> QED BY <2>1, <2>2
<1> QED BY <1>3, <1>6, <1>7 DEF Pointed

LEMMA NoneTouch ==
    ASSUME NEW h, NEW F, NEW B, NEW A, Units \in Nat, Heap(h, F, B, A), JoinedBut(h, F, {}), NEW a \in F, NEW b \in F
    PROVE  a + h[a].size # b
<1> SUFFICES ASSUME b = a + h[a].size PROVE FALSE
  OBVIOUS
<1>1. RingOf(h, F) /\ Tiles(h, B, A) /\ F \subseteq B
  BY DEF Heap
<1>2. /\ \A c \in F : c \in Nat /\ c >= 1 /\ h[c].size \in Nat /\ h[c].size >= 1
      /\ \A c, d \in F : c < d => c + h[c].size <= d
  BY <1>1 DEF Tiles
<1>3. PICK n : n = h[a].ptr
  OBVIOUS
<1>4. Follows(F, a, n)
  BY <1>1, <1>3 DEF RingOf
<1>5. a < b /\ n # b
  BY <1>2, <1>3 DEF JoinedBut
<1>6. CASE n \in F /\ a < n /\ \A c \in F : a < c => n <= c
  <2>1. b <= n /\ n <= b /\ n \in Nat /\ b \in Nat
    BY <1>2, <1>5, <1>6
  <2> QED BY <1>5, <2>1
<1>7. CASE n = Base /\ \A c \in F : c <= a
  BY <1>2, <1>5, <1>7
<1> QED BY <1>4, <1>6, <1>7, Zenon DEF Follows

LEMMA HeapIsRight == HeapIInv => HeapInv
<1> SUFFICES ASSUME HeapIInv PROVE HeapInv
  OBVIOUS
<1>1. CASE NoHeap
  BY <1>1 DEF NoHeap, HeapInv
<1>2. ASSUME NEW F \in SUBSET (1 .. Units), freep # NULL, Good(F) PROVE HeapInv
  <2>1. HeapTypes /\ RingOf(hdr, F) /\ Tiles(hdr, Blocks(F, held, op), arena) /\ JoinedBut(hdr, F, {}) /\ OwnedOnce(hdr, F, held, op)
    BY <1>2 DEF HeapIInv, Good, Heap
  <2>2. F \in SUBSET Pointed
    BY <2>1, HeapConstants, RingPointed DEF HeapTypes
  <2>3. Ring(F)
    <3>1. Base \notin F
      BY HeapConstants
    <3> QED BY <2>1, <3>1 DEF Ring, RingOf
  <2>4. HeapTiled(F)
    <3> DEFINE bs == F \cup Given(held) \cup InHand
    <3>1. InHand = Hand(op) /\ bs = Blocks(F, held, op)
      BY DEF InHand, Hand, Blocks
    <3>2. \A a : Block(a) = BlockOf(hdr, a)
      BY DEF Block, BlockOf
    <3>3. /\ \A a \in bs : a \in Nat /\ hdr[a].size \in Nat /\ BlockOf(hdr, a) \subseteq arena
          /\ \A a, b \in bs : a < b => a + hdr[a].size <= b
          /\ \A y \in arena : \E a \in bs : y \in BlockOf(hdr, a)
      BY <2>1, <3>1 DEF Tiles
    <3> HIDE DEF bs
    <3>4. ASSUME NEW a \in bs, NEW b \in bs, a # b PROVE Block(a) \cap Block(b) = {}
      <4> SUFFICES ASSUME NEW y \in BlockOf(hdr, a), y \in BlockOf(hdr, b) PROVE FALSE
        BY <3>2
      <4>1. a \in Nat /\ b \in Nat /\ hdr[a].size \in Nat /\ hdr[b].size \in Nat
        BY <3>3
      <4>2. a + hdr[a].size <= b \/ b + hdr[b].size <= a
        BY <3>3, <3>4, <4>1
      <4>3. y \in Int /\ y >= a /\ y < a + hdr[a].size /\ y >= b /\ y < b + hdr[b].size
        BY <4>1 DEF BlockOf
      <4> QED BY <4>1, <4>2, <4>3
    <3>5. UNION {Block(a) : a \in bs} = arena
      BY <3>2, <3>3
    <3>6. /\ \A b \in held : hdr[b[1]].size = b[2]
          /\ F \cap Given(held) = {} /\ F \cap InHand = {} /\ Given(held) \cap InHand = {}
      BY <2>1, <3>1 DEF OwnedOnce
    <3> QED BY <3>4, <3>5, <3>6 DEF HeapTiled, bs, Given
  <2>5. RingJoined(F)
    <3>1. \A a, b \in F : a + hdr[a].size # b
      BY <1>2, HeapConstants, NoneTouch DEF Good
    <3>2. op.fn \in {"none", "find", "place"}
      BY <2>1 DEF HeapTypes, OpType
    <3> QED BY <1>2, <3>1, <3>2 DEF RingJoined, Good, Searching, Placing
  <2>6. FailsOnlyWhenFull(F)
    BY <1>2 DEF FailsOnlyWhenFull, Good, NoneFits, Searching
  <2> QED BY <1>2, <2>2, <2>3, <2>4, <2>5, <2>6 DEF HeapInv
<1> QED BY <1>1, <1>2 DEF HeapIInv

\* However a program calls malloc(), free() and sbrk(), nothing that it holds
\* overlaps, nothing that it frees is lost, and malloc() gives up only when no
\* free block is large enough and the break cannot go on.
THEOREM HeapIsWhole == HeapSpec => []HeapInv
<1> QED BY HeapInitInv, HeapStep, HeapIsRight, PTL DEF HeapSpec
=============================================================================
