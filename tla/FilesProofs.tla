----------------------------- MODULE FilesProofs -----------------------------
(* Proofs that blocks, open files and the log are accounted for, and that  *)
(* files hold what was written to them, for any number of processes,       *)
(* inodes, blocks and open files and any sizes of blocks and writes.       *)
EXTENDS Files, FiniteSetTheorems, WellFoundedInduction, TLAPS

-----------------------------------------------------------------------------
(* The inductive invariant *)

Writing == {"begin", "lock", "fail", "map", "zero", "copy", "size", "unlock"}
Filling == {"map", "zero", "copy", "size", "unlock"}
Truncating == {"trunc", "trunc_end"}
Putting == {"put_begin", "put", "unlink"} \cup Truncating
Holding == Filling \cup Truncating
Pcs == {"user"} \cup Writing \cup Putting

JobRec == [pc : Pcs, f : 0..NFILE, i : Ino \cup {0}, left : Nat, n1 : Nat, tot : Nat, b : Nat,
           slot : {"none", "block", "indirect"}]
InodeRec == [used : BOOLEAN, nlink : {0, 1}, size : 0..(MAXFILE * BSIZE), addrs : [0..NDIRECT -> Nat], busy : BOOLEAN]
FileRec == [ref : Nat, ip : Ino \cup {0}, off : Nat]

Types == /\ bitmap \subseteq Block /\ data \in [Block -> [0..(BSIZE - 1) -> Nat]] /\ inode \in [Ino -> InodeRec]
         /\ file \in [File -> FileRec] /\ ofile \in [Proc -> [Fd -> 0..NFILE]] /\ alive \subseteq Proc
         /\ job \in [Proc -> JobRec]

\* Transactions: those that are open, the blocks each has logged, and room in
\* the log for what each may still log.
Out == {p \in Proc : job[p].pc \notin {"user", "begin", "put_begin"}}
Marked(S, m, L) == {x \in S \X L : x[2] \in m[x[1]]}
Pairs(S) == Marked(S, mine, logged)
LogInv == /\ outstanding = Cardinality(Out) /\ IsFiniteSet(logged) /\ over \in BOOLEAN
          /\ mine \in [Proc -> SUBSET logged] /\ \A p \in Proc : p \notin Out => mine[p] = {}
          /\ ~over => /\ \A S \in SUBSET Out : Cardinality(Pairs(S)) <= Cardinality(S) * MAXOPBLOCKS
                      /\ Cardinality(logged) + outstanding * MAXOPBLOCKS <= LOGSIZE + Cardinality(Pairs(Out))

\* A process in a call on an open file has a descriptor of it.
TableInv == /\ RefsExact /\ \A f \in File : file[f].ref > 0 => file[f].ip \in Ino
            /\ \A p \in Proc :
                 /\ p \notin alive => job[p].pc = "user" /\ \A fd \in Fd : ofile[p][fd] = 0
                 /\ job[p].pc \in Writing => /\ job[p].f \in File /\ job[p].i \in Ino /\ job[p].i = file[job[p].f].ip
                                             /\ \E fd \in Fd : ofile[p][fd] = job[p].f

\* Inodes are locked by one process; who frees one is alone with it.
LockInv == /\ \A i \in Ino : inode[i].busy <=> \E p \in Proc : job[p].pc \in Holding /\ job[p].i = i
           /\ \A p, q \in Proc : job[p].pc \in Holding /\ job[q].pc \in Holding /\ job[p].i = job[q].i => p = q
           /\ \A p \in Proc : job[p].pc \in Putting => job[p].i \in Ino /\ inode[job[p].i].used
           /\ \A p \in Proc : job[p].pc \in Truncating =>
                /\ inode[job[p].i].nlink = 0 /\ Using(job[p].i) = {}
                /\ \A q \in Proc : job[q].pc \in Putting /\ job[q].i = job[p].i => q = p
           /\ \A i \in Ino : ~inode[i].used => inode[i] = NoInode

\* Where a writer is in its chunk and a truncation in its inode.
Chunk(p) ==
    LET j == job[p]
        n == Off(j) \div BSIZE
    IN  /\ j.pc \in Writing => j.left > 0
        /\ j.pc \in Filling => j.n1 > 0 /\ j.n1 <= j.left
        /\ j.pc \in {"map", "zero", "copy"} => j.tot < j.n1
        /\ j.pc = "size" => j.tot = j.n1
        /\ j.pc \in {"map", "zero", "copy", "size"} => file[j.f].off + j.n1 <= MAXFILE * BSIZE
        /\ j.pc = "zero" => Addr(j.i, n) = 0 /\ j.slot = Slot(j.i, n)
        /\ j.pc = "copy" => j.b # 0 /\ Addr(j.i, n) = j.b
        /\ j.pc = "trunc_end" => \A k \in 0..NDIRECT : inode[j.i].addrs[k] = 0

\* Every block has one owner, P being the places of blocks.
Owned(P, B) == (\A x, y \in P : x[3] = y[3] => x = y) /\ {x[3] : x \in P} = B
OwnInv == Owned(Places, bitmap) /\ \A p \in Proc : Chunk(p)

PanicInv == panicked \in {"no", "log", "blocks"} /\ PanicsExplained

Inv == Types /\ LogInv /\ TableInv /\ LockInv /\ OwnInv /\ PanicInv

-----------------------------------------------------------------------------
(* Constants and numbers *)

LEMMA Consts ==
    /\ 0 \notin Block /\ 0 \notin File /\ 0 \in 0..NFILE /\ File \subseteq 0..NFILE /\ Block \subseteq Nat
    /\ NBLOCK \in Nat /\ NDIRECT \in Nat /\ BSIZE \in Nat /\ BSIZE > 0 /\ NINDIRECT \in Nat /\ NINDIRECT <= BSIZE
    /\ MAXFILE \in Nat /\ MAXFILE * BSIZE \in Nat /\ NFILE \in Nat /\ NOFILE \in Nat /\ IsFiniteSet(Proc)
    /\ MAXOPBLOCKS \in Nat /\ LOGSIZE \in Nat /\ NLOG \in Nat /\ MAXCHUNK \in Nat /\ MAXCHUNK > 0
<1>1. /\ 0 \notin Block /\ 0 \notin File /\ 0 \in 0..NFILE /\ File \subseteq 0..NFILE /\ Block \subseteq Nat
      /\ NBLOCK \in Nat /\ NDIRECT \in Nat /\ BSIZE \in Nat /\ BSIZE > 0 /\ NINDIRECT \in Nat /\ NINDIRECT <= BSIZE
      /\ NFILE \in Nat /\ NOFILE \in Nat /\ IsFiniteSet(Proc)
      /\ MAXOPBLOCKS \in Nat /\ LOGSIZE \in Nat /\ NLOG \in Nat
  BY FilesAssumption DEF Block, File
<1>2. MAXFILE \in Nat
  BY <1>1 DEF MAXFILE
<1>3. MAXFILE * BSIZE \in Nat
  BY <1>1, <1>2
<1>4. (LOGSIZE - 1 - 1 - 2) \div 2 \in Nat /\ (LOGSIZE - 1 - 1 - 2) \div 2 > 0
  BY FilesAssumption
<1>5. MAXCHUNK \in Nat /\ MAXCHUNK > 0
  BY <1>1, <1>4 DEF MAXCHUNK
<1> QED
  BY <1>1, <1>2, <1>3, <1>5

LEMMA MinIn ==
    ASSUME NEW S \in SUBSET Nat, S # {}
    PROVE  Min(S) \in S /\ \A x \in S : Min(S) <= x
<1>1. PICK m \in S : \A x \in S : <<x, m>> \notin OpToRel(<, Nat)
  BY NatLessThanWellFounded, WFMin
<1>2. ASSUME NEW x \in S PROVE m <= x
  <2>1. ASSUME x < m PROVE FALSE
    <3>1. <<x, m>> \in Nat \X Nat /\ <<x, m>>[1] < <<x, m>>[2]
      BY <2>1
    <3>2. <<x, m>> \in OpToRel(<, Nat)
      BY <3>1 DEF OpToRel
    <3> QED
      BY <1>1, <3>2
  <2> QED
    BY <2>1
<1> QED
  BY <1>2 DEF Min

LEMMA MinTwo ==
    ASSUME NEW a \in Nat, NEW b \in Nat
    PROVE  Min({a, b}) \in {a, b} /\ Min({a, b}) <= a /\ Min({a, b}) <= b
BY MinIn

LEMMA MaxTwo ==
    ASSUME NEW a \in Nat, NEW b \in Nat
    PROVE  Max({a, b}) = IF a >= b THEN a ELSE b
<1>1. \E x \in {a, b} : \A y \in {a, b} : x >= y
  OBVIOUS
<1> QED
  BY <1>1 DEF Max

-----------------------------------------------------------------------------
(* Owners of blocks *)

PlaceD(x) == \E i \in Ino, n \in 0..NDIRECT : x = <<i, n, inode[i].addrs[n]>> /\ inode[i].addrs[n] # 0
PlaceE(x) == \E i \in Ino : Indirect(i) # 0 /\ \E k \in Entries(i) :
                x = <<i, NDIRECT + 1 + k, data[Indirect(i)][k]>> /\ data[Indirect(i)][k] # 0
PlaceZ(x) == \E p \in Proc : job[p].pc = "zero" /\ x = <<p, -1, job[p].b>>

LEMMA PlacesAre == \A x : x \in Places <=> PlaceD(x) \/ PlaceE(x) \/ PlaceZ(x)
<1> SUFFICES ASSUME NEW x PROVE x \in Places <=> PlaceD(x) \/ PlaceE(x) \/ PlaceZ(x)
  OBVIOUS
<1> DEFINE D == {pl \in UNION {{<<i, n, inode[i].addrs[n]>> : n \in 0..NDIRECT} : i \in Ino} : pl[3] # 0}
           E == {pl \in UNION {{<<i, NDIRECT + 1 + k, data[Indirect(i)][k]>> : k \in Entries(i)}
                                 : i \in {y \in Ino : Indirect(y) # 0}} : pl[3] # 0}
           Z == {<<p, -1, job[p].b>> : p \in {q \in Proc : job[q].pc = "zero"}}
<1>1. x \in D <=> PlaceD(x)
  BY DEF PlaceD
<1>2. x \in E <=> PlaceE(x)
  BY DEF PlaceE
<1>3. x \in Z <=> PlaceZ(x)
  BY DEF PlaceZ
<1>4. Places = D \cup E \cup Z
  BY DEF Places
<1> HIDE DEF D, E, Z
<1> QED
  BY <1>1, <1>2, <1>3, <1>4

LEMMA PlacesNext == \A x : x \in Places' <=> PlaceD(x)' \/ PlaceE(x)' \/ PlaceZ(x)'
<1>1. (\A x : x \in Places <=> PlaceD(x) \/ PlaceE(x) \/ PlaceZ(x))'
  BY PlacesAre, PTL
<1> QED
  BY <1>1

LEMMA OwnedAdds ==
    ASSUME NEW P, NEW B, Owned(P, B), NEW y, y[3] \notin B
    PROVE  Owned(P \cup {y}, B \cup {y[3]})
BY DEF Owned

LEMMA OwnedMoves ==
    ASSUME NEW P, NEW B, Owned(P, B), NEW x \in P, NEW y, x[3] = y[3]
    PROVE  Owned((P \ {x}) \cup {y}, B)
BY DEF Owned

LEMMA OwnedDrops ==
    ASSUME NEW P, NEW B, Owned(P, B), NEW x \in P
    PROVE  Owned(P \ {x}, B \ {x[3]})
BY DEF Owned

-----------------------------------------------------------------------------
(* Transactions in the log *)

\* The pairs of a set of processes, one process apart.
LEMMA PairsSplit ==
    ASSUME NEW L, NEW m \in [Proc -> SUBSET L], IsFiniteSet(L), NEW S \in SUBSET Proc, NEW p \in S
    PROVE  /\ IsFiniteSet(m[p]) /\ Cardinality(m[p]) \in Nat
           /\ Cardinality(Marked(S, m, L)) \in Nat /\ Cardinality(Marked(S \ {p}, m, L)) \in Nat
           /\ Cardinality(Marked(S, m, L)) = Cardinality(Marked(S \ {p}, m, L)) + Cardinality(m[p])
<1>1. IsFiniteSet(m[p]) /\ IsFiniteSet(S) /\ IsFiniteSet({p}) /\ Cardinality({p}) = 1
  BY FilesAssumption, FS_Subset, FS_Singleton
<1>2. Cardinality(m[p]) \in Nat
  BY <1>1, FS_CardinalityType
<1>3. IsFiniteSet({p} \X m[p]) /\ Cardinality({p} \X m[p]) = Cardinality({p}) * Cardinality(m[p])
  BY <1>1, FS_Product
<1>4. Cardinality({p} \X m[p]) = Cardinality(m[p])
  BY <1>1, <1>2, <1>3
<1>5. IsFiniteSet(S \X L)
  BY <1>1, FS_Product
<1>6. Marked(S, m, L) \subseteq S \X L /\ Marked(S \ {p}, m, L) \subseteq S \X L
  BY DEF Marked
<1>7. IsFiniteSet(Marked(S, m, L)) /\ IsFiniteSet(Marked(S \ {p}, m, L))
  BY <1>5, <1>6, FS_Subset
<1>8. Marked(S, m, L) = Marked(S \ {p}, m, L) \cup ({p} \X m[p]) /\ Marked(S \ {p}, m, L) \cap ({p} \X m[p]) = {}
  BY DEF Marked
<1> DEFINE A == Marked(S \ {p}, m, L)
           X == {p} \X m[p]
<1>9. IsFiniteSet(A) /\ IsFiniteSet(X) /\ A \cap X = {} /\ Marked(S, m, L) = A \cup X
      /\ Cardinality(X) = Cardinality(m[p])
  BY <1>3, <1>4, <1>7, <1>8
<1> HIDE DEF A, X
<1>10. Cardinality(A \cup X) = Cardinality(A) + Cardinality(X) - Cardinality(A \cap X)
  BY <1>9, FS_Union
<1>11. Cardinality(A) \in Nat /\ Cardinality(A \cap X) = 0 /\ Cardinality(Marked(S, m, L)) \in Nat
  BY <1>7, <1>9, FS_CardinalityType, FS_EmptySet
<1>12. Cardinality(Marked(S, m, L)) = Cardinality(A) + Cardinality(m[p])
  BY <1>2, <1>9, <1>10, <1>11
<1> USE DEF A
<1> QED
  BY <1>1, <1>2, <1>11, <1>12

LEMMA NoPairs == Pairs({}) = {} /\ Cardinality(Pairs({})) = 0
<1>1. Pairs({}) = {}
  BY DEF Pairs, Marked
<1> QED
  BY <1>1, FS_EmptySet

LEMMA OutFinite == Out \subseteq Proc /\ IsFiniteSet(Out) /\ Cardinality(Out) \in Nat
<1>1. Out \subseteq Proc
  BY DEF Out
<1>2. IsFiniteSet(Out)
  BY <1>1, FilesAssumption, FS_Subset
<1> QED
  BY <1>1, <1>2, FS_CardinalityType

\* Nothing logged, no transaction begun or ended.
LEMMA LogQuiet ==
    ASSUME LogInv, UNCHANGED logVars, Out' = Out
    PROVE  LogInv'
<1>1. outstanding' = outstanding /\ logged' = logged /\ mine' = mine /\ over' = over
  BY DEF logVars
<1>2. \A S : Pairs(S)' = Pairs(S)
  BY <1>1 DEF Pairs, Marked
<1> QED
  BY <1>1, <1>2 DEF LogInv

LEMMA LogBegin ==
    ASSUME LogInv, NEW p \in Proc, p \notin Out, Out' = Out \cup {p}, begin_op(p)
    PROVE  LogInv'
<1>1. outstanding' = outstanding + 1 /\ logged' = logged /\ over' = over
  BY DEF begin_op
<1>2. mine' = mine
  BY DEF begin_op, LogInv
<1>3. Cardinality(Out \cup {p}) = Cardinality(Out) + 1 /\ Cardinality(Out) \in Nat
  BY OutFinite, FS_AddElement
<1>4. \A S : Pairs(S)' = Pairs(S)
  BY <1>1, <1>2 DEF Pairs, Marked
<1>5. outstanding \in Nat /\ MAXOPBLOCKS \in Nat /\ Cardinality(logged) \in Nat
  BY <1>3, FilesAssumption, FS_CardinalityType DEF LogInv
<1>6. Pairs(Out \cup {p}) = Pairs(Out)
  BY DEF Pairs, Marked, LogInv
<1>7. ASSUME ~over PROVE Cardinality(logged) + outstanding' * MAXOPBLOCKS <= LOGSIZE + Cardinality(Pairs(Out))
  <2>1. Cardinality(Pairs(Out)) \in Nat
    <3>1. Pairs(Out) \subseteq Out \X logged
      BY DEF Pairs, Marked
    <3>2. IsFiniteSet(Out \X logged)
      BY OutFinite, FS_Product DEF LogInv
    <3> QED
      BY <3>1, <3>2, FS_Subset, FS_CardinalityType
  <2>2. Cardinality(logged) + (outstanding + 1) * MAXOPBLOCKS <= LOGSIZE
    BY DEF begin_op, MayBegin
  <2>3. LOGSIZE \in Nat
    BY FilesAssumption
  <2>4. (outstanding + 1) * MAXOPBLOCKS \in Nat
    BY <1>5
  <2> QED
    BY <1>1, <1>5, <2>1, <2>2, <2>3, <2>4
<1>8. ASSUME ~over, NEW S \in SUBSET (Out \cup {p}) PROVE Cardinality(Pairs(S)) <= Cardinality(S) * MAXOPBLOCKS
  <2>1. CASE p \notin S
    BY <1>8, <2>1 DEF LogInv
  <2>2. CASE p \in S
    <3>1. Pairs(S) = Pairs(S \ {p}) /\ S \ {p} \in SUBSET Out
      BY DEF Pairs, Marked, LogInv
    <3>2. Cardinality(Pairs(S \ {p})) <= Cardinality(S \ {p}) * MAXOPBLOCKS
      BY <1>8, <3>1 DEF LogInv
    <3>3. IsFiniteSet(S)
      BY OutFinite, FilesAssumption, FS_Subset
    <3>4. Cardinality(S \ {p}) = Cardinality(S) - 1
      BY <2>2, <3>3, FS_RemoveElement
    <3>5. Cardinality(S) \in Nat /\ Cardinality(S \ {p}) \in Nat
      BY <3>3, FS_RemoveElement, FS_CardinalityType
    <3>6. Cardinality(Pairs(S)) \in Nat
      <4>1. Pairs(S) \subseteq S \X logged
        BY DEF Pairs, Marked
      <4>2. IsFiniteSet(S \X logged)
        BY <3>3, FS_Product DEF LogInv
      <4> QED
        BY <4>1, <4>2, FS_Subset, FS_CardinalityType
    <3>7. Cardinality(S) * MAXOPBLOCKS = Cardinality(S \ {p}) * MAXOPBLOCKS + MAXOPBLOCKS
      BY <1>5, <3>4, <3>5
    <3>8. Cardinality(S \ {p}) * MAXOPBLOCKS \in Nat /\ Cardinality(S) * MAXOPBLOCKS \in Nat
      BY <1>5, <3>5
    <3> QED
      BY <1>5, <3>1, <3>2, <3>6, <3>7, <3>8
  <2> QED
    BY <2>1, <2>2
<1>9. \A q \in Proc : q \notin Out \cup {p} => mine[q] = {}
  BY DEF LogInv
<1>10. outstanding' = Cardinality(Out')
  BY <1>1, <1>3 DEF LogInv
<1>11. IsFiniteSet(logged') /\ over' \in BOOLEAN /\ mine' \in [Proc -> SUBSET logged']
  BY <1>1, <1>2 DEF LogInv
<1>12. ~over' => /\ \A S \in SUBSET Out' : Cardinality(Pairs(S)') <= Cardinality(S) * MAXOPBLOCKS
                 /\ Cardinality(logged') + outstanding' * MAXOPBLOCKS <= LOGSIZE + Cardinality(Pairs(Out'))
  BY <1>1, <1>4, <1>6, <1>7, <1>8
<1>13. Pairs(Out)' = Pairs(Out')
  BY <1>4
<1> QED
  BY <1>2, <1>9, <1>10, <1>11, <1>12, <1>13 DEF LogInv

\* The last transaction empties the log.
LEMMA LogEnd ==
    ASSUME LogInv, NEW p \in Proc, p \in Out, Out' = Out \ {p}, end_op(p)
    PROVE  LogInv'
<1>1. /\ outstanding' = outstanding - 1 /\ logged' = IF outstanding = 1 THEN {} ELSE logged
      /\ over' = (over /\ outstanding > 1) /\ mine' = [mine EXCEPT ![p] = {}]
  BY DEF end_op
<1>2. /\ Cardinality(Out) \in Nat /\ Cardinality(Out \ {p}) = Cardinality(Out) - 1 /\ Cardinality(Out) # 0
      /\ IsFiniteSet(Out) /\ IsFiniteSet(Out \ {p})
  BY OutFinite, FS_RemoveElement, FS_EmptySet
<1>3. outstanding \in Nat /\ outstanding # 0 /\ outstanding' = Cardinality(Out')
  BY <1>1, <1>2 DEF LogInv
<1>4. mine \in [Proc -> SUBSET logged] /\ IsFiniteSet(logged) /\ over \in BOOLEAN
  BY DEF LogInv
<1>5. \A q \in Proc : q \notin Out' => mine'[q] = {}
  BY <1>1 DEF LogInv
<1>6. CASE outstanding = 1
  <2>1. Out' = {} /\ logged' = {} /\ over' = FALSE /\ outstanding' = 0
    <3>1. Cardinality(Out \ {p}) = 0
      BY <1>2, <1>3, <1>6 DEF LogInv
    <3>2. Out \ {p} = {}
      BY <1>2, <3>1, FS_EmptySet
    <3>3. ~(outstanding > 1) /\ outstanding' = 0
      BY <1>1, <1>6
    <3>4. over' = FALSE
      BY <1>1, <3>3, Zenon
    <3> QED
      BY <1>1, <1>6, <3>2, <3>3, <3>4
  <2>2. mine' \in [Proc -> SUBSET logged']
    <3>1. \A q \in Proc : mine'[q] = {}
      BY <1>5, <2>1
    <3> QED
      BY <1>1, <1>4, <3>1
  <2>3. IsFiniteSet(logged') /\ Cardinality(logged') = 0
    BY <2>1, FS_EmptySet
  <2>4. \A S \in SUBSET Out' : Cardinality(Pairs(S)') <= Cardinality(S) * MAXOPBLOCKS
    <3>1. Cardinality({}) = 0 /\ 0 * MAXOPBLOCKS = 0
      BY FilesAssumption, FS_EmptySet
    <3>2. Pairs({})' = {}
      BY DEF Pairs, Marked
    <3> QED
      BY <2>1, <3>1, <3>2
  <2>5. Cardinality(logged') + outstanding' * MAXOPBLOCKS <= LOGSIZE + Cardinality(Pairs(Out)')
    <3>1. Pairs(Out)' = {}
      BY <2>1 DEF Pairs, Marked
    <3> QED
      BY <2>1, <2>3, <3>1, FilesAssumption, FS_EmptySet
  <2> QED
    BY <1>3, <1>5, <2>1, <2>2, <2>3, <2>4, <2>5 DEF LogInv
<1>7. CASE outstanding # 1
  <2>1. logged' = logged /\ over' = over /\ outstanding > 1
    <3>1. outstanding > 1
      BY <1>3, <1>7
    <3> QED
      BY <1>1, <1>4, <1>7, <3>1
  <2>2. mine' \in [Proc -> SUBSET logged'] /\ \A q \in Out' : mine'[q] = mine[q]
    BY <1>1, <1>4, <2>1, OutFinite
  <2>3. \A S \in SUBSET Out' : Pairs(S)' = Pairs(S)
    BY <2>1, <2>2 DEF Pairs, Marked
  <2>4. Pairs(Out)' = Pairs(Out \ {p})
    BY <2>3
  <2>5. ASSUME ~over PROVE Cardinality(logged) + outstanding' * MAXOPBLOCKS <= LOGSIZE + Cardinality(Pairs(Out \ {p}))
    <3>1. /\ Cardinality(mine[p]) \in Nat /\ Cardinality(Pairs(Out)) \in Nat /\ Cardinality(Pairs(Out \ {p})) \in Nat
          /\ Cardinality(Pairs(Out)) = Cardinality(Pairs(Out \ {p})) + Cardinality(mine[p])
      BY <1>4, OutFinite, PairsSplit DEF Pairs
    <3>2. Cardinality(mine[p]) <= MAXOPBLOCKS
      <4>1. {p} \in SUBSET Out /\ {p} \in SUBSET Proc /\ Cardinality({p}) = 1
        BY FS_Singleton
      <4>2. Cardinality(Pairs({p})) = Cardinality(Pairs({p} \ {p})) + Cardinality(mine[p])
        BY <1>4, <4>1, PairsSplit DEF Pairs
      <4>3. Cardinality(Pairs({p} \ {p})) = 0
        BY NoPairs
      <4>4. Cardinality(Pairs({p})) <= 1 * MAXOPBLOCKS
        BY <2>5, <4>1 DEF LogInv
      <4>5. MAXOPBLOCKS \in Nat
        BY FilesAssumption
      <4> QED
        BY <3>1, <4>2, <4>3, <4>4, <4>5
    <3>3. Cardinality(logged) + outstanding * MAXOPBLOCKS <= LOGSIZE + Cardinality(Pairs(Out))
      BY <2>5 DEF LogInv
    <3>4. MAXOPBLOCKS \in Nat /\ LOGSIZE \in Nat /\ Cardinality(logged) \in Nat
      BY <1>4, FilesAssumption, FS_CardinalityType
    <3>5. outstanding * MAXOPBLOCKS = outstanding' * MAXOPBLOCKS + MAXOPBLOCKS
      BY <1>1, <1>3, <3>4
    <3>6. outstanding * MAXOPBLOCKS \in Nat /\ outstanding' * MAXOPBLOCKS \in Nat
      BY <1>1, <1>3, <3>4
    <3> QED
      BY <3>1, <3>2, <3>3, <3>4, <3>5, <3>6
  <2>6. ASSUME ~over, NEW S \in SUBSET Out' PROVE Cardinality(Pairs(S)') <= Cardinality(S) * MAXOPBLOCKS
    BY <2>3, <2>6 DEF LogInv
  <2> QED
    BY <1>3, <1>4, <1>5, <2>1, <2>2, <2>4, <2>5, <2>6 DEF LogInv
<1> QED
  BY <1>6, <1>7

\* What is logged stays within the reservations.
LEMMA LogBound ==
    LogInv /\ ~over => Cardinality(logged) <= LOGSIZE
<1> SUFFICES ASSUME LogInv, ~over PROVE Cardinality(logged) <= LOGSIZE
  OBVIOUS
<1>1. Cardinality(Pairs(Out)) <= Cardinality(Out) * MAXOPBLOCKS
  BY DEF LogInv
<1>2. Cardinality(logged) + outstanding * MAXOPBLOCKS <= LOGSIZE + Cardinality(Pairs(Out)) /\ outstanding = Cardinality(Out)
  BY DEF LogInv
<1>3. Cardinality(logged) \in Nat /\ LOGSIZE \in Nat /\ MAXOPBLOCKS \in Nat /\ Cardinality(Out) \in Nat
  BY FilesAssumption, OutFinite, FS_CardinalityType DEF LogInv
<1>4. Cardinality(Out) * MAXOPBLOCKS \in Nat
  BY <1>3
<1>5. Cardinality(Pairs(Out)) \in Nat
  <2>1. Pairs(Out) \subseteq Out \X logged
    BY DEF Pairs, Marked
  <2>2. IsFiniteSet(Out \X logged)
    BY OutFinite, FS_Product DEF LogInv
  <2> QED
    BY <2>1, <2>2, FS_Subset, FS_CardinalityType
<1> HIDE DEF Out
<1> QED
  BY <1>1, <1>2, <1>3, <1>4, <1>5

LEMMA LogBoundNext == LogInv' /\ ~over' => Cardinality(logged') <= LOGSIZE
<1>1. (LogInv /\ ~over => Cardinality(logged) <= LOGSIZE)'
  BY LogBound, PTL
<1> QED
  BY <1>1

LEMMA RangeFinite ==
    ASSUME NEW bs \in Seq(Int)
    PROVE  IsFiniteSet(Range(bs)) /\ \A m \in DOMAIN bs : bs[m] \in Range(bs)
<1>1. IsFiniteSet(1..Len(bs)) /\ DOMAIN bs = 1..Len(bs)
  BY FS_Interval
<1>2. Range(bs) = {bs[m] : m \in DOMAIN bs}
  BY DEF Range
<1>3. bs \in Surjection(1..Len(bs), Range(bs))
  BY <1>1, <1>2 DEF Surjection
<1> QED
  BY <1>1, <1>2, <1>3, FS_Surjection

\* What log_write() adds to the log it adds to a transaction, too.
LEMMA LogWrites ==
    ASSUME LogInv, NEW p \in Out, NEW bs \in Seq(Int), log_write(p, bs), Out' = Out
    PROVE  LogInv'
<1> DEFINE R == Range(bs)
<1>1. /\ outstanding' = outstanding /\ logged' = logged \cup R /\ mine' = [mine EXCEPT ![p] = mine[p] \cup R]
      /\ over' = (over \/ Cardinality(mine[p] \cup R) > MAXOPBLOCKS)
  BY DEF log_write
<1>2. IsFiniteSet(R)
  BY RangeFinite
<1> HIDE DEF R
<1>3. p \in Proc /\ mine \in [Proc -> SUBSET logged] /\ IsFiniteSet(logged) /\ over \in BOOLEAN
  BY OutFinite DEF LogInv
<1>4. IsFiniteSet(logged') /\ mine' \in [Proc -> SUBSET logged'] /\ over' \in BOOLEAN
  <2>1. IsFiniteSet(logged \cup R)
    BY <1>2, <1>3, FS_Union
  <2>2. mine' \in [Proc -> SUBSET (logged \cup R)]
    BY <1>1, <1>3
  <2>3. over' \in BOOLEAN
    BY <1>1, Zenon
  <2> QED
    BY <1>1, <2>1, <2>2, <2>3
<1>5. \A q \in Proc : q \notin Out => mine'[q] = {}
  BY <1>1 DEF LogInv
<1>6. IsFiniteSet(mine[p]) /\ Cardinality(mine[p]) \in Nat /\ mine[p] \subseteq logged
  BY <1>3, FS_Subset, FS_CardinalityType
<1>7. /\ Cardinality(mine'[p]) \in Nat /\ Cardinality(logged') \in Nat /\ Cardinality(logged) \in Nat
      /\ Cardinality(logged') - Cardinality(logged) <= Cardinality(mine'[p]) - Cardinality(mine[p])
  <2>1. logged' = logged \cup (R \ logged) /\ logged \cap (R \ logged) = {}
    BY <1>1
  <2>2. mine'[p] = mine[p] \cup (R \ mine[p]) /\ mine[p] \cap (R \ mine[p]) = {}
    BY <1>1, <1>3
  <2>3. R \ logged \subseteq R \ mine[p] /\ IsFiniteSet(R \ mine[p]) /\ IsFiniteSet(R \ logged)
    BY <1>2, <1>6, FS_Subset
  <2>4. Cardinality(R \ logged) <= Cardinality(R \ mine[p])
    BY <2>3, FS_Subset
  <2> DEFINE A == R \ logged
             B == R \ mine[p]
  <2>5. Cardinality(logged \cup A) = Cardinality(logged) + Cardinality(A) - Cardinality(logged \cap A)
    <3>1. IsFiniteSet(A)
      BY <2>3
    <3> HIDE DEF A
    <3> QED
      BY <1>3, <3>1, FS_Union
  <2>6. Cardinality(mine[p] \cup B) = Cardinality(mine[p]) + Cardinality(B) - Cardinality(mine[p] \cap B)
    <3>1. IsFiniteSet(B)
      BY <2>3
    <3> HIDE DEF B
    <3> QED
      BY <1>6, <3>1, FS_Union
  <2>7. Cardinality(logged \cap A) = 0 /\ Cardinality(mine[p] \cap B) = 0
    BY <2>1, <2>2, FS_EmptySet
  <2>8. Cardinality(A) \in Nat /\ Cardinality(B) \in Nat /\ Cardinality(logged) \in Nat
    BY <1>3, <2>3, FS_CardinalityType
  <2>9. logged' = logged \cup A /\ mine'[p] = mine[p] \cup B /\ Cardinality(A) <= Cardinality(B)
    BY <2>1, <2>2, <2>4
  <2> HIDE DEF A, B
  <2> QED
    BY <1>6, <2>5, <2>6, <2>7, <2>8, <2>9
<1> DEFINE After(S) == Marked(S, mine', logged')
<1>8. \A S \in SUBSET Proc : p \notin S => After(S) = Pairs(S)
  <2>1. \A q \in Proc : q # p => mine'[q] = mine[q]
    BY <1>1, <1>3
  <2>2. \A q \in Proc : mine[q] \subseteq logged
    BY <1>3
  <2>3. logged \subseteq logged'
    BY <1>1
  <2> QED
    BY <2>1, <2>2, <2>3 DEF Pairs, Marked
<1>9. ASSUME NEW S \in SUBSET Out, p \in S
      PROVE  /\ Cardinality(After(S)) \in Nat /\ Cardinality(Pairs(S \ {p})) \in Nat
             /\ Cardinality(After(S)) = Cardinality(Pairs(S \ {p})) + Cardinality(mine'[p])
  <2>1. S \in SUBSET Proc
    BY OutFinite
  <2>2. /\ Cardinality(After(S)) \in Nat /\ Cardinality(After(S \ {p})) \in Nat
        /\ Cardinality(After(S)) = Cardinality(After(S \ {p})) + Cardinality(mine'[p])
    BY <1>4, <1>9, <2>1, PairsSplit
  <2>3. After(S \ {p}) = Pairs(S \ {p})
    BY <1>8, <2>1
  <2> QED
    BY <2>2, <2>3
<1>10. MAXOPBLOCKS \in Nat /\ LOGSIZE \in Nat
  BY FilesAssumption
<1>11. ~over' => ~over /\ Cardinality(mine'[p]) <= MAXOPBLOCKS
  <2>1. mine'[p] = mine[p] \cup R
    BY <1>1, <1>3
  <2>2. ~over' => ~over /\ ~(Cardinality(mine[p] \cup R) > MAXOPBLOCKS)
    BY <1>1, <1>3, Zenon
  <2>3. Cardinality(mine[p] \cup R) \in Nat
    BY <1>7, <2>1
  <2>4. ~(Cardinality(mine[p] \cup R) > MAXOPBLOCKS) => Cardinality(mine[p] \cup R) <= MAXOPBLOCKS
    BY <1>10, <2>3
  <2> QED
    BY <2>1, <2>2, <2>4
<1>12. ASSUME ~over', NEW S \in SUBSET Out PROVE Cardinality(After(S)) <= Cardinality(S) * MAXOPBLOCKS
  <2>1. CASE p \notin S
    BY <1>8, <1>11, <1>12, <2>1, OutFinite DEF LogInv
  <2>2. CASE p \in S
    <3>1. Cardinality(Pairs(S \ {p})) <= Cardinality(S \ {p}) * MAXOPBLOCKS
      BY <1>11, <1>12 DEF LogInv
    <3>2. IsFiniteSet(S)
      BY OutFinite, FS_Subset
    <3>3. Cardinality(S) \in Nat /\ Cardinality(S \ {p}) \in Nat /\ Cardinality(S \ {p}) = Cardinality(S) - 1
      BY <2>2, <3>2, FS_RemoveElement, FS_CardinalityType
    <3>4. Cardinality(S) * MAXOPBLOCKS = Cardinality(S \ {p}) * MAXOPBLOCKS + MAXOPBLOCKS
      BY <1>10, <3>3
    <3>5. Cardinality(S \ {p}) * MAXOPBLOCKS \in Nat /\ Cardinality(S) * MAXOPBLOCKS \in Nat
      BY <1>10, <3>3
    <3>6. /\ Cardinality(After(S)) \in Nat /\ Cardinality(Pairs(S \ {p})) \in Nat
          /\ Cardinality(After(S)) = Cardinality(Pairs(S \ {p})) + Cardinality(mine'[p])
      BY <1>9, <2>2
    <3>7. Cardinality(mine'[p]) <= MAXOPBLOCKS /\ Cardinality(mine'[p]) \in Nat
      BY <1>7, <1>11, <1>12
    <3> QED
      BY <1>10, <3>1, <3>4, <3>5, <3>6, <3>7
  <2> QED
    BY <2>1, <2>2
<1>13. ASSUME ~over' PROVE Cardinality(logged') + outstanding * MAXOPBLOCKS <= LOGSIZE + Cardinality(After(Out))
  <2>1. Cardinality(logged) + outstanding * MAXOPBLOCKS <= LOGSIZE + Cardinality(Pairs(Out))
    BY <1>11, <1>13 DEF LogInv
  <2>2. /\ Cardinality(After(Out)) \in Nat /\ Cardinality(Pairs(Out \ {p})) \in Nat
        /\ Cardinality(After(Out)) = Cardinality(Pairs(Out \ {p})) + Cardinality(mine'[p])
    BY <1>9
  <2>3. /\ Cardinality(Pairs(Out)) \in Nat
        /\ Cardinality(Pairs(Out)) = Cardinality(Pairs(Out \ {p})) + Cardinality(mine[p])
    BY <1>3, OutFinite, PairsSplit DEF Pairs
  <2>4. outstanding * MAXOPBLOCKS \in Nat
    BY <1>10, OutFinite DEF LogInv
  <2> HIDE DEF After
  <2>5. Cardinality(logged) \in Nat /\ Cardinality(logged') \in Nat /\ Cardinality(mine[p]) \in Nat
    BY <1>6, <1>7
  <2> DEFINE a == Cardinality(After(Out))
             b == Cardinality(Pairs(Out))
             c == Cardinality(Pairs(Out \ {p}))
             d == outstanding * MAXOPBLOCKS
  <2>6. /\ a \in Nat /\ b \in Nat /\ c \in Nat /\ d \in Nat
        /\ a = c + Cardinality(mine'[p]) /\ b = c + Cardinality(mine[p])
        /\ Cardinality(logged) + d <= LOGSIZE + b
    BY <2>1, <2>2, <2>3, <2>4
  <2> HIDE DEF a, b, c, d
  <2>7. Cardinality(logged') + d <= LOGSIZE + a
    BY <1>7, <1>10, <2>5, <2>6, SMTT(30)
  <2> QED
    BY <2>7 DEF a, d
<1>14. Pairs(Out)' = After(Out)
  BY DEF Pairs
<1>15. \A S \in SUBSET Out' : Pairs(S)' = After(S)
  BY DEF Pairs
<1> HIDE DEF After
<1>16. outstanding' = Cardinality(Out')
  BY <1>1 DEF LogInv
<1> QED
  BY <1>1, <1>4, <1>5, <1>12, <1>13, <1>14, <1>15, <1>16 DEF LogInv

\* A log that refuses a block is full.
LEMMA FullRefuses ==
    ASSUME LogInv, LogInv', NEW bs \in Seq(Int), panicked' = IF Full(bs) THEN "log" ELSE "no",
           Full(bs) => logged' = logged \cup Range(bs)
    PROVE  PanicInv'
<1>1. ~over' => Cardinality(logged') <= LOGSIZE
  BY LogBoundNext
<1>2. panicked' \in {"no", "log"}
  OBVIOUS
<1>3. ASSUME panicked' = "log", ~over', ~(NLOG <= LOGSIZE) PROVE Cardinality(logged') = LOGSIZE
  <2>1. PICK k \in DOMAIN bs : Cardinality(logged \cup {bs[m] : m \in 1..(k - 1)}) >= Min({LOGSIZE, NLOG - 1})
    BY <1>3 DEF Full
  <2>2. Min({LOGSIZE, NLOG - 1}) = LOGSIZE
    <3>1. LOGSIZE \in Nat /\ NLOG - 1 \in Nat /\ LOGSIZE <= NLOG - 1
      BY <1>3, FilesAssumption
    <3>2. Min({LOGSIZE, NLOG - 1}) \in {LOGSIZE, NLOG - 1} /\ Min({LOGSIZE, NLOG - 1}) <= LOGSIZE
      BY <3>1, MinTwo
    <3> QED
      BY <3>1, <3>2
  <2>3. IsFiniteSet(logged') /\ logged' = logged \cup Range(bs)
    BY <1>3 DEF LogInv
  <2>4. {bs[m] : m \in 1..(k - 1)} \subseteq Range(bs)
    <3>1. 1..(k - 1) \subseteq DOMAIN bs
      OBVIOUS
    <3> QED
      BY <3>1, RangeFinite
  <2> DEFINE L == logged \cup {bs[m] : m \in 1..(k - 1)}
  <2>5. L \subseteq logged'
    BY <2>3, <2>4
  <2> HIDE DEF L
  <2>6. Cardinality(L) <= Cardinality(logged') /\ Cardinality(L) \in Nat /\ Cardinality(logged') \in Nat
    BY <2>3, <2>5, FS_Subset, FS_CardinalityType
  <2>7. Cardinality(L) >= LOGSIZE
    BY <2>1, <2>2 DEF L
  <2> QED
    BY <1>1, <1>3, <2>6, <2>7, FilesAssumption
<1> QED
  BY <1>1, <1>2, <1>3 DEF PanicInv, PanicsExplained

LEMMA LogRefuses ==
    ASSUME LogInv, LogInv', NEW p \in Out, NEW bs \in Seq(Int), log_write(p, bs), panicked = "no", bitmap' \subseteq Block
    PROVE  PanicInv'
BY FullRefuses DEF log_write

\* A transaction in one step fits where it was let in.
LEMMA LogTransaction ==
    ASSUME LogInv, NEW bs \in Seq(Int), Transaction(bs), Out' = Out
    PROVE  LogInv' /\ PanicInv'
<1> DEFINE R == Range(bs)
<1>1. /\ Cardinality(logged) + (outstanding + 1) * MAXOPBLOCKS <= LOGSIZE
      /\ outstanding' = outstanding /\ mine' = mine /\ over \in BOOLEAN
      /\ panicked' = IF Full(bs) THEN "log" ELSE "no"
      /\ IF outstanding = 0 /\ ~Full(bs) THEN logged' = {} /\ over' = FALSE
         ELSE logged' = logged \cup R /\ over' = (over \/ Cardinality(R) > MAXOPBLOCKS)
      /\ outstanding = Cardinality(Out) /\ IsFiniteSet(logged) /\ mine \in [Proc -> SUBSET logged]
      /\ \A q \in Proc : q \notin Out => mine[q] = {}
  BY DEF Transaction, MayBegin, LogInv
<1>2. IsFiniteSet(R)
  BY RangeFinite
<1> HIDE DEF R
<1>3. /\ Cardinality(logged) \in Nat /\ LOGSIZE \in Nat /\ MAXOPBLOCKS \in Nat /\ Cardinality(Out) \in Nat /\ Cardinality(R) \in Nat
      /\ IsFiniteSet(Out) /\ Out \subseteq Proc
  BY <1>1, <1>2, FilesAssumption, OutFinite, FS_CardinalityType
<1>4. LogInv'
  <2>1. CASE outstanding = 0 /\ ~Full(bs)
    <3>1. Out = {} /\ logged' = {} /\ over' = FALSE
      BY <1>1, <1>3, <2>1, FS_EmptySet
    <3>2. mine' \in [Proc -> SUBSET logged']
      BY <1>1, <3>1
    <3>3. IsFiniteSet(logged') /\ Cardinality(logged') = 0
      BY <3>1, FS_EmptySet
    <3>4. Pairs({})' = {}
      BY DEF Pairs, Marked
    <3>5. /\ \A S \in SUBSET Out' : Cardinality(Pairs(S)') <= Cardinality(S) * MAXOPBLOCKS
          /\ Cardinality(logged') + outstanding' * MAXOPBLOCKS <= LOGSIZE + Cardinality(Pairs(Out)')
      <4>1. Out' = {} /\ Pairs(Out)' = {} /\ Cardinality({}) = 0
        BY <3>1, <3>4, FS_EmptySet
      <4>2. \A S \in SUBSET Out' : S = {} /\ Pairs(S)' = {}
        BY <3>4, <4>1
      <4>3. 0 * MAXOPBLOCKS = 0 /\ outstanding' = 0
        BY <1>1, <1>3, <2>1
      <4>4. \A S \in SUBSET Out' : Cardinality(Pairs(S)') = 0 /\ Cardinality(S) = 0
        BY <4>1, <4>2, FS_EmptySet
      <4>5. Cardinality(Pairs(Out)') = 0
        BY <4>1
      <4>6. 0 <= 0 * MAXOPBLOCKS /\ 0 + 0 * MAXOPBLOCKS <= LOGSIZE + 0
        BY <1>3, <4>3
      <4> HIDE DEF Out
      <4> QED
        BY <3>3, <4>3, <4>4, <4>5, <4>6
    <3> QED
      BY <1>1, <3>1, <3>2, <3>3, <3>5 DEF LogInv
  <2>2. CASE ~(outstanding = 0 /\ ~Full(bs))
    <3>1. logged' = logged \cup R /\ over' = (over \/ Cardinality(R) > MAXOPBLOCKS)
      BY <1>1, <2>2
    <3>2. IsFiniteSet(logged') /\ Cardinality(logged') \in Nat /\ Cardinality(logged') <= Cardinality(logged) + Cardinality(R)
      <4>1. IsFiniteSet(logged \cap R) /\ Cardinality(logged \cap R) \in Nat
        BY <1>1, FS_Subset, FS_CardinalityType
      <4>2. IsFiniteSet(logged \cup R) /\ Cardinality(logged \cup R) = Cardinality(logged) + Cardinality(R) - Cardinality(logged \cap R)
        BY <1>1, <1>2, FS_Union
      <4> DEFINE U == logged \cup R
                 V == logged \cap R
      <4>3. Cardinality(U) = Cardinality(logged) + Cardinality(R) - Cardinality(V) /\ Cardinality(V) \in Nat
            /\ Cardinality(U) \in Nat /\ IsFiniteSet(U) /\ logged' = U
        BY <3>1, <4>1, <4>2, FS_CardinalityType
      <4> HIDE DEF U, V
      <4> QED
        BY <1>3, <4>3
    <3>3. \A S \in SUBSET Out : Pairs(S)' = Pairs(S)
      BY <1>1, <1>3, <3>1 DEF Pairs, Marked
    <3>4. mine' \in [Proc -> SUBSET logged']
      BY <1>1, <3>1
    <3>5. ASSUME ~over' PROVE /\ \A S \in SUBSET Out : Cardinality(Pairs(S)) <= Cardinality(S) * MAXOPBLOCKS
                              /\ Cardinality(logged') + outstanding * MAXOPBLOCKS <= LOGSIZE + Cardinality(Pairs(Out))
      <4>1. ~over /\ Cardinality(R) <= MAXOPBLOCKS
        <5>1. ~over /\ ~(Cardinality(R) > MAXOPBLOCKS)
          BY <3>1, <3>5, Zenon
        <5> QED
          BY <1>3, <5>1
      <4>2. \A S \in SUBSET Out : Cardinality(Pairs(S)) <= Cardinality(S) * MAXOPBLOCKS
        BY <4>1 DEF LogInv
      <4>3. Cardinality(Pairs(Out)) \in Nat
        <5>1. Pairs(Out) \subseteq Out \X logged
          BY DEF Pairs, Marked
        <5>2. IsFiniteSet(Out \X logged)
          BY <1>1, <1>3, FS_Product
        <5> QED
          BY <5>1, <5>2, FS_Subset, FS_CardinalityType
      <4>4. outstanding * MAXOPBLOCKS \in Nat /\ (outstanding + 1) * MAXOPBLOCKS = outstanding * MAXOPBLOCKS + MAXOPBLOCKS
        BY <1>1, <1>3
      <4>5. Cardinality(logged) + (outstanding + 1) * MAXOPBLOCKS <= LOGSIZE
        BY <1>1
      <4>6. Cardinality(logged') + outstanding * MAXOPBLOCKS <= LOGSIZE + Cardinality(Pairs(Out))
        BY <1>3, <3>2, <4>1, <4>3, <4>4, <4>5
      <4> QED
        BY <4>2, <4>6
    <3> QED
      BY <1>1, <3>1, <3>2, <3>3, <3>4, <3>5 DEF LogInv
  <2> QED
    BY <2>1, <2>2
<1>5. PanicInv'
  BY <1>1, <1>4, FullRefuses DEF R
<1> QED
  BY <1>4, <1>5

-----------------------------------------------------------------------------
(* What a step of one process leaves to the others *)

Only(p) == \A q \in Proc : q # p => job'[q] = job[q]
LocksKept == \A i \in Ino : /\ inode'[i].busy = inode[i].busy /\ inode'[i].used = inode[i].used
                            /\ inode[i].nlink = 0 => inode'[i].nlink = 0
                            /\ ~inode[i].used => inode'[i] = inode[i]
LessUsed == \A i \in Ino : Using(i)' \subseteq Using(i)

LEMMA TableSame ==
    ASSUME TableInv, NEW p \in Proc, Only(p), UNCHANGED tableVars, job[p].pc # "user",
           job'[p].pc \in Writing => job[p].pc \in Writing /\ job'[p].f = job[p].f /\ job'[p].i = job[p].i,
           \A f \in File : file[f].ref > 0 => inode'[file[f].ip].used
    PROVE  TableInv'
<1>1. file' = file /\ ofile' = ofile /\ alive' = alive
  BY DEF tableVars
<1>2. RefsExact'
  BY <1>1 DEF TableInv, RefsExact
<1>3. p \in alive
  BY DEF TableInv
<1>4. ASSUME NEW q \in Proc
      PROVE  /\ q \notin alive' => job'[q].pc = "user" /\ \A fd \in Fd : ofile'[q][fd] = 0
             /\ job'[q].pc \in Writing =>
                  /\ job'[q].f \in File /\ job'[q].i \in Ino /\ job'[q].i = file'[job'[q].f].ip
                  /\ \E fd \in Fd : ofile'[q][fd] = job'[q].f
  BY <1>1, <1>3 DEF TableInv, Only
<1>5. \A f \in File : file'[f].ref > 0 => file'[f].ip \in Ino
  BY <1>1 DEF TableInv
<1> QED
  BY <1>2, <1>4, <1>5 DEF TableInv

LEMMA LockSame ==
    ASSUME LockInv, NEW p \in Proc, Only(p), LocksKept, LessUsed,
           job'[p].pc \in Holding <=> job[p].pc \in Holding,
           job'[p].pc \in Truncating => job[p].pc \in Truncating,
           job'[p].pc \in Putting => job[p].pc \in Putting,
           job'[p].pc \in Holding \cup Putting => job'[p].i = job[p].i
    PROVE  LockInv'
<1> USE DEF Only, LocksKept
<1>1. \A i \in Ino : inode'[i].busy <=> \E q \in Proc : job'[q].pc \in Holding /\ job'[q].i = i
  BY DEF LockInv
<1>2. \A q, r \in Proc : job'[q].pc \in Holding /\ job'[r].pc \in Holding /\ job'[q].i = job'[r].i => q = r
  BY DEF LockInv
<1>3. \A q \in Proc : job'[q].pc \in Putting => job'[q].i \in Ino /\ inode'[job'[q].i].used
  BY DEF LockInv
<1>4. ASSUME NEW q \in Proc, job'[q].pc \in Truncating
      PROVE  /\ inode'[job'[q].i].nlink = 0 /\ Using(job[q].i)' = {}
             /\ \A r \in Proc : job'[r].pc \in Putting /\ job'[r].i = job'[q].i => r = q
  <2>1. job[q].pc \in Truncating /\ job'[q].i = job[q].i
    BY <1>4 DEF Holding
  <2>2. job[q].i \in Ino
    BY <2>1 DEF LockInv, Putting
  <2>3. inode[job[q].i].nlink = 0 /\ Using(job[q].i) = {}
    BY <2>1 DEF LockInv
  <2> DEFINE i == job[q].i
  <2>4. Using(i)' \subseteq {}
    <3>1. {f \in File : file'[f].ref > 0 /\ file'[f].ip = i} \subseteq {f \in File : file[f].ref > 0 /\ file[f].ip = i}
      BY <2>2 DEF LessUsed, Using
    <3>2. {f \in File : file[f].ref > 0 /\ file[f].ip = i} = {}
      BY <2>3 DEF Using
    <3> QED
      BY <2>1, <3>1, <3>2 DEF Using
  <2>5. \A r \in Proc : job'[r].pc \in Putting /\ job'[r].i = job'[q].i => r = q
    BY <2>1 DEF LockInv
  <2> QED
    BY <2>1, <2>2, <2>3, <2>4, <2>5
<1>5. \A i \in Ino : ~inode'[i].used => inode'[i] = NoInode
  BY DEF LockInv
<1> HIDE DEF Only, LocksKept
<1> QED
  BY <1>1, <1>2, <1>3, <1>4, <1>5 DEF LockInv

LEMMA EntriesSame ==
    ASSUME \A q \in Proc : job'[q].pc = "trunc" \/ job[q].pc = "trunc" =>
               job'[q].pc = job[q].pc /\ job'[q].i = job[q].i /\ job'[q].tot = job[q].tot
    PROVE  \A i : Entries(i)' = Entries(i)
BY DEF Entries

LEMMA PlacesSame ==
    ASSUME \A i \in Ino : /\ inode'[i].addrs = inode[i].addrs
                          /\ Indirect(i) # 0 => /\ Entries(i)' = Entries(i)
                                                /\ \A k \in Entries(i) : data'[Indirect(i)][k] = data[Indirect(i)][k],
           \A q \in Proc : job'[q].pc = "zero" \/ job[q].pc = "zero" => job'[q].pc = job[q].pc /\ job'[q].b = job[q].b
    PROVE  Places' = Places
<1>1. \A i \in Ino : Indirect(i)' = Indirect(i)
  BY DEF Indirect
<1>2. \A x : PlaceD(x)' <=> PlaceD(x)
  BY DEF PlaceD
<1>3. \A x : PlaceE(x)' <=> PlaceE(x)
  BY <1>1 DEF PlaceE
<1>4. \A x : PlaceZ(x)' <=> PlaceZ(x)
  BY DEF PlaceZ
<1>5. \A x : x \in Places' <=> x \in Places
  BY <1>2, <1>3, <1>4, PlacesAre, PlacesNext
<1> QED
  BY <1>5

LEMMA ChunkOther ==
    ASSUME NEW q \in Proc, Chunk(q), job'[q] = job[q],
           job[q].pc \in Filling => /\ file'[job[q].f].off = file[job[q].f].off
                                    /\ inode'[job[q].i].addrs = inode[job[q].i].addrs
                                    /\ Indirect(job[q].i) # 0 => data'[Indirect(job[q].i)] = data[Indirect(job[q].i)],
           job[q].pc = "trunc_end" => inode'[job[q].i].addrs = inode[job[q].i].addrs
    PROVE  Chunk(q)'
<1>1. CASE job[q].pc \in Filling
  <2>1. Off(job[q])' = Off(job[q])
    BY <1>1 DEF Off
  <2>2. \A n : Addr(job[q].i, n)' = Addr(job[q].i, n)
    BY <1>1 DEF Addr, Indirect
  <2>3. \A n : Slot(job[q].i, n)' = Slot(job[q].i, n)
    BY <1>1 DEF Slot, Indirect
  <2> QED
    BY <1>1, <2>1, <2>2, <2>3 DEF Chunk, Filling
<1>2. CASE job[q].pc \notin Filling
  BY <1>2 DEF Chunk, Filling, Writing
<1> QED
  BY <1>1, <1>2

LEMMA OwnSame ==
    ASSUME OwnInv, NEW p \in Proc, Only(p), bitmap' = bitmap, data' = data,
           \A i \in Ino : inode'[i].addrs = inode[i].addrs, \A q \in Proc : job[q].pc \in Holding => job[q].i \in Ino,
           \A q \in Proc : q # p /\ job[q].pc \in Filling => file'[job[q].f].off = file[job[q].f].off,
           job'[p].pc = "zero" \/ job[p].pc = "zero" => job'[p].pc = job[p].pc /\ job'[p].b = job[p].b,
           job'[p].pc = "trunc" \/ job[p].pc = "trunc" =>
               job'[p].pc = job[p].pc /\ job'[p].i = job[p].i /\ job'[p].tot = job[p].tot,
           Chunk(p)'
    PROVE  OwnInv'
<1>1. \A i : Entries(i)' = Entries(i)
  BY EntriesSame DEF Only
<1>2. Places' = Places
  BY <1>1, PlacesSame DEF Only
<1>3. ASSUME NEW q \in Proc PROVE Chunk(q)'
  <2>1. CASE q = p
    BY <2>1
  <2>2. CASE q # p
    <3>1. Chunk(q) /\ job'[q] = job[q]
      BY <2>2 DEF OwnInv, Only
    <3>2. job[q].pc \in Filling => /\ file'[job[q].f].off = file[job[q].f].off
                                   /\ inode'[job[q].i].addrs = inode[job[q].i].addrs
      BY <2>2 DEF Holding
    <3>3. job[q].pc = "trunc_end" => inode'[job[q].i].addrs = inode[job[q].i].addrs
      BY DEF Holding, Truncating
    <3> QED
      BY <3>1, <3>2, <3>3, ChunkOther
  <2> QED
    BY <2>1, <2>2
<1> QED
  BY <1>2, <1>3 DEF OwnInv

LEMMA PanicSame ==
    ASSUME panicked = "no", panicked' = panicked, LogInv'
    PROVE  PanicInv'
<1>1. ~over' => Cardinality(logged') <= LOGSIZE
  BY LogBoundNext
<1> QED
  BY <1>1 DEF PanicInv, PanicsExplained

\* Who works on an inode has a place in Ino.
LEMMA Inside ==
    ASSUME Inv
    PROVE  \A p \in Proc : job[p].pc \in Holding \cup Writing \cup Putting => job[p].i \in Ino
BY DEF Inv, TableInv, LockInv, Holding, Writing, Filling, Putting

-----------------------------------------------------------------------------
(* Steps that begin and end transactions *)

LEMMA PutBeginStep == ASSUME Inv, NEW p \in Proc, PutBegin(p) PROVE Inv'
<1>1. /\ job[p].pc = "put_begin" /\ panicked = "no" /\ begin_op(p) /\ job \in [Proc -> JobRec]
      /\ job' = [job EXCEPT ![p].pc = "put"]
      /\ bitmap' = bitmap /\ data' = data /\ inode' = inode /\ file' = file /\ ofile' = ofile /\ alive' = alive
      /\ panicked' = panicked /\ UNCHANGED tableVars
  BY DEF Inv, Types, PutBegin, At, Go, fsVars, tableVars
<1>2. /\ job'[p].pc = "put" /\ job'[p].i = job[p].i /\ Only(p) /\ job' \in [Proc -> JobRec]
  BY <1>1 DEF Only, JobRec, Pcs, Putting
<1>3. Types'
  BY <1>1, <1>2 DEF Inv, Types
<1>4. LogInv'
  <2>1. p \notin Out /\ Out' = Out \cup {p}
    BY <1>1, <1>2 DEF Out, Only
  <2> QED
    BY <1>1, <2>1, LogBegin DEF Inv
<1>5. TableInv'
  <2>1. job[p].pc # "user" /\ job'[p].pc \notin Writing
    BY <1>1, <1>2 DEF Writing
  <2>2. \A f \in File : file[f].ref > 0 => inode'[file[f].ip].used
    BY <1>1 DEF Inv, TableInv, RefsExact
  <2> QED
    BY <1>1, <1>2, <2>1, <2>2, TableSame DEF Inv
<1>6. LockInv'
  <2>1. LocksKept /\ LessUsed
    BY <1>1 DEF LocksKept, LessUsed, Using
  <2> QED
    BY <1>1, <1>2, <2>1, LockSame DEF Inv, Holding, Filling, Truncating, Putting
<1>7. OwnInv'
  <2>1. Chunk(p)'
    BY <1>2 DEF Chunk, Writing, Filling
  <2> QED
    BY <1>1, <1>2, <2>1, OwnSame, Inside DEF Inv
<1>8. PanicInv'
  BY <1>1, <1>4, PanicSame
<1> QED
  BY <1>3, <1>4, <1>5, <1>6, <1>7, <1>8 DEF Inv

LEMMA WriteBeginStep == ASSUME Inv, NEW p \in Proc, WriteBegin(p) PROVE Inv'
<1>1. /\ job[p].pc = "begin" /\ panicked = "no" /\ begin_op(p) /\ job \in [Proc -> JobRec]
      /\ job' = [job EXCEPT ![p].pc = "lock"]
      /\ bitmap' = bitmap /\ data' = data /\ inode' = inode /\ file' = file /\ ofile' = ofile /\ alive' = alive
      /\ panicked' = panicked /\ UNCHANGED tableVars
  BY DEF Inv, Types, WriteBegin, At, Go, fsVars, tableVars
<1>2. /\ job'[p].pc = "lock" /\ job'[p].i = job[p].i /\ job'[p].f = job[p].f /\ job'[p].left = job[p].left
      /\ Only(p) /\ job' \in [Proc -> JobRec]
  BY <1>1 DEF Only, JobRec, Pcs, Writing
<1>3. Types'
  BY <1>1, <1>2 DEF Inv, Types
<1>4. LogInv'
  <2>1. p \notin Out /\ Out' = Out \cup {p}
    BY <1>1, <1>2 DEF Out, Only
  <2> QED
    BY <1>1, <2>1, LogBegin DEF Inv
<1>5. TableInv'
  <2>1. job[p].pc # "user" /\ job[p].pc \in Writing
    BY <1>1 DEF Writing
  <2>2. \A f \in File : file[f].ref > 0 => inode'[file[f].ip].used
    BY <1>1 DEF Inv, TableInv, RefsExact
  <2> QED
    BY <1>1, <1>2, <2>1, <2>2, TableSame DEF Inv
<1>6. LockInv'
  <2>1. LocksKept /\ LessUsed
    BY <1>1 DEF LocksKept, LessUsed, Using
  <2> QED
    BY <1>1, <1>2, <2>1, LockSame DEF Inv, Holding, Filling, Truncating, Putting
<1>7. OwnInv'
  <2>1. Chunk(p)'
    BY <1>1, <1>2 DEF Inv, OwnInv, Chunk, Writing, Filling
  <2> QED
    BY <1>1, <1>2, <2>1, OwnSame, Inside DEF Inv
<1>8. PanicInv'
  BY <1>1, <1>4, PanicSame
<1> QED
  BY <1>3, <1>4, <1>5, <1>6, <1>7, <1>8 DEF Inv

LEMMA WriteFailStep == ASSUME Inv, NEW p \in Proc, WriteFail(p) PROVE Inv'
<1>1. /\ job[p].pc = "fail" /\ panicked = "no" /\ end_op(p) /\ job \in [Proc -> JobRec]
      /\ job' = [job EXCEPT ![p] = NoJob]
      /\ bitmap' = bitmap /\ data' = data /\ inode' = inode /\ file' = file /\ ofile' = ofile /\ alive' = alive
      /\ panicked' = panicked /\ UNCHANGED tableVars
  BY DEF Inv, Types, WriteFail, At, fsVars, tableVars
<1>2. /\ job'[p].pc = "user" /\ Only(p) /\ job' \in [Proc -> JobRec]
  BY <1>1, Consts DEF Only, JobRec, Pcs, NoJob
<1>3. Types'
  BY <1>1, <1>2 DEF Inv, Types
<1>4. LogInv'
  <2>1. p \in Out /\ Out' = Out \ {p}
    BY <1>1, <1>2 DEF Out, Only
  <2> QED
    BY <1>1, <2>1, LogEnd DEF Inv
<1>5. TableInv'
  <2>1. job[p].pc # "user" /\ job'[p].pc \notin Writing
    BY <1>1, <1>2 DEF Writing
  <2>2. \A f \in File : file[f].ref > 0 => inode'[file[f].ip].used
    BY <1>1 DEF Inv, TableInv, RefsExact
  <2> QED
    BY <1>1, <1>2, <2>1, <2>2, TableSame DEF Inv
<1>6. LockInv'
  <2>1. LocksKept /\ LessUsed
    BY <1>1 DEF LocksKept, LessUsed, Using
  <2> QED
    BY <1>1, <1>2, <2>1, LockSame DEF Inv, Holding, Filling, Truncating, Putting
<1>7. OwnInv'
  <2>1. Chunk(p)'
    BY <1>2 DEF Chunk, Writing, Filling
  <2> QED
    BY <1>1, <1>2, <2>1, OwnSame, Inside DEF Inv
<1>8. PanicInv'
  BY <1>1, <1>4, PanicSame
<1> QED
  BY <1>3, <1>4, <1>5, <1>6, <1>7, <1>8 DEF Inv

-----------------------------------------------------------------------------
(* Steps that lock and unlock inodes *)

\* An inode is unlocked.
LEMMA LockDrop ==
    ASSUME LockInv, NEW p \in Proc, Only(p), LessUsed, NEW i \in Ino, job[p].i = i, job[p].pc \in Holding,
           job'[p].pc \notin Holding, job'[p].pc \notin Putting, inode'[i].busy = FALSE,
           \A k \in Ino : k # i => inode'[k] = inode[k],
           \A q \in Proc : q # p /\ job[q].pc \in Putting /\ job[q].i = i => inode'[i].used,
           ~inode'[i].used => inode'[i] = NoInode
    PROVE  LockInv'
<1>1. \A k \in Ino : inode'[k].busy <=> \E q \in Proc : job'[q].pc \in Holding /\ job'[q].i = k
  <2>1. ASSUME NEW q \in Proc, job'[q].pc \in Holding PROVE job'[q].i # i
    BY <2>1 DEF LockInv, Only
  <2>2. ASSUME NEW k \in Ino, k # i
        PROVE  inode[k].busy <=> \E q \in Proc : job'[q].pc \in Holding /\ job'[q].i = k
    BY <2>2 DEF LockInv, Only
  <2> QED
    BY <2>1, <2>2
<1>2. \A q, r \in Proc : job'[q].pc \in Holding /\ job'[r].pc \in Holding /\ job'[q].i = job'[r].i => q = r
  BY DEF LockInv, Only
<1>3. \A q \in Proc : job'[q].pc \in Putting => job'[q].i \in Ino /\ inode'[job'[q].i].used
  BY DEF LockInv, Only
<1>4. ASSUME NEW q \in Proc, job'[q].pc \in Truncating
      PROVE  /\ inode'[job'[q].i].nlink = 0 /\ Using(job[q].i)' = {} /\ job'[q].i = job[q].i
             /\ \A r \in Proc : job'[r].pc \in Putting /\ job'[r].i = job'[q].i => r = q
  <2>1. q # p /\ job'[q] = job[q] /\ job[q].pc \in Truncating /\ job[q].pc \in Holding
    BY <1>4 DEF Only, Holding
  <2>2. job[q].i \in Ino /\ job[q].i # i
    BY <2>1 DEF LockInv, Putting
  <2>3. Using(job[q].i)' = {}
    BY <2>1, <2>2 DEF LockInv, LessUsed, Using
  <2> QED
    BY <2>1, <2>2, <2>3 DEF LockInv, Only
<1>5. \A k \in Ino : ~inode'[k].used => inode'[k] = NoInode
  BY DEF LockInv
<1> QED
  BY <1>1, <1>2, <1>3, <1>4, <1>5 DEF LockInv

\* An inode is locked by one that was not in the way of its last reference.
LEMMA LockTake ==
    ASSUME LockInv, NEW p \in Proc, Only(p), LessUsed, NEW i \in Ino, job'[p].i = i, job'[p].pc \in Holding,
           job[p].pc \notin Holding, \A q \in Proc : job[q].pc \in Holding => job[q].i # i,
           inode'[i].busy, inode[i].used, inode'[i].used, inode'[i].nlink = inode[i].nlink,
           \A k \in Ino : k # i => inode'[k] = inode[k],
           job'[p].pc \in Putting => job'[p].pc \in Truncating,
           job'[p].pc \in Truncating => /\ inode[i].nlink = 0 /\ Using(i) = {}
                                        /\ \A q \in Proc : job[q].pc \in Putting /\ job[q].i = i => q = p
    PROVE  LockInv'
<1>1. \A k \in Ino : inode'[k].busy <=> \E q \in Proc : job'[q].pc \in Holding /\ job'[q].i = k
  <2>1. ASSUME NEW k \in Ino, k # i
        PROVE  inode[k].busy <=> \E q \in Proc : job'[q].pc \in Holding /\ job'[q].i = k
    BY <2>1 DEF LockInv, Only
  <2> QED
    BY <2>1
<1>2. \A q, r \in Proc : job'[q].pc \in Holding /\ job'[r].pc \in Holding /\ job'[q].i = job'[r].i => q = r
  BY DEF LockInv, Only
<1>3. \A q \in Proc : job'[q].pc \in Putting => job'[q].i \in Ino /\ inode'[job'[q].i].used
  BY DEF LockInv, Only
<1>4. ASSUME NEW q \in Proc, job'[q].pc \in Truncating
      PROVE  /\ inode'[job'[q].i].nlink = 0
             /\ {f \in File : file'[f].ref > 0 /\ file'[f].ip = job'[q].i} = {}
             /\ \A r \in Proc : job'[r].pc \in Putting /\ job'[r].i = job'[q].i => r = q
  <2>1. CASE q = p
    <3>1. Using(i)' = {}
      BY <1>4, <2>1 DEF LessUsed
    <3>2. \A r \in Proc : job'[r].pc \in Putting /\ job'[r].i = i => r = p
      BY <1>4, <2>1 DEF Only
    <3>3. {f \in File : file'[f].ref > 0 /\ file'[f].ip = job'[q].i} = {}
      BY <2>1, <3>1 DEF Using
    <3> QED
      BY <1>4, <2>1, <3>2, <3>3
  <2>2. CASE q # p
    <3>1. job'[q] = job[q] /\ job[q].pc \in Truncating /\ job[q].pc \in Holding
      BY <1>4, <2>2 DEF Only, Holding
    <3>2. job[q].i \in Ino /\ job[q].i # i
      BY <3>1 DEF LockInv, Putting
    <3>3. Using(job[q].i)' = {}
      BY <3>1, <3>2 DEF LockInv, LessUsed, Using
    <3>4. \A r \in Proc : job'[r].pc \in Putting /\ job'[r].i = job'[q].i => r = q
      BY <3>1, <3>2 DEF LockInv, Only
    <3>5. {f \in File : file'[f].ref > 0 /\ file'[f].ip = job'[q].i} = {}
      BY <3>1, <3>3 DEF Using
    <3> QED
      BY <3>1, <3>2, <3>4, <3>5 DEF LockInv
  <2> QED
    BY <2>1, <2>2
<1>5. \A k \in Ino : ~inode'[k].used => inode'[k] = NoInode
  BY DEF LockInv
<1> QED
  BY <1>1, <1>2, <1>3, <1>4, <1>5 DEF LockInv, Using

LEMMA WriteUnlockStep == ASSUME Inv, NEW p \in Proc, WriteUnlock(p) PROVE Inv'
<1> DEFINE i == job[p].i
<1>1. /\ job[p].pc = "unlock" /\ panicked = "no" /\ end_op(p) /\ job \in [Proc -> JobRec] /\ inode \in [Ino -> InodeRec]
      /\ job' = [job EXCEPT ![p] = IF job[p].left > job[p].n1
                                   THEN [job[p] EXCEPT !.pc = "begin", !.left = job[p].left - job[p].n1] ELSE NoJob]
      /\ inode' = [inode EXCEPT ![i].busy = FALSE]
      /\ bitmap' = bitmap /\ data' = data /\ file' = file /\ ofile' = ofile /\ alive' = alive
      /\ panicked' = panicked /\ UNCHANGED tableVars
  BY DEF Inv, Types, WriteUnlock, At, tableVars
<1>2. i \in Ino
  BY <1>1, Inside DEF Writing
<1>3. job[p].left > 0 /\ job[p].n1 > 0 /\ job[p].n1 <= job[p].left /\ job[p].left \in Nat /\ job[p].n1 \in Nat /\ job[p] \in JobRec
  BY <1>1 DEF Inv, OwnInv, Chunk, Writing, Filling, JobRec
<1>4. \/ job'[p].pc = "user"
      \/ /\ job'[p].pc = "begin" /\ job'[p].i = job[p].i /\ job'[p].f = job[p].f
         /\ job'[p].left > 0
  <2>1. CASE job[p].left > job[p].n1
    <3>1. job'[p] = [job[p] EXCEPT !.pc = "begin", !.left = job[p].left - job[p].n1]
      BY <1>1, <2>1
    <3>2. job[p].left - job[p].n1 > 0
      BY <1>3, <2>1
    <3> QED
      BY <1>3, <3>1, <3>2 DEF JobRec
  <2>2. CASE ~(job[p].left > job[p].n1)
    BY <1>1, <2>2 DEF NoJob
  <2> QED
    BY <2>1, <2>2
<1>5. Only(p)
  BY <1>1 DEF Only
<1>6. job' \in [Proc -> JobRec]
  <2>1. NoJob \in JobRec
    BY Consts DEF NoJob, JobRec, Pcs
  <2>2. ASSUME job[p].left > job[p].n1
        PROVE  [job[p] EXCEPT !.pc = "begin", !.left = job[p].left - job[p].n1] \in JobRec
    <3>1. job[p].left - job[p].n1 \in Nat
      BY <1>3, <2>2
    <3> QED
      BY <1>3, <3>1 DEF JobRec, Pcs, Writing
  <2> QED
    BY <1>1, <2>1, <2>2
<1>7. /\ inode' \in [Ino -> InodeRec] /\ inode'[i].busy = FALSE
      /\ \A k \in Ino : /\ inode'[k].used = inode[k].used /\ inode'[k].nlink = inode[k].nlink
                        /\ inode'[k].addrs = inode[k].addrs /\ inode'[k].size = inode[k].size
                        /\ k # i => inode'[k] = inode[k]
  BY <1>1, <1>2 DEF InodeRec
<1>8. Types'
  BY <1>1, <1>6, <1>7 DEF Inv, Types
<1>9. LogInv'
  <2>1. p \in Out /\ Out' = Out \ {p}
    BY <1>1, <1>4, <1>5 DEF Out, Only
  <2> QED
    BY <1>1, <2>1, LogEnd DEF Inv
<1>10. TableInv'
  <2>1. job[p].pc # "user" /\ job[p].pc \in Writing
    BY <1>1 DEF Writing
  <2>2. \A f \in File : file[f].ref > 0 => inode'[file[f].ip].used
    BY <1>7 DEF Inv, TableInv, RefsExact
  <2>3. job'[p].pc \in Writing => job[p].pc \in Writing /\ job'[p].f = job[p].f /\ job'[p].i = job[p].i
    BY <1>4, <2>1 DEF Writing
  <2> QED
    BY <1>1, <1>5, <2>1, <2>2, <2>3, TableSame DEF Inv
<1>11. LockInv'
  <2>1. job[p].pc \in Holding /\ job'[p].pc \notin Holding /\ job'[p].pc \notin Putting
    BY <1>1, <1>4 DEF Holding, Filling, Truncating, Putting
  <2>2. LessUsed
    BY <1>1 DEF LessUsed, Using
  <2>3. inode'[i].used
    <3>1. inode[i].busy
      BY <1>2, <2>1 DEF Inv, LockInv
    <3> QED
      BY <1>2, <1>7, <3>1 DEF Inv, LockInv, NoInode
  <2>4. LockInv /\ inode'[i].busy = FALSE /\ \A k \in Ino : k # i => inode'[k] = inode[k]
    BY <1>7 DEF Inv
  <2> QED
    BY <1>2, <1>5, <2>1, <2>2, <2>3, <2>4, LockDrop
<1>12. OwnInv'
  <2>1. Chunk(p)'
    BY <1>4 DEF Chunk, Writing, Filling
  <2> QED
    BY <1>1, <1>4, <1>5, <1>7, <2>1, OwnSame, Inside DEF Inv
<1>13. PanicInv'
  BY <1>1, <1>9, PanicSame
<1> QED
  BY <1>8, <1>9, <1>10, <1>11, <1>12, <1>13 DEF Inv

\* A descriptor is a reference to its file.
Seats(f) == {x \in Proc \X Fd : ofile[x[1]][x[2]] = f}

LEMMA SeatsFinite == \A f : IsFiniteSet(Seats(f)) /\ Cardinality(Seats(f)) \in Nat
<1> TAKE f
<1>1. IsFiniteSet(Fd) /\ IsFiniteSet(Proc)
  BY FilesAssumption, FS_Interval DEF Fd
<1>2. IsFiniteSet(Proc \X Fd)
  BY <1>1, FS_Product
<1>3. Seats(f) \subseteq Proc \X Fd
  BY DEF Seats
<1> QED
  BY <1>2, <1>3, FS_Subset, FS_CardinalityType

LEMMA HasRef ==
    ASSUME RefsExact, NEW p \in Proc, NEW fd \in Fd, ofile[p][fd] \in File
    PROVE  file[ofile[p][fd]].ref > 0 /\ inode[file[ofile[p][fd]].ip].used
<1> DEFINE f == ofile[p][fd]
<1>1. file[f].ref = Cardinality(Seats(f))
  BY DEF RefsExact, Seats
<1>2. <<p, fd>> \in Seats(f)
  BY DEF Seats
<1>3. Cardinality(Seats(f)) # 0 /\ Cardinality(Seats(f)) \in Nat
  BY <1>2, SeatsFinite, FS_EmptySet
<1>4. file[f].ref > 0
  BY <1>1, <1>3
<1> QED
  BY <1>4 DEF RefsExact

\* The file a process writes is open on the inode it works on.
LEMMA WriterUses ==
    ASSUME Inv, NEW p \in Proc, job[p].pc \in Writing
    PROVE  /\ job[p].f \in Using(job[p].i) /\ inode[job[p].i].used
           /\ job[p].f \in File /\ job[p].i \in Ino /\ job[p].i = file[job[p].f].ip
<1>1. PICK fd \in Fd : ofile[p][fd] = job[p].f
  BY DEF Inv, TableInv
<1>2. job[p].f \in File /\ job[p].i \in Ino /\ job[p].i = file[job[p].f].ip
  BY DEF Inv, TableInv
<1>3. file[job[p].f].ref > 0 /\ inode[file[job[p].f].ip].used
  BY <1>1, <1>2, HasRef DEF Inv, TableInv
<1> QED
  BY <1>2, <1>3 DEF Using

LEMMA WriteLockStep == ASSUME Inv, NEW p \in Proc, WriteLock(p) PROVE Inv'
<1> DEFINE i == job[p].i
           n1 == Min({job[p].left, MAXCHUNK})
           end == file[job[p].f].off + n1
<1>1. /\ job[p].pc = "lock" /\ panicked = "no" /\ ~inode[i].busy /\ job \in [Proc -> JobRec] /\ inode \in [Ino -> InodeRec]
      /\ bitmap' = bitmap /\ data' = data /\ file' = file /\ ofile' = ofile /\ alive' = alive
      /\ panicked' = panicked /\ UNCHANGED tableVars /\ UNCHANGED logVars
      /\ IF end > MAXFILE * BSIZE
         THEN job' = [job EXCEPT ![p].pc = "fail"] /\ inode' = inode
         ELSE /\ job' = [job EXCEPT ![p].pc = "map", ![p].n1 = n1, ![p].tot = 0]
              /\ inode' = [inode EXCEPT ![i].busy = TRUE]
  BY DEF Inv, Types, WriteLock, At, Go, tableVars
<1>2. i \in Ino /\ inode[i].used /\ job[p].f \in File /\ i = file[job[p].f].ip /\ file[job[p].f] \in FileRec
  BY <1>1, WriterUses DEF Writing, Inv, Types
<1>3. n1 \in Nat /\ n1 > 0 /\ n1 <= job[p].left /\ file[job[p].f].off \in Nat /\ job[p].left \in Nat /\ job[p].left > 0
  <2>1. job[p].left > 0 /\ job[p].left \in Nat /\ MAXCHUNK \in Nat /\ MAXCHUNK > 0
    BY <1>1, Consts DEF Inv, OwnInv, Chunk, Writing, JobRec
  <2>2. n1 \in {job[p].left, MAXCHUNK} /\ n1 <= job[p].left
    BY <2>1, MinTwo
  <2> HIDE DEF n1
  <2> QED
    BY <1>2, <2>1, <2>2 DEF FileRec
<1> HIDE DEF n1
<1>4. /\ job'[p].pc \in {"fail", "map"} /\ job'[p].i = i /\ job'[p].f = job[p].f /\ job'[p].left = job[p].left
      /\ Only(p) /\ job' \in [Proc -> JobRec] /\ job[p].pc \in Writing /\ job[p].pc # "user" /\ job'[p].pc \in Writing
  BY <1>1, <1>3 DEF Only, JobRec, Pcs, Writing
<1>5. /\ inode' \in [Ino -> InodeRec]
      /\ \A k \in Ino : /\ inode'[k].used = inode[k].used /\ inode'[k].nlink = inode[k].nlink
                        /\ inode'[k].addrs = inode[k].addrs /\ inode'[k].size = inode[k].size
                        /\ k # i => inode'[k] = inode[k]
  <2>1. CASE end > MAXFILE * BSIZE
    <3>1. inode' = inode
      BY <1>1, <2>1
    <3> QED
      BY <1>1, <3>1
  <2>2. CASE ~(end > MAXFILE * BSIZE)
    <3>1. inode' = [inode EXCEPT ![i].busy = TRUE]
      BY <1>1, <2>2
    <3> HIDE DEF end
    <3> QED
      BY <1>1, <1>2, <3>1 DEF InodeRec
  <2> QED
    BY <2>1, <2>2
<1>6. Types'
  BY <1>1, <1>4, <1>5 DEF Inv, Types
<1>7. LogInv'
  <2>1. Out' = Out
    BY <1>1, <1>4 DEF Out, Only
  <2> QED
    BY <1>1, <2>1, LogQuiet DEF Inv
<1>8. TableInv'
  <2>1. \A f \in File : file[f].ref > 0 => inode'[file[f].ip].used
    BY <1>5 DEF Inv, TableInv, RefsExact
  <2> QED
    BY <1>1, <1>4, <2>1, TableSame DEF Inv
<1>9. LockInv'
  <2>1. LessUsed
    BY <1>1 DEF LessUsed, Using
  <2>2. CASE end > MAXFILE * BSIZE
    <3>1. job'[p].pc = "fail" /\ inode' = inode
      BY <1>1, <2>2 DEF JobRec
    <3>2. LocksKept
      BY <3>1 DEF LocksKept
    <3> QED
      BY <1>1, <1>4, <2>1, <3>1, <3>2, LockSame DEF Inv, Holding, Filling, Truncating, Putting
  <2>3. CASE ~(end > MAXFILE * BSIZE)
    <3>1. job'[p].pc = "map" /\ inode'[i].busy
      BY <1>1, <1>2, <2>3 DEF JobRec, InodeRec
    <3>2. /\ job'[p].pc \in Holding /\ job[p].pc \notin Holding /\ job'[p].pc \notin Putting
          /\ job'[p].pc \notin Truncating
      BY <1>1, <3>1 DEF Holding, Filling, Truncating, Putting
    <3>3. \A q \in Proc : job[q].pc \in Holding => job[q].i # i
      BY <1>1, <1>2 DEF Inv, LockInv
    <3> QED
      BY <1>2, <1>4, <1>5, <2>1, <3>1, <3>2, <3>3, LockTake DEF Inv
  <2> QED
    BY <2>2, <2>3
<1>10. OwnInv'
  <2>1. Chunk(p)'
    <3>1. CASE end > MAXFILE * BSIZE
      <4>1. job'[p].pc = "fail"
        BY <1>1, <3>1 DEF JobRec
      <4> QED
        BY <1>3, <1>4, <4>1 DEF Chunk, Filling
    <3>2. CASE ~(end > MAXFILE * BSIZE)
      <4>1. job'[p].pc = "map" /\ job'[p].n1 = n1 /\ job'[p].tot = 0
        BY <1>1, <3>2 DEF JobRec
      <4>2. file'[job'[p].f].off + job'[p].n1 <= MAXFILE * BSIZE
        BY <1>1, <1>3, <1>4, <3>2, <4>1, Consts
      <4> QED
        BY <1>3, <1>4, <4>1, <4>2 DEF Chunk
    <3> QED
      BY <3>1, <3>2
  <2> QED
    BY <1>1, <1>4, <1>5, <2>1, OwnSame, Inside DEF Inv
<1>11. PanicInv'
  BY <1>1, <1>7, PanicSame
<1> QED
  BY <1>6, <1>7, <1>8, <1>9, <1>10, <1>11 DEF Inv

\* An inode that only one refers to.
LEMMA LastRef ==
    ASSUME Inv, NEW p \in Proc, job[p].pc = "put", Refs(job[p].i) = 1
    PROVE  /\ Using(job[p].i) = {}
           /\ \A q \in Proc : job[q].pc \in Putting /\ job[q].i = job[p].i => q = p
<1> DEFINE i == job[p].i
           S == {q \in Proc : job[q].pc \in {"put_begin", "put", "unlink"} /\ job[q].i = i}
<1>1. p \in S /\ S \subseteq Proc /\ Using(i) \subseteq File
  BY DEF Using
<1>2. Refs(i) = Cardinality(Using(i)) + Cardinality(S)
  BY DEF Refs
<1>3. IsFiniteSet(S) /\ IsFiniteSet(Using(i))
  <2>1. IsFiniteSet(File)
    <3>1. 1 \in Int /\ NFILE \in Int
      BY FilesAssumption
    <3> QED
      BY <3>1, FS_Interval DEF File
  <2> QED
    BY <1>1, <2>1, FilesAssumption, FS_Subset
<1> HIDE DEF S
<1>4. Cardinality(S) \in Nat /\ Cardinality(Using(i)) \in Nat /\ Cardinality(S) # 0
  BY <1>1, <1>3, FS_CardinalityType, FS_EmptySet
<1>5. Cardinality(S) = 1 /\ Cardinality(Using(i)) = 0
  BY <1>2, <1>4
<1>6. Using(i) = {} /\ \E x : S = {x}
  BY <1>3, <1>5, FS_EmptySet, FS_Singleton
<1>7. ASSUME NEW q \in Proc, job[q].pc \in Putting, job[q].i = i PROVE q = p
  <2>1. CASE job[q].pc \in Truncating
    BY <1>7, <2>1 DEF Inv, LockInv, Putting
  <2>2. CASE job[q].pc \notin Truncating
    <3>1. q \in S
      BY <1>7, <2>2 DEF S, Putting
    <3> QED
      BY <1>1, <1>6, <3>1
  <2> QED
    BY <2>1, <2>2
<1> QED
  BY <1>6, <1>7

LEMMA PutStep == ASSUME Inv, NEW p \in Proc, Put(p) PROVE Inv'
<1> DEFINE i == job[p].i
           last == Refs(i) = 1 /\ inode[i].nlink = 0
<1>1. /\ job[p].pc = "put" /\ panicked = "no" /\ job \in [Proc -> JobRec] /\ inode \in [Ino -> InodeRec]
      /\ bitmap' = bitmap /\ data' = data /\ file' = file /\ ofile' = ofile /\ alive' = alive
      /\ panicked' = panicked /\ UNCHANGED tableVars
      /\ IF last
         THEN /\ job' = [job EXCEPT ![p].pc = "trunc", ![p].tot = 0]
              /\ inode' = [inode EXCEPT ![i].busy = TRUE] /\ UNCHANGED logVars
         ELSE end_op(p) /\ job' = [job EXCEPT ![p] = NoJob] /\ inode' = inode
  BY DEF Inv, Types, Put, At, tableVars
<1>2. i \in Ino /\ inode[i].used /\ p \in Out
  BY <1>1 DEF Inv, LockInv, Putting, Out
<1>3. \/ job'[p].pc = "trunc" /\ job'[p].i = i /\ job'[p].tot = 0 /\ last
      \/ job'[p].pc = "user" /\ ~last
  BY <1>1 DEF NoJob, JobRec
<1>4. job' \in [Proc -> JobRec] /\ Only(p)
  <2>1. NoJob \in JobRec
    BY Consts DEF NoJob, JobRec, Pcs
  <2> QED
    BY <1>1, <2>1 DEF Only, JobRec, Pcs, Putting, Truncating
<1>5. /\ inode' \in [Ino -> InodeRec]
      /\ \A k \in Ino : /\ inode'[k].used = inode[k].used /\ inode'[k].nlink = inode[k].nlink
                        /\ inode'[k].addrs = inode[k].addrs /\ inode'[k].size = inode[k].size
                        /\ k # i => inode'[k] = inode[k]
  <2>1. CASE last
    <3>1. inode' = [inode EXCEPT ![i].busy = TRUE]
      BY <1>1, <2>1
    <3> HIDE DEF last
    <3> QED
      BY <1>1, <1>2, <3>1 DEF InodeRec
  <2>2. CASE ~last
    <3>1. inode' = inode
      BY <1>1, <2>2
    <3> QED
      BY <1>1, <3>1
  <2> QED
    BY <2>1, <2>2
<1>6. Types'
  BY <1>1, <1>4, <1>5 DEF Inv, Types
<1>7. LogInv'
  <2>1. CASE last
    <3>1. Out' = Out /\ UNCHANGED logVars
      BY <1>1, <1>2, <1>3, <1>4, <2>1 DEF Out, Only
    <3> QED
      BY <3>1, LogQuiet DEF Inv
  <2>2. CASE ~last
    <3>1. Out' = Out \ {p} /\ end_op(p)
      BY <1>1, <1>2, <1>3, <1>4, <2>2 DEF Out, Only
    <3> QED
      BY <1>2, <3>1, LogEnd DEF Inv
  <2> QED
    BY <2>1, <2>2
<1>8. TableInv'
  <2>1. job[p].pc # "user" /\ job'[p].pc \notin Writing
    BY <1>1, <1>3 DEF Writing
  <2>2. \A f \in File : file[f].ref > 0 => inode'[file[f].ip].used
    BY <1>5 DEF Inv, TableInv, RefsExact
  <2> QED
    BY <1>1, <1>4, <2>1, <2>2, TableSame DEF Inv
<1>9. LockInv'
  <2>1. LessUsed
    BY <1>1 DEF LessUsed, Using
  <2>2. CASE ~last
    <3>1. job'[p].pc = "user" /\ inode' = inode
      BY <1>1, <1>3, <2>2
    <3>2. LocksKept
      BY <3>1 DEF LocksKept
    <3> QED
      BY <1>1, <1>4, <2>1, <3>1, <3>2, LockSame DEF Inv, Holding, Filling, Truncating, Putting
  <2>3. CASE last
    <3>1. job'[p].pc = "trunc" /\ inode'[i].busy /\ job'[p].i = i
      BY <1>1, <1>2, <1>3, <2>3 DEF InodeRec
    <3>2. /\ job'[p].pc \in Holding /\ job[p].pc \notin Holding /\ job'[p].pc \in Truncating
      BY <1>1, <3>1 DEF Holding, Filling, Truncating
    <3>3. /\ inode[i].nlink = 0 /\ Using(i) = {}
          /\ \A q \in Proc : job[q].pc \in Putting /\ job[q].i = i => q = p
      BY <1>1, <2>3, LastRef
    <3>4. \A q \in Proc : job[q].pc \in Holding => job[q].i # i
      <4> SUFFICES ASSUME NEW q \in Proc, job[q].pc \in Holding, job[q].i = i PROVE FALSE
        OBVIOUS
      <4>1. CASE job[q].pc \in Truncating
        BY <1>1, <3>3, <4>1 DEF Putting, Truncating
      <4>2. CASE job[q].pc \in Filling
        <5>1. job[q].f \in Using(i)
          BY <4>2, WriterUses DEF Filling, Writing
        <5> QED
          BY <3>3, <5>1
      <4> QED
        BY <4>1, <4>2 DEF Holding
    <3> QED
      BY <1>2, <1>4, <1>5, <2>1, <3>1, <3>2, <3>3, <3>4, LockTake DEF Inv
  <2> QED
    BY <2>2, <2>3
<1>10. OwnInv'
  <2>1. Chunk(p)'
    BY <1>3 DEF Chunk, Writing, Filling
  <2>2. \A k : Entries(k)' = Entries(k)
    <3> SUFFICES ASSUME NEW k PROVE Entries(k)' = Entries(k)
      OBVIOUS
    <3>1. CASE job'[p].pc = "user"
      BY <1>1, <1>4, <3>1, EntriesSame DEF Only
    <3>2. CASE job'[p].pc # "user"
      <4>1. \A q \in Proc : job[q].pc = "trunc" => job[q].i # i
        <5>1. Using(i) = {} /\ \A q \in Proc : job[q].pc \in Putting /\ job[q].i = i => q = p
          BY <1>1, <1>3, <3>2, LastRef
        <5> QED
          BY <1>1, <5>1 DEF Putting, Truncating
      <4>2. job'[p].pc = "trunc" /\ job'[p].i = i /\ job'[p].tot = 0
        BY <1>3, <3>2
      <4>3. ASSUME NEW m \in 0..(NINDIRECT - 1) PROVE m \in Entries(k)' <=> m \in Entries(k)
        <5>1. 0 <= m
          BY FilesAssumption
        <5> QED
          BY <1>1, <1>4, <4>1, <4>2, <5>1 DEF Entries, Only
      <4> QED
        BY <4>3 DEF Entries
    <3> QED
      BY <3>1, <3>2
  <2>3. Places' = Places
    BY <1>1, <1>3, <1>4, <1>5, <2>2, PlacesSame DEF Only
  <2>4. ASSUME NEW q \in Proc PROVE Chunk(q)'
    <3>1. CASE q = p
      BY <2>1, <3>1
    <3>2. CASE q # p
      <4>1. Chunk(q) /\ job'[q] = job[q]
        BY <1>4, <3>2 DEF Inv, OwnInv, Only
      <4>2. job[q].pc \in Filling \cup {"trunc_end"} => job[q].i \in Ino
        BY Inside DEF Holding, Truncating
      <4> QED
        BY <1>1, <1>5, <4>1, <4>2, ChunkOther
    <3> QED
      BY <3>1, <3>2
  <2> QED
    BY <1>1, <2>3, <2>4 DEF Inv, OwnInv
<1>11. PanicInv'
  BY <1>1, <1>7, PanicSame
<1> QED
  BY <1>6, <1>7, <1>8, <1>9, <1>10, <1>11 DEF Inv

\* A process comes to hold a reference to an inode nobody frees.
LEMMA LockPut ==
    ASSUME LockInv, NEW p \in Proc, Only(p), LocksKept, LessUsed, NEW i \in Ino, inode[i].used,
           job[p].pc \notin Holding, job'[p].pc \in {"put_begin", "unlink"}, job'[p].i = i,
           \A q \in Proc : job[q].pc \in Truncating => job[q].i # i
    PROVE  LockInv'
<1>1. job'[p].pc \notin Holding /\ job'[p].pc \notin Truncating /\ job'[p].pc \in Putting
  BY DEF Holding, Filling, Truncating, Putting
<1> USE DEF Only, LocksKept
<1>2. \A k \in Ino : inode'[k].busy <=> \E q \in Proc : job'[q].pc \in Holding /\ job'[q].i = k
  BY <1>1 DEF LockInv
<1>3. \A q, r \in Proc : job'[q].pc \in Holding /\ job'[r].pc \in Holding /\ job'[q].i = job'[r].i => q = r
  BY <1>1 DEF LockInv
<1>4. \A q \in Proc : job'[q].pc \in Putting => job'[q].i \in Ino /\ inode'[job'[q].i].used
  BY DEF LockInv
<1>5. ASSUME NEW q \in Proc, job'[q].pc \in Truncating
      PROVE  /\ inode'[job'[q].i].nlink = 0 /\ Using(job[q].i)' = {} /\ job'[q].i = job[q].i
             /\ \A r \in Proc : job'[r].pc \in Putting /\ job'[r].i = job'[q].i => r = q
  <2>1. q # p /\ job'[q] = job[q] /\ job[q].pc \in Truncating
    BY <1>1, <1>5
  <2>2. job[q].i \in Ino /\ job[q].i # i
    BY <2>1 DEF LockInv, Putting
  <2>3. Using(job[q].i)' = {}
    BY <2>1, <2>2 DEF LockInv, LessUsed, Using
  <2> QED
    BY <2>1, <2>2, <2>3 DEF LockInv
<1>6. \A k \in Ino : ~inode'[k].used => inode'[k] = NoInode
  BY DEF LockInv
<1> QED
  BY <1>2, <1>3, <1>4, <1>5, <1>6 DEF LockInv

LEMMA UnlinkStep == ASSUME Inv, NEW p \in Proc, NEW i \in Ino, Unlink(p, i) PROVE Inv'
<1>1. /\ job[p].pc = "user" /\ panicked = "no" /\ begin_op(p) /\ p \in alive /\ inode[i].nlink = 1 /\ job \in [Proc -> JobRec]
      /\ job' = [job EXCEPT ![p].pc = "unlink", ![p].i = i]
      /\ bitmap' = bitmap /\ data' = data /\ inode' = inode /\ file' = file /\ ofile' = ofile /\ alive' = alive
      /\ panicked' = panicked
  BY DEF Inv, Types, Unlink, CanCall, fsVars, tableVars
<1>2. job'[p].pc = "unlink" /\ job'[p].i = i /\ Only(p) /\ job' \in [Proc -> JobRec]
  <2>1. "unlink" \in Pcs /\ i \in Ino \cup {0}
    BY DEF Pcs, Putting
  <2> DEFINE r == [job[p] EXCEPT !.pc = "unlink", !.i = i]
  <2>2. job[p] \in JobRec /\ job' = [job EXCEPT ![p] = r]
    BY <1>1
  <2>3. r \in JobRec /\ r.pc = "unlink" /\ r.i = i
    BY <2>1, <2>2 DEF JobRec
  <2> HIDE DEF r
  <2> QED
    BY <1>1, <2>2, <2>3 DEF Only
<1>3. Types'
  BY <1>1, <1>2 DEF Inv, Types
<1>4. LogInv'
  <2>1. p \notin Out /\ Out' = Out \cup {p}
    BY <1>1, <1>2 DEF Out, Only
  <2> QED
    BY <1>1, <2>1, LogBegin DEF Inv
<1>5. TableInv'
  <2>1. RefsExact'
    BY <1>1 DEF Inv, TableInv, RefsExact
  <2>2. job'[p].pc \notin Writing
    BY <1>2 DEF Writing
  <2> QED
    BY <1>1, <1>2, <2>1, <2>2 DEF Inv, TableInv, Only
<1>6. LockInv'
  <2>1. LocksKept /\ LessUsed
    BY <1>1 DEF LocksKept, LessUsed, Using
  <2>2. inode[i].used
    BY <1>1 DEF Inv, LockInv, NoInode
  <2>3. \A q \in Proc : job[q].pc \in Truncating => job[q].i # i
    BY <1>1 DEF Inv, LockInv
  <2>4. job[p].pc \notin Holding
    BY <1>1 DEF Holding, Filling, Truncating
  <2> QED
    BY <1>2, <2>1, <2>2, <2>3, <2>4, LockPut DEF Inv
<1>7. OwnInv'
  <2>1. Chunk(p)'
    BY <1>2 DEF Chunk, Writing, Filling
  <2> QED
    BY <1>1, <1>2, <2>1, OwnSame, Inside DEF Inv
<1>8. PanicInv'
  BY <1>1, <1>4, PanicSame
<1> QED
  BY <1>3, <1>4, <1>5, <1>6, <1>7, <1>8 DEF Inv

LEMMA UnlinkedStep == ASSUME Inv, NEW p \in Proc, Unlinked(p) PROVE Inv'
<1> DEFINE i == job[p].i
<1>1. /\ job[p].pc = "unlink" /\ panicked = "no" /\ job \in [Proc -> JobRec] /\ inode \in [Ino -> InodeRec]
      /\ log_write(p, <<NAMES, INODES>>)
      /\ job' = [job EXCEPT ![p].pc = "put"] /\ inode' = [inode EXCEPT ![i].nlink = 0]
      /\ bitmap' = bitmap /\ data' = data /\ file' = file /\ ofile' = ofile /\ alive' = alive /\ UNCHANGED tableVars
  BY DEF Inv, Types, Unlinked, At, Go, tableVars
<1>2. job'[p].pc = "put" /\ job'[p].i = i /\ Only(p) /\ job' \in [Proc -> JobRec]
  BY <1>1 DEF Only, JobRec, Pcs, Putting
<1>3. /\ inode' \in [Ino -> InodeRec]
      /\ \A k \in Ino : /\ inode'[k].used = inode[k].used /\ inode'[k].busy = inode[k].busy
                        /\ inode'[k].addrs = inode[k].addrs /\ inode'[k].size = inode[k].size
                        /\ inode[k].nlink = 0 => inode'[k].nlink = 0
                        /\ k # i => inode'[k] = inode[k]
  BY <1>1 DEF InodeRec
<1>4. i \in Ino /\ inode[i].used
  BY <1>1 DEF Inv, LockInv, Putting
<1>5. Types'
  BY <1>1, <1>2, <1>3 DEF Inv, Types
<1>6. p \in Out /\ Out' = Out /\ <<NAMES, INODES>> \in Seq(Int)
  BY <1>1, <1>2 DEF Out, Only, NAMES, INODES
<1>7. LogInv'
  BY <1>1, <1>6, LogWrites DEF Inv
<1>8. TableInv'
  <2>1. job[p].pc # "user" /\ job'[p].pc \notin Writing
    BY <1>1, <1>2 DEF Writing
  <2>2. \A f \in File : file[f].ref > 0 => inode'[file[f].ip].used
    BY <1>3 DEF Inv, TableInv, RefsExact
  <2> QED
    BY <1>1, <1>2, <2>1, <2>2, TableSame DEF Inv
<1>9. LockInv'
  <2>1. LocksKept /\ LessUsed
    BY <1>1, <1>3, <1>4 DEF LocksKept, LessUsed, Using
  <2> QED
    BY <1>1, <1>2, <2>1, LockSame DEF Inv, Holding, Filling, Truncating, Putting
<1>10. OwnInv'
  <2>1. Chunk(p)'
    BY <1>2 DEF Chunk, Writing, Filling
  <2> QED
    BY <1>1, <1>2, <1>3, <2>1, OwnSame, Inside DEF Inv
<1>11. PanicInv'
  BY <1>1, <1>5, <1>6, <1>7, LogRefuses DEF Inv, Types
<1> QED
  BY <1>5, <1>7, <1>8, <1>9, <1>10, <1>11 DEF Inv

LEMMA TruncEndStep == ASSUME Inv, NEW p \in Proc, TruncEnd(p) PROVE Inv'
<1> DEFINE i == job[p].i
<1>1. /\ job[p].pc = "trunc_end" /\ panicked = "no" /\ job \in [Proc -> JobRec] /\ inode \in [Ino -> InodeRec]
      /\ end_op(p) /\ job' = [job EXCEPT ![p] = NoJob] /\ inode' = [inode EXCEPT ![i] = NoInode]
      /\ bitmap' = bitmap /\ data' = data /\ file' = file /\ ofile' = ofile /\ alive' = alive /\ UNCHANGED tableVars
      /\ panicked' = panicked
  BY DEF Inv, Types, TruncEnd, At, tableVars
<1>2. job'[p].pc = "user" /\ Only(p) /\ job' \in [Proc -> JobRec]
  BY <1>1, Consts DEF Only, JobRec, Pcs, NoJob
<1>3. /\ i \in Ino /\ Using(i) = {} /\ \A q \in Proc : job[q].pc \in Putting /\ job[q].i = i => q = p
  BY <1>1 DEF Inv, LockInv, Putting, Truncating
<1>4. inode'[i] = NoInode /\ \A k \in Ino : k # i => inode'[k] = inode[k]
  BY <1>1, <1>3
<1>5. \A k \in Ino : inode'[k].addrs = inode[k].addrs
  <2>1. \A n \in 0..NDIRECT : inode[i].addrs[n] = 0
    BY <1>1 DEF Inv, OwnInv, Chunk
  <2>2. inode[i].addrs = [n \in 0..NDIRECT |-> 0]
    BY <1>1, <1>3, <2>1 DEF InodeRec
  <2> QED
    <3>1. NoInode.addrs = [n \in 0..NDIRECT |-> 0]
      BY DEF NoInode
    <3> QED
      BY <1>4, <2>2, <3>1
<1>6. inode' \in [Ino -> InodeRec]
  <2>1. NoInode \in InodeRec
    BY Consts DEF NoInode, InodeRec
  <2> QED
    BY <1>1, <2>1
<1>7. Types'
  BY <1>1, <1>2, <1>6 DEF Inv, Types
<1>8. LogInv'
  <2>1. p \in Out /\ Out' = Out \ {p}
    BY <1>1, <1>2 DEF Out, Only
  <2> QED
    BY <1>1, <2>1, LogEnd DEF Inv
<1>9. TableInv'
  <2>1. job[p].pc # "user" /\ job'[p].pc \notin Writing
    BY <1>1, <1>2 DEF Writing
  <2>2. \A f \in File : file[f].ref > 0 => inode'[file[f].ip].used
    <3> SUFFICES ASSUME NEW f \in File, file[f].ref > 0 PROVE inode'[file[f].ip].used
      OBVIOUS
    <3>1. file[f].ip \in Ino /\ inode[file[f].ip].used
      BY DEF Inv, TableInv, RefsExact
    <3>2. file[f].ip # i
      BY <1>3 DEF Using
    <3> QED
      BY <1>4, <3>1, <3>2
  <2> QED
    BY <1>1, <1>2, <2>1, <2>2, TableSame DEF Inv
<1>10. LockInv'
  <2>1. LessUsed /\ inode'[i].busy = FALSE
    BY <1>1, <1>4 DEF LessUsed, Using, NoInode
  <2>2. job[p].pc \in Holding /\ job'[p].pc \notin Holding /\ job'[p].pc \notin Putting
    BY <1>1, <1>2 DEF Holding, Filling, Truncating, Putting
  <2>3. /\ \A q \in Proc : q # p /\ job[q].pc \in Putting /\ job[q].i = i => inode'[i].used
        /\ ~inode'[i].used => inode'[i] = NoInode
    BY <1>3, <1>4
  <2> QED
    BY <1>2, <1>3, <1>4, <2>1, <2>2, <2>3, LockDrop DEF Inv
<1>11. OwnInv'
  <2>1. Chunk(p)'
    BY <1>2 DEF Chunk, Writing, Filling
  <2> QED
    BY <1>1, <1>2, <1>5, <2>1, OwnSame, Inside DEF Inv
<1>12. PanicInv'
  BY <1>1, <1>8, PanicSame
<1> QED
  BY <1>7, <1>8, <1>9, <1>10, <1>11, <1>12 DEF Inv

-----------------------------------------------------------------------------
(* Steps that move descriptors *)

LEMMA SeatsAdd ==
    ASSUME ofile \in [Proc -> [Fd -> 0..NFILE]], NEW p \in Proc, NEW f \in File, FreeFds(p) # {}, fdalloc(p, f)
    PROVE  /\ ofile' \in [Proc -> [Fd -> 0..NFILE]]
           /\ \A q \in Proc : q # p => ofile'[q] = ofile[q]
           /\ \A e \in Fd : ofile[p][e] # 0 => ofile'[p][e] = ofile[p][e]
           /\ \A g \in File : Cardinality(Seats(g)') = IF g = f THEN Cardinality(Seats(g)) + 1 ELSE Cardinality(Seats(g))
<1> DEFINE fd == Min(FreeFds(p))
<1>1. fd \in Fd /\ ofile[p][fd] = 0
  <2>1. FreeFds(p) \in SUBSET Nat
    BY FilesAssumption DEF FreeFds, Fd
  <2>2. fd \in FreeFds(p)
    BY <2>1, MinIn
  <2> HIDE DEF fd
  <2> QED
    BY <2>2 DEF FreeFds
<1>2. ofile' = [ofile EXCEPT ![p][fd] = f]
  BY DEF fdalloc
<1> HIDE DEF fd
<1>3. /\ \A q \in Proc : q # p => ofile'[q] = ofile[q]
      /\ \A e \in Fd : e # fd => ofile'[p][e] = ofile[p][e]
      /\ ofile'[p][fd] = f
  BY <1>1, <1>2
<1>4. ofile' \in [Proc -> [Fd -> 0..NFILE]]
  BY <1>1, <1>2, Consts
<1>5. ASSUME NEW g \in File
      PROVE Cardinality(Seats(g)') = IF g = f THEN Cardinality(Seats(g)) + 1 ELSE Cardinality(Seats(g))
  <2>1. CASE g = f
    <3>1. <<p, fd>> \notin Seats(g)
      BY <1>1, <2>1, Consts DEF Seats
    <3>2. Seats(g)' = Seats(g) \cup {<<p, fd>>}
      BY <1>1, <1>3, <2>1 DEF Seats
    <3> QED
      BY <2>1, <3>1, <3>2, SeatsFinite, FS_AddElement
  <2>2. CASE g # f
    <3>1. Seats(g)' = Seats(g)
      BY <1>1, <1>3, <2>2, Consts DEF Seats
    <3> QED
      BY <2>2, <3>1
  <2> QED
    BY <2>1, <2>2
<1>6. \A e \in Fd : ofile[p][e] # 0 => ofile'[p][e] = ofile[p][e]
  BY <1>1, <1>3
<1> QED
  BY <1>3, <1>4, <1>5, <1>6

\* The tables after a step of a process that writes nothing.
LEMMA TableMoves ==
    ASSUME TableInv, NEW p \in Proc, Only(p), job[p].pc = "user", job'[p].pc \notin Writing,
           \A f \in File : /\ file'[f].ref = Cardinality(Seats(f)')
                           /\ file'[f].ref > 0 => file'[f].ip \in Ino /\ inode'[file'[f].ip].used
                           /\ file[f].ref > 0 => file'[f].ip = file[f].ip,
           \A q \in Proc \ alive' : job'[q].pc = "user" /\ \A fd \in Fd : ofile'[q][fd] = 0,
           \A q \in Proc \ {p} : \A fd \in Fd : ofile[q][fd] # 0 => ofile'[q][fd] = ofile[q][fd]
    PROVE  TableInv'
<1>1. RefsExact'
  BY DEF RefsExact, Seats
<1>2. \A f \in File : file'[f].ref > 0 => file'[f].ip \in Ino
  OBVIOUS
<1>3. ASSUME NEW q \in Proc, job'[q].pc \in Writing
      PROVE  /\ job'[q].f \in File /\ job'[q].i \in Ino /\ job'[q].i = file'[job'[q].f].ip
             /\ \E fd \in Fd : ofile'[q][fd] = job'[q].f
  <2>1. q # p /\ job'[q] = job[q]
    BY <1>3 DEF Only
  <2>2. PICK fd \in Fd : ofile[q][fd] = job[q].f
    BY <1>3, <2>1 DEF TableInv
  <2>3. job[q].f \in File /\ job[q].i \in Ino /\ job[q].i = file[job[q].f].ip
    BY <1>3, <2>1 DEF TableInv
  <2>4. file[job[q].f].ref > 0
    BY <2>2, <2>3, HasRef DEF TableInv
  <2>5. ofile'[q][fd] = job[q].f
    BY <2>1, <2>2, <2>3, Consts
  <2> QED
    BY <2>1, <2>3, <2>4, <2>5
<1> QED
  BY <1>1, <1>2, <1>3 DEF TableInv

LEMMA DupStep == ASSUME Inv, NEW p \in Proc, NEW fd \in Fd, Dup(p, fd) PROVE Inv'
<1> DEFINE g == ofile[p][fd]
<1>1. /\ p \in alive /\ job[p].pc = "user" /\ panicked = "no" /\ g # 0 /\ FreeFds(p) # {} /\ fdalloc(p, g)
      /\ file' = [file EXCEPT ![g].ref = file[g].ref + 1] /\ file \in [File -> FileRec]
      /\ bitmap' = bitmap /\ data' = data /\ inode' = inode /\ alive' = alive /\ job' = job
      /\ UNCHANGED logVars /\ panicked' = panicked /\ ofile \in [Proc -> [Fd -> 0..NFILE]]
  BY DEF Dup, CanCall, fsVars, Inv, Types
<1>2. g \in File
  BY <1>1, Consts DEF File
<1>3. file[g].ref > 0 /\ file[g].ref = Cardinality(Seats(g)) /\ file[g].ref \in Nat
  <2>1. file[g].ref = Cardinality(Seats(g))
    BY <1>2 DEF Inv, TableInv, RefsExact, Seats
  <2> QED
    BY <1>2, <2>1, HasRef, SeatsFinite DEF Inv, TableInv
<1> HIDE DEF g
<1>4. /\ file' \in [File -> FileRec]
      /\ \A f \in File : /\ file'[f].ip = file[f].ip /\ file'[f].off = file[f].off
                         /\ file'[f].ref = IF f = g THEN file[f].ref + 1 ELSE file[f].ref
  BY <1>1, <1>2, <1>3 DEF FileRec
<1>5. /\ ofile' \in [Proc -> [Fd -> 0..NFILE]]
      /\ \A q \in Proc : q # p => ofile'[q] = ofile[q]
      /\ \A f \in File : Cardinality(Seats(f)') = IF f = g THEN Cardinality(Seats(f)) + 1 ELSE Cardinality(Seats(f))
  BY <1>1, <1>2, SeatsAdd
<1>6. Types'
  BY <1>1, <1>4, <1>5 DEF Inv, Types
<1>7. LogInv'
  <2>1. Out' = Out
    BY <1>1 DEF Out
  <2> QED
    BY <1>1, <2>1, LogQuiet DEF Inv
<1>8. \A f \in File : file'[f].ref > 0 => file[f].ref > 0
  BY <1>3, <1>4
<1>9. TableInv'
  <2>1. \A f \in File : file'[f].ref = Cardinality(Seats(f)')
    <3>1. \A f \in File : file[f].ref = Cardinality(Seats(f))
      BY DEF Inv, TableInv, RefsExact, Seats
    <3> QED
      BY <1>4, <1>5, <3>1
  <2>2. Only(p) /\ job'[p].pc \notin Writing
    BY <1>1 DEF Only, Writing
  <2>3. \A f \in File : /\ file'[f].ref > 0 => file'[f].ip \in Ino /\ inode'[file'[f].ip].used
                        /\ file[f].ref > 0 => file'[f].ip = file[f].ip
    BY <1>1, <1>4, <1>8 DEF Inv, TableInv, RefsExact
  <2>4. \A q \in Proc \ alive' : job'[q].pc = "user" /\ \A e \in Fd : ofile'[q][e] = 0
    BY <1>1, <1>5 DEF Inv, TableInv
  <2>5. \A q \in Proc \ {p} : \A e \in Fd : ofile[q][e] # 0 => ofile'[q][e] = ofile[q][e]
    BY <1>5
  <2> QED
    BY <1>1, <2>1, <2>2, <2>3, <2>4, <2>5, TableMoves DEF Inv
<1>10. LockInv'
  <2>1. LocksKept /\ LessUsed
    BY <1>1, <1>4, <1>8 DEF LocksKept, LessUsed, Using
  <2> QED
    BY <1>1, <2>1, LockSame DEF Inv, Only
<1>11. OwnInv'
  <2>1. \A q \in Proc : job[q].pc \in Filling => file'[job[q].f].off = file[job[q].f].off
    BY <1>4, WriterUses DEF Writing, Filling
  <2>2. Chunk(p)'
    BY <1>1 DEF Chunk, Writing, Filling
  <2> QED
    BY <1>1, <2>1, <2>2, OwnSame, Inside DEF Inv, Only
<1>12. PanicInv'
  BY <1>1, <1>7, PanicSame
<1> QED
  BY <1>6, <1>7, <1>9, <1>10, <1>11, <1>12 DEF Inv

LEMMA ForkStep == ASSUME Inv, NEW p \in Proc, NEW q \in Proc, Fork(p, q) PROVE Inv'
<1>1. /\ p \in alive /\ job[p].pc = "user" /\ panicked = "no" /\ q \notin alive /\ alive' = alive \cup {q}
      /\ ofile' = [ofile EXCEPT ![q] = ofile[p]] /\ file' = DupAll(p) /\ file \in [File -> FileRec]
      /\ bitmap' = bitmap /\ data' = data /\ inode' = inode /\ job' = job
      /\ UNCHANGED logVars /\ panicked' = panicked /\ ofile \in [Proc -> [Fd -> 0..NFILE]]
  BY DEF Fork, CanCall, fsVars, Inv, Types
<1>2. /\ ofile' \in [Proc -> [Fd -> 0..NFILE]] /\ p # q /\ ofile'[q] = ofile[p]
      /\ \A r \in Proc : r # q => ofile'[r] = ofile[r]
  BY <1>1
<1>3. \A fd \in Fd : ofile[q][fd] = 0
  BY <1>1 DEF Inv, TableInv
<1> DEFINE D(f) == {fd \in Fd : ofile[p][fd] = f}
<1>4. \A f : Cardinality(D(f)) \in Nat /\ IsFiniteSet(D(f)) /\ (Cardinality(D(f)) # 0 <=> D(f) # {})
  <2> TAKE f
  <2>1. IsFiniteSet(Fd)
    BY FilesAssumption, FS_Interval DEF Fd
  <2>2. IsFiniteSet(D(f))
    BY <2>1, FS_Subset
  <2> HIDE DEF D
  <2> QED
    BY <2>2, FS_CardinalityType, FS_EmptySet
<1>5. file' = [f \in File |-> [file[f] EXCEPT !.ref = file[f].ref + Cardinality(D(f))]]
  BY <1>1 DEF DupAll
<1>6. /\ file' \in [File -> FileRec]
      /\ \A f \in File : /\ file'[f].ip = file[f].ip /\ file'[f].off = file[f].off
                         /\ file'[f].ref = file[f].ref + Cardinality(D(f))
  <2> HIDE DEF D
  <2>1. \A f \in File : file[f].ref + Cardinality(D(f)) \in Nat
    BY <1>1, <1>4 DEF FileRec
  <2>2. \A f \in File : file'[f] = [file[f] EXCEPT !.ref = file[f].ref + Cardinality(D(f))]
    BY <1>5
  <2>3. ASSUME NEW f \in File
        PROVE  /\ file'[f] \in FileRec /\ file'[f].ip = file[f].ip /\ file'[f].off = file[f].off
               /\ file'[f].ref = file[f].ref + Cardinality(D(f))
    <3>1. file[f] \in FileRec
      BY <1>1
    <3> QED
      BY <2>1, <2>2, <3>1 DEF FileRec
  <2>4. file' \in [File -> FileRec]
    <3>1. DOMAIN file' = File /\ file' = [f \in File |-> file'[f]]
      BY <1>5
    <3> QED
      BY <2>3, <3>1
  <2> QED
    BY <2>3, <2>4
<1>7. \A f \in File : D(f) # {} => file[f].ref > 0
  BY HasRef DEF Inv, TableInv
<1>8. \A f \in File : file'[f].ref > 0 => file[f].ref > 0
  <2> SUFFICES ASSUME NEW f \in File, file'[f].ref > 0 PROVE file[f].ref > 0
    OBVIOUS
  <2>1. CASE D(f) # {}
    BY <1>7, <2>1
  <2>2. CASE D(f) = {}
    <3>1. Cardinality(D(f)) = 0
      BY <1>4, <2>2
    <3> HIDE DEF D
    <3> QED
      BY <1>1, <1>6, <3>1 DEF FileRec
  <2> QED
    BY <2>1, <2>2
<1>9. \A f \in File : Cardinality(Seats(f)') = Cardinality(Seats(f)) + Cardinality(D(f))
  <2> TAKE f \in File
  <2> DEFINE N == {q} \X D(f)
  <2>1. Seats(f)' = Seats(f) \cup N
    BY <1>2, <1>3, Consts DEF Seats
  <2>2. Seats(f) \cap N = {}
    BY <1>3, Consts DEF Seats
  <2>3. IsFiniteSet(N) /\ Cardinality(N) = Cardinality(D(f))
    <3>1. IsFiniteSet({q}) /\ Cardinality({q}) = 1
      BY FS_Singleton
    <3> HIDE DEF D
    <3>2. IsFiniteSet(N) /\ Cardinality(N) = Cardinality({q}) * Cardinality(D(f))
      BY <1>4, <3>1, FS_Product
    <3> HIDE DEF N
    <3> QED
      BY <1>4, <3>1, <3>2
  <2> HIDE DEF D, N
  <2>4. Cardinality(Seats(f) \cup N) = Cardinality(Seats(f)) + Cardinality(N) - Cardinality(Seats(f) \cap N)
    BY <2>3, SeatsFinite, FS_Union
  <2>5. Cardinality(Seats(f) \cap N) = 0
    BY <2>2, FS_EmptySet
  <2> QED
    BY <1>4, <2>1, <2>3, <2>4, <2>5, SeatsFinite
<1>10. \A f \in File : file'[f].ref = Cardinality(Seats(f)')
  <2>1. \A f \in File : file[f].ref = Cardinality(Seats(f))
    BY DEF Inv, TableInv, RefsExact, Seats
  <2> QED
    BY <1>6, <1>9, <2>1
<1> HIDE DEF D
<1>11. Types'
  BY <1>1, <1>2, <1>6 DEF Inv, Types
<1>12. LogInv'
  <2>1. Out' = Out
    BY <1>1 DEF Out
  <2> QED
    BY <1>1, <2>1, LogQuiet DEF Inv
<1>13. TableInv'
  <2>1. Only(p) /\ job'[p].pc \notin Writing
    BY <1>1 DEF Only, Writing
  <2>2. \A f \in File : /\ file'[f].ref > 0 => file'[f].ip \in Ino /\ inode'[file'[f].ip].used
                        /\ file[f].ref > 0 => file'[f].ip = file[f].ip
    BY <1>1, <1>6, <1>8 DEF Inv, TableInv, RefsExact
  <2>3. \A r \in Proc \ alive' : job'[r].pc = "user" /\ \A e \in Fd : ofile'[r][e] = 0
    BY <1>1, <1>2 DEF Inv, TableInv
  <2>4. \A r \in Proc \ {p} : \A e \in Fd : ofile[r][e] # 0 => ofile'[r][e] = ofile[r][e]
    BY <1>2, <1>3
  <2> QED
    BY <1>1, <1>10, <2>1, <2>2, <2>3, <2>4, TableMoves DEF Inv
<1>14. LockInv'
  <2>1. LocksKept /\ LessUsed
    BY <1>1, <1>6, <1>8 DEF LocksKept, LessUsed, Using
  <2> QED
    BY <1>1, <2>1, LockSame DEF Inv, Only
<1>15. OwnInv'
  <2>1. \A r \in Proc : job[r].pc \in Filling => file'[job[r].f].off = file[job[r].f].off
    BY <1>6, WriterUses DEF Writing, Filling
  <2>2. Chunk(p)'
    BY <1>1 DEF Chunk, Writing, Filling
  <2> QED
    BY <1>1, <2>1, <2>2, OwnSame, Inside DEF Inv, Only
<1>16. PanicInv'
  BY <1>1, <1>12, PanicSame
<1> QED
  BY <1>11, <1>12, <1>13, <1>14, <1>15, <1>16 DEF Inv

LEMMA CloseStep == ASSUME Inv, NEW p \in Proc, NEW fd \in Fd, Close(p, fd) PROVE Inv'
<1> DEFINE g == ofile[p][fd]
           i == file[g].ip
<1>1. /\ p \in alive /\ job[p].pc = "user" /\ panicked = "no" /\ g # 0
      /\ ofile' = [ofile EXCEPT ![p][fd] = 0]
      /\ file' = [file EXCEPT ![g].ref = file[g].ref - 1] /\ file \in [File -> FileRec]
      /\ job' = IF file[g].ref > 1 THEN job ELSE [job EXCEPT ![p].pc = "put_begin", ![p].i = i]
      /\ bitmap' = bitmap /\ data' = data /\ inode' = inode /\ alive' = alive /\ job \in [Proc -> JobRec]
      /\ UNCHANGED logVars /\ panicked' = panicked /\ ofile \in [Proc -> [Fd -> 0..NFILE]]
  BY DEF Close, CanCall, fsVars, Inv, Types
<1>2. g \in File
  BY <1>1, Consts DEF File
<1>3. /\ file[g].ref > 0 /\ file[g].ref = Cardinality(Seats(g)) /\ file[g].ref \in Nat
      /\ i \in Ino /\ inode[i].used /\ g \in Using(i)
  <2>1. file[g].ref = Cardinality(Seats(g))
    BY <1>2 DEF Inv, TableInv, RefsExact, Seats
  <2>2. file[g].ref > 0 /\ inode[i].used
    BY <1>2, HasRef DEF Inv, TableInv
  <2> QED
    BY <1>2, <2>1, <2>2, SeatsFinite DEF Inv, TableInv, Using
<1> HIDE DEF g
<1>4. /\ file' \in [File -> FileRec]
      /\ \A f \in File : /\ file'[f].ip = file[f].ip /\ file'[f].off = file[f].off
                         /\ file'[f].ref = IF f = g THEN file[f].ref - 1 ELSE file[f].ref
  <2>1. file[g].ref - 1 \in Nat
    BY <1>3
  <2> QED
    BY <1>1, <1>2, <2>1 DEF FileRec
<1>5. /\ ofile' \in [Proc -> [Fd -> 0..NFILE]] /\ ofile'[p][fd] = 0
      /\ \A q \in Proc : q # p => ofile'[q] = ofile[q]
      /\ \A e \in Fd : e # fd => ofile'[p][e] = ofile[p][e]
  BY <1>1, Consts
<1>6. \A f \in File : Cardinality(Seats(f)') = IF f = g THEN Cardinality(Seats(f)) - 1 ELSE Cardinality(Seats(f))
  <2> TAKE f \in File
  <2>1. CASE f = g
    <3>1. <<p, fd>> \in Seats(f)
      BY <2>1 DEF Seats, g
    <3>2. Seats(f)' = Seats(f) \ {<<p, fd>>}
      BY <1>2, <1>5, <2>1, Consts DEF Seats, g
    <3> QED
      BY <2>1, <3>1, <3>2, SeatsFinite, FS_RemoveElement
  <2>2. CASE f # g
    <3>1. Seats(f)' = Seats(f)
      BY <1>2, <1>5, <2>2, Consts DEF Seats, g
    <3> QED
      BY <2>2, <3>1
  <2> QED
    BY <2>1, <2>2
<1>7. /\ \/ job' = job
         \/ job'[p].pc = "put_begin" /\ job'[p].i = i
      /\ job' \in [Proc -> JobRec] /\ Only(p) /\ job'[p].pc \in {"user", "put_begin"}
  <2>1. CASE file[g].ref > 1
    <3>1. job' = job
      BY <1>1, <2>1
    <3> QED
      BY <1>1, <3>1 DEF Only
  <2>2. CASE ~(file[g].ref > 1)
    <3>1. job' = [job EXCEPT ![p].pc = "put_begin", ![p].i = i]
      BY <1>1, <2>2
    <3>2. "put_begin" \in Pcs /\ i \in Ino \cup {0}
      BY <1>3 DEF Pcs, Putting
    <3> HIDE DEF i
    <3>3. job \in [Proc -> JobRec]
      BY <1>1
    <3> DEFINE r == [job[p] EXCEPT !.pc = "put_begin", !.i = i]
    <3>4. job' = [job EXCEPT ![p] = r] /\ r \in JobRec /\ r.pc = "put_begin" /\ r.i = i
      BY <3>1, <3>2, <3>3 DEF JobRec
    <3> HIDE DEF r
    <3>5. job' \in [Proc -> JobRec] /\ job'[p].pc = "put_begin" /\ job'[p].i = i
      BY <3>3, <3>4
    <3>6. Only(p)
      BY <3>1, <3>3 DEF Only
    <3> QED
      BY <3>4, <3>5, <3>6
  <2> QED
    BY <2>1, <2>2
<1>8. Types'
  BY <1>1, <1>4, <1>5, <1>7 DEF Inv, Types
<1>9. LogInv'
  <2>1. Out' = Out
    BY <1>1, <1>7 DEF Out, Only
  <2> QED
    BY <1>1, <2>1, LogQuiet DEF Inv
<1>10. \A f \in File : file'[f].ref > 0 => file[f].ref > 0
  BY <1>3, <1>4
<1>11. TableInv'
  <2>1. \A f \in File : file'[f].ref = Cardinality(Seats(f)')
    <3>1. \A f \in File : file[f].ref = Cardinality(Seats(f))
      BY DEF Inv, TableInv, RefsExact, Seats
    <3> QED
      BY <1>4, <1>6, <3>1
  <2>2. Only(p) /\ job'[p].pc \notin Writing
    BY <1>7 DEF Writing
  <2>3. \A f \in File : /\ file'[f].ref > 0 => file'[f].ip \in Ino /\ inode'[file'[f].ip].used
                        /\ file[f].ref > 0 => file'[f].ip = file[f].ip
    BY <1>1, <1>4, <1>10 DEF Inv, TableInv, RefsExact
  <2>4. \A q \in Proc \ alive' : job'[q].pc = "user" /\ \A e \in Fd : ofile'[q][e] = 0
    BY <1>1, <1>5, <1>7 DEF Inv, TableInv, Only
  <2>5. \A q \in Proc \ {p} : \A e \in Fd : ofile[q][e] # 0 => ofile'[q][e] = ofile[q][e]
    BY <1>5
  <2> QED
    BY <1>1, <2>1, <2>2, <2>3, <2>4, <2>5, TableMoves DEF Inv
<1>12. LockInv'
  <2>1. LocksKept /\ LessUsed
    BY <1>1, <1>4, <1>10 DEF LocksKept, LessUsed, Using
  <2>2. CASE job' = job
    BY <1>7, <2>1, <2>2, LockSame DEF Inv
  <2>3. CASE job'[p].pc = "put_begin" /\ job'[p].i = i
    <3>1. \A q \in Proc : job[q].pc \in Truncating => job[q].i # i
      BY <1>3 DEF Inv, LockInv
    <3>2. job[p].pc \notin Holding
      BY <1>1 DEF Holding, Filling, Truncating
    <3> HIDE DEF i
    <3> QED
      BY <1>3, <1>7, <2>1, <2>3, <3>1, <3>2, LockPut DEF Inv
  <2> QED
    BY <1>7, <2>2, <2>3
<1>13. OwnInv'
  <2>1. \A q \in Proc : job[q].pc \in Filling => file'[job[q].f].off = file[job[q].f].off
    BY <1>4, WriterUses DEF Writing, Filling
  <2>2. Chunk(p)'
    BY <1>7 DEF Chunk, Writing, Filling
  <2> QED
    BY <1>1, <1>7, <2>1, <2>2, OwnSame, Inside DEF Inv
<1>14. PanicInv'
  BY <1>1, <1>9, PanicSame
<1> QED
  BY <1>8, <1>9, <1>11, <1>12, <1>13, <1>14 DEF Inv

LEMMA ExitStep == ASSUME Inv, NEW p \in Proc, Exit(p) PROVE Inv'
<1>1. /\ p \in alive /\ job[p].pc = "user" /\ panicked = "no" /\ FreeFds(p) = Fd /\ alive' = alive \ {p}
      /\ bitmap' = bitmap /\ data' = data /\ inode' = inode /\ file' = file /\ ofile' = ofile /\ job' = job
      /\ UNCHANGED logVars /\ panicked' = panicked
  BY DEF Exit, CanCall, fsVars
<1>2. Types'
  BY <1>1 DEF Inv, Types
<1>3. LogInv'
  <2>1. Out' = Out
    BY <1>1 DEF Out
  <2> QED
    BY <1>1, <2>1, LogQuiet DEF Inv
<1>4. TableInv'
  <2>1. \A fd \in Fd : ofile[p][fd] = 0
    BY <1>1 DEF FreeFds
  <2>2. RefsExact'
    BY <1>1 DEF Inv, TableInv, RefsExact
  <2> QED
    BY <1>1, <2>1, <2>2 DEF Inv, TableInv
<1>5. LockInv'
  <2>1. LocksKept /\ LessUsed
    BY <1>1 DEF LocksKept, LessUsed, Using
  <2> QED
    BY <1>1, <2>1, LockSame DEF Inv, Only
<1>6. OwnInv'
  <2>1. Chunk(p)'
    BY <1>1 DEF Chunk, Writing, Filling
  <2> QED
    BY <1>1, <2>1, OwnSame, Inside DEF Inv, Only
<1>7. PanicInv'
  BY <1>1, <1>3, PanicSame
<1> QED
  BY <1>2, <1>3, <1>4, <1>5, <1>6, <1>7 DEF Inv

LEMMA WriteStep == ASSUME Inv, NEW p \in Proc, NEW fd \in Fd, NEW n \in Sizes, Write(p, fd, n) PROVE Inv'
<1> DEFINE g == ofile[p][fd]
           i == file[g].ip
<1>1. /\ p \in alive /\ job[p].pc = "user" /\ panicked = "no" /\ g # 0
      /\ job' = [job EXCEPT ![p] = [NoJob EXCEPT !.pc = "begin", !.f = g, !.i = i, !.left = n]]
      /\ bitmap' = bitmap /\ data' = data /\ inode' = inode /\ file' = file /\ ofile' = ofile /\ alive' = alive
      /\ UNCHANGED logVars /\ panicked' = panicked /\ ofile \in [Proc -> [Fd -> 0..NFILE]] /\ job \in [Proc -> JobRec]
  BY DEF Write, CanCall, fsVars, tableVars, Inv, Types
<1>2. g \in File /\ i \in Ino /\ n \in Nat /\ n > 0
  <2>1. g \in File
    BY <1>1, Consts DEF File
  <2>2. file[g].ref > 0
    BY <2>1, HasRef DEF Inv, TableInv
  <2>3. i \in Ino
    BY <2>1, <2>2 DEF Inv, TableInv
  <2>4. n \in Nat \ {0}
    BY FilesAssumption
  <2> QED
    BY <2>1, <2>3, <2>4
<1>3. /\ job'[p].pc = "begin" /\ job'[p].f = g /\ job'[p].i = i /\ job'[p].left = n
      /\ job' \in [Proc -> JobRec] /\ Only(p)
  <2> HIDE DEF g, i
  <2>1. "begin" \in Pcs /\ g \in 0..NFILE /\ i \in Ino \cup {0}
    BY <1>2, Consts DEF Pcs, Writing
  <2>2. NoJob \in JobRec
    BY Consts DEF NoJob, JobRec, Pcs
  <2> DEFINE j == [NoJob EXCEPT !.pc = "begin", !.f = g, !.i = i, !.left = n]
  <2>3. j \in JobRec /\ j.pc = "begin" /\ j.f = g /\ j.i = i /\ j.left = n
    BY <1>2, <2>1, <2>2 DEF JobRec
  <2>4. job' = [job EXCEPT ![p] = j]
    BY <1>1
  <2> HIDE DEF j
  <2> QED
    BY <1>1, <2>3, <2>4 DEF Only
<1>4. Types'
  BY <1>1, <1>3 DEF Inv, Types
<1>5. LogInv'
  <2>1. Out' = Out
    BY <1>1, <1>3 DEF Out, Only
  <2> QED
    BY <1>1, <2>1, LogQuiet DEF Inv
<1>6. TableInv'
  <2>1. RefsExact'
    BY <1>1 DEF Inv, TableInv, RefsExact
  <2>2. \A q \in Proc \ alive' : job'[q].pc = "user" /\ \A e \in Fd : ofile'[q][e] = 0
    BY <1>1, <1>3 DEF Inv, TableInv, Only
  <2>3. ASSUME NEW q \in Proc, job'[q].pc \in Writing
        PROVE  /\ job'[q].f \in File /\ job'[q].i \in Ino /\ job'[q].i = file'[job'[q].f].ip
               /\ \E e \in Fd : ofile'[q][e] = job'[q].f
    <3>1. CASE q = p
      BY <1>1, <1>2, <1>3, <3>1
    <3>2. CASE q # p
      BY <1>1, <1>3, <2>3, <3>2 DEF Inv, TableInv, Only
    <3> QED
      BY <3>1, <3>2
  <2>4. \A f \in File : file'[f].ref > 0 => file'[f].ip \in Ino
    BY <1>1 DEF Inv, TableInv
  <2> QED
    BY <2>1, <2>2, <2>3, <2>4 DEF TableInv
<1>7. LockInv'
  <2>1. LocksKept /\ LessUsed
    BY <1>1 DEF LocksKept, LessUsed, Using
  <2> QED
    BY <1>1, <1>3, <2>1, LockSame DEF Inv, Holding, Filling, Truncating, Putting
<1>8. OwnInv'
  <2>1. Chunk(p)'
    BY <1>2, <1>3 DEF Chunk, Writing, Filling
  <2> QED
    BY <1>1, <1>3, <2>1, OwnSame, Inside DEF Inv
<1>9. PanicInv'
  BY <1>1, <1>5, PanicSame
<1> QED
  BY <1>4, <1>5, <1>6, <1>7, <1>8, <1>9 DEF Inv

LEMMA ReadStep == ASSUME Inv, NEW p \in Proc, NEW fd \in Fd, NEW n \in Sizes, Read(p, fd, n) PROVE Inv'
<1> DEFINE g == ofile[p][fd]
           i == file[g].ip
           got == Min({n, inode[i].size - file[g].off})
<1>1. /\ p \in alive /\ job[p].pc = "user" /\ panicked = "no" /\ g # 0 /\ ~inode[i].busy /\ got > 0
      /\ file' = [file EXCEPT ![g].off = file[g].off + got] /\ file \in [File -> FileRec]
      /\ bitmap' = bitmap /\ data' = data /\ inode' = inode /\ job' = job /\ ofile' = ofile /\ alive' = alive
      /\ UNCHANGED logVars /\ panicked' = panicked /\ ofile \in [Proc -> [Fd -> 0..NFILE]] /\ inode \in [Ino -> InodeRec]
  BY DEF Read, CanCall, fsVars, Inv, Types
<1>2. g \in File /\ i \in Ino
  <2>1. g \in File
    BY <1>1, Consts DEF File
  <2>2. file[g].ref > 0
    BY <2>1, HasRef DEF Inv, TableInv
  <2> QED
    BY <2>1, <2>2 DEF Inv, TableInv
<1>3. got \in Nat
  <2>1. n \in Int /\ inode[i].size \in Int /\ file[g].off \in Int
    <3>1. n \in Nat
      BY FilesAssumption
    <3>2. inode[i] \in InodeRec /\ file[g] \in FileRec
      BY <1>1, <1>2
    <3>3. inode[i].size \in 0..(MAXFILE * BSIZE) /\ file[g].off \in Nat
      BY <3>2 DEF InodeRec, FileRec
    <3>4. inode[i].size \in Int
      BY <3>3, Consts
    <3> QED
      BY <3>1, <3>3, <3>4
  <2> DEFINE d == inode[i].size - file[g].off
  <2>2. d \in Int
    BY <2>1
  <2> HIDE DEF d
  <2>3. \E x \in {n, d} : \A y \in {n, d} : x <= y
    BY <2>1, <2>2
  <2>4. Min({n, d}) \in Int
    BY <2>1, <2>2, <2>3 DEF Min
  <2>5. got \in Int
    BY <2>4 DEF d
  <2> HIDE DEF got
  <2> QED
    BY <1>1, <2>5
<1> HIDE DEF g, got
<1>4. /\ file' \in [File -> FileRec]
      /\ \A f \in File : /\ file'[f].ip = file[f].ip /\ file'[f].ref = file[f].ref
                         /\ f # g => file'[f].off = file[f].off
  <2>1. file[g].off + got \in Nat
    BY <1>1, <1>2, <1>3 DEF FileRec
  <2> QED
    BY <1>1, <1>2, <2>1 DEF FileRec
<1>5. Types'
  BY <1>1, <1>4 DEF Inv, Types
<1>6. LogInv'
  <2>1. Out' = Out
    BY <1>1 DEF Out
  <2> QED
    BY <1>1, <2>1, LogQuiet DEF Inv
<1>7. TableInv'
  <2>1. RefsExact'
    BY <1>1, <1>4 DEF Inv, TableInv, RefsExact
  <2> QED
    BY <1>1, <1>4, <2>1 DEF Inv, TableInv
<1>8. LockInv'
  <2>1. LocksKept /\ LessUsed
    BY <1>1, <1>4 DEF LocksKept, LessUsed, Using
  <2> QED
    BY <1>1, <2>1, LockSame DEF Inv, Only
<1>9. OwnInv'
  <2>1. ASSUME NEW q \in Proc, job[q].pc \in Filling PROVE file'[job[q].f].off = file[job[q].f].off
    <3>1. job[q].f \in File /\ job[q].i \in Ino /\ job[q].i = file[job[q].f].ip
      BY <2>1, WriterUses DEF Writing, Filling
    <3>2. inode[job[q].i].busy
      BY <2>1, <3>1 DEF Inv, LockInv, Holding
    <3>3. job[q].f # g
      BY <1>1, <3>1, <3>2 DEF g
    <3> QED
      BY <1>4, <3>1, <3>3
  <2>2. Chunk(p)'
    BY <1>1 DEF Chunk, Writing, Filling
  <2> QED
    BY <1>1, <2>1, <2>2, OwnSame, Inside DEF Inv, Only
<1>10. PanicInv'
  BY <1>1, <1>6, PanicSame
<1> QED
  BY <1>5, <1>6, <1>7, <1>8, <1>9, <1>10 DEF Inv

LEMMA OpenStep == ASSUME Inv, NEW p \in Proc, NEW i \in Ino, NEW create \in BOOLEAN, Open(p, i, create) PROVE Inv'
<1> DEFINE ok == FreeFiles # {} /\ FreeFds(p) # {}
           f == Min(FreeFiles)
           new == [NoInode EXCEPT !.used = TRUE, !.nlink = 1]
<1>1. /\ p \in alive /\ job[p].pc = "user" /\ panicked = "no" /\ ~inode[i].busy
      /\ IF create THEN ~inode[i].used ELSE inode[i].nlink > 0
      /\ inode' = IF create THEN [inode EXCEPT ![i] = new] ELSE inode
      /\ IF ok THEN fdalloc(p, f) /\ file' = [file EXCEPT ![f] = [ref |-> 1, ip |-> i, off |-> 0]]
               ELSE ofile' = ofile /\ file' = file
      /\ bitmap' = bitmap /\ data' = data /\ alive' = alive /\ job' = job
      /\ IF create THEN Transaction(<<INODES, NAMES>>) ELSE UNCHANGED logVars /\ panicked' = panicked
      /\ ofile \in [Proc -> [Fd -> 0..NFILE]] /\ inode \in [Ino -> InodeRec] /\ file \in [File -> FileRec]
  BY DEF Open, CanCall, Inv, Types
<1>2. ok => f \in File /\ file[f].ref = 0
  <2>1. FreeFiles \in SUBSET Nat
    BY FilesAssumption DEF FreeFiles, File
  <2>2. FreeFiles # {} => f \in FreeFiles
    BY <2>1, MinIn
  <2> HIDE DEF f
  <2> QED
    BY <2>2 DEF FreeFiles
<1> HIDE DEF f, ok
<1>3. /\ inode' \in [Ino -> InodeRec] /\ inode'[i].used /\ inode'[i].busy = FALSE
      /\ \A k \in Ino : inode'[k].addrs = inode[k].addrs /\ inode'[k].busy = inode[k].busy
      /\ \A k \in Ino : k # i => inode'[k] = inode[k]
      /\ \A k \in Ino : inode[k].used => inode'[k].used
  <2>1. CASE create
    <3>1. inode[i] = NoInode /\ inode' = [inode EXCEPT ![i] = new]
      BY <1>1, <2>1 DEF Inv, LockInv
    <3>2. NoInode \in InodeRec
      BY Consts DEF NoInode, InodeRec
    <3>3. new \in InodeRec /\ new.used /\ new.busy = NoInode.busy /\ new.addrs = NoInode.addrs /\ NoInode.busy = FALSE
      BY <3>2 DEF InodeRec, NoInode
    <3> HIDE DEF new
    <3> QED
      BY <1>1, <3>1, <3>3
  <2>2. CASE ~create
    <3>1. inode' = inode /\ inode[i].nlink > 0
      BY <1>1, <2>2
    <3>2. inode[i].used
      BY <3>1 DEF Inv, LockInv, NoInode
    <3>3. inode[i].busy \in BOOLEAN
      BY <1>1 DEF InodeRec
    <3> QED
      BY <1>1, <3>1, <3>2, <3>3
  <2> QED
    BY <2>1, <2>2
<1>4. /\ file' \in [File -> FileRec]
      /\ \A h \in File : \/ file'[h] = file[h]
                         \/ ok /\ h = f /\ file[h].ref = 0 /\ file'[h].ref = 1 /\ file'[h].ip = i
  <2>1. [ref |-> 1, ip |-> i, off |-> 0] \in FileRec
    BY DEF FileRec
  <2> QED
    BY <1>1, <1>2, <2>1
<1>5. /\ ofile' \in [Proc -> [Fd -> 0..NFILE]]
      /\ \A q \in Proc : q # p => ofile'[q] = ofile[q]
      /\ \A h \in File : Cardinality(Seats(h)') = IF ok /\ h = f THEN Cardinality(Seats(h)) + 1 ELSE Cardinality(Seats(h))
  <2>1. CASE ok
    BY <1>1, <1>2, <2>1, SeatsAdd DEF ok
  <2>2. CASE ~ok
    <3>1. ofile' = ofile
      BY <1>1, <2>2
    <3> QED
      BY <1>1, <2>2, <3>1 DEF Seats
  <2> QED
    BY <2>1, <2>2
<1>6. Types'
  BY <1>1, <1>3, <1>4, <1>5 DEF Inv, Types
<1>7. LogInv' /\ PanicInv'
  <2>1. Out' = Out
    BY <1>1 DEF Out
  <2>2. CASE create
    <3>1. <<INODES, NAMES>> \in Seq(Int)
      BY DEF INODES, NAMES
    <3> QED
      BY <1>1, <2>1, <2>2, <3>1, LogTransaction DEF Inv
  <2>3. CASE ~create
    BY <1>1, <2>1, <2>3, LogQuiet, PanicSame DEF Inv
  <2> QED
    BY <2>2, <2>3
<1>8. TableInv'
  <2>1. \A h \in File : file'[h].ref = Cardinality(Seats(h)')
    <3>1. \A h \in File : file[h].ref = Cardinality(Seats(h))
      BY DEF Inv, TableInv, RefsExact, Seats
    <3>2. \A h \in File : ok /\ h = f => file'[h].ref = 1 /\ file[h].ref = 0
      BY <1>1, <1>2
    <3>3. \A h \in File : ~(ok /\ h = f) => file'[h].ref = file[h].ref
      BY <1>4
    <3> QED
      BY <1>5, <3>1, <3>2, <3>3
  <2>2. Only(p) /\ job'[p].pc \notin Writing
    BY <1>1 DEF Only, Writing
  <2>3. \A h \in File : /\ file'[h].ref > 0 => file'[h].ip \in Ino /\ inode'[file'[h].ip].used
                        /\ file[h].ref > 0 => file'[h].ip = file[h].ip
    <3> SUFFICES ASSUME NEW h \in File
                 PROVE  /\ file'[h].ref > 0 => file'[h].ip \in Ino /\ inode'[file'[h].ip].used
                        /\ file[h].ref > 0 => file'[h].ip = file[h].ip
      OBVIOUS
    <3>1. CASE file'[h] = file[h]
      BY <1>3, <3>1 DEF Inv, TableInv, RefsExact
    <3>2. CASE file[h].ref = 0 /\ file'[h].ip = i
      BY <1>3, <3>2
    <3> QED
      BY <1>4, <3>1, <3>2
  <2>4. \A q \in Proc \ alive' : job'[q].pc = "user" /\ \A e \in Fd : ofile'[q][e] = 0
    BY <1>1, <1>5 DEF Inv, TableInv
  <2>5. \A q \in Proc \ {p} : \A e \in Fd : ofile[q][e] # 0 => ofile'[q][e] = ofile[q][e]
    BY <1>5
  <2> QED
    BY <1>1, <2>1, <2>2, <2>3, <2>4, <2>5, TableMoves DEF Inv
<1>9. LockInv'
  <2>1. \A k \in Ino : inode'[k].busy <=> \E q \in Proc : job'[q].pc \in Holding /\ job'[q].i = k
    BY <1>1, <1>3 DEF Inv, LockInv
  <2>2. \A q, r \in Proc : job'[q].pc \in Holding /\ job'[r].pc \in Holding /\ job'[q].i = job'[r].i => q = r
    BY <1>1 DEF Inv, LockInv
  <2>3. \A q \in Proc : job'[q].pc \in Putting => job'[q].i \in Ino /\ inode'[job'[q].i].used
    BY <1>1, <1>3 DEF Inv, LockInv
  <2>4. ASSUME NEW q \in Proc, job[q].pc \in Truncating
        PROVE  /\ inode'[job[q].i].nlink = 0 /\ Using(job[q].i)' = {} /\ job'[q].i = job[q].i
               /\ \A r \in Proc : job'[r].pc \in Putting /\ job'[r].i = job'[q].i => r = q
    <3>1. job[q].i \in Ino /\ inode[job[q].i].used /\ inode[job[q].i].nlink = 0 /\ Using(job[q].i) = {}
      BY <2>4 DEF Inv, LockInv, Putting
    <3>2. job[q].i # i
      BY <1>1, <3>1
    <3>3. Using(job[q].i)' = {}
      BY <1>1, <1>4, <3>1, <3>2 DEF Using
    <3>4. \A r \in Proc : job[r].pc \in Putting /\ job[r].i = job[q].i => r = q
      BY <2>4 DEF Inv, LockInv
    <3> QED
      BY <1>1, <1>3, <3>1, <3>2, <3>3, <3>4
  <2>5. \A k \in Ino : ~inode'[k].used => inode'[k] = NoInode
    BY <1>3 DEF Inv, LockInv
  <2> QED
    BY <1>1, <2>1, <2>2, <2>3, <2>4, <2>5 DEF LockInv
<1>10. OwnInv'
  <2>1. ASSUME NEW q \in Proc, job[q].pc \in Filling PROVE file'[job[q].f].off = file[job[q].f].off
    <3>1. job[q].f \in File /\ file[job[q].f].ref > 0
      BY <2>1, WriterUses DEF Writing, Filling, Using
    <3> QED
      BY <1>4, <3>1
  <2>2. Chunk(p)'
    BY <1>1 DEF Chunk, Writing, Filling
  <2> QED
    BY <1>1, <1>3, <2>1, <2>2, OwnSame, Inside DEF Inv, Only
<1> QED
  BY <1>6, <1>7, <1>8, <1>9, <1>10 DEF Inv

-----------------------------------------------------------------------------
(* Steps that take, fill and free blocks *)

\* The block of a file that a writer has come to.
LEMMA Divide ==
    ASSUME NEW a \in Nat, NEW b \in Nat \ {0}
    PROVE  a \div b \in Nat /\ a % b \in 0..(b - 1) /\ a = (a \div b) * b + (a % b)
OBVIOUS

LEMMA Position ==
    ASSUME Inv, NEW p \in Proc, job[p].pc \in {"map", "zero", "copy"},
           NEW o, o = Off(job[p]), NEW n, n = o \div BSIZE
    PROVE  /\ o \in Nat /\ n \in Nat /\ n < MAXFILE /\ o % BSIZE \in 0..(BSIZE - 1)
           /\ n >= NDIRECT => n - NDIRECT \in 0..(NINDIRECT - 1) /\ n - NDIRECT \in 0..(BSIZE - 1)
           /\ n < NDIRECT => n \in 0..NDIRECT
           /\ o = n * BSIZE + (o % BSIZE)
<1>1. job[p] \in JobRec /\ job[p].f \in File /\ file[job[p].f] \in FileRec
  BY WriterUses DEF Writing, Inv, Types
<1>2. o \in Nat /\ o < MAXFILE * BSIZE
  <2>1. job[p].tot < job[p].n1 /\ file[job[p].f].off + job[p].n1 <= MAXFILE * BSIZE
    BY DEF Inv, OwnInv, Chunk
  <2>2. job[p].tot \in Nat /\ job[p].n1 \in Nat /\ file[job[p].f].off \in Nat
    BY <1>1 DEF JobRec, FileRec
  <2>3. o = file[job[p].f].off + job[p].tot
    BY DEF Off
  <2> QED
    BY <2>1, <2>2, <2>3, Consts
<1>3. BSIZE \in Nat \ {0}
  BY FilesAssumption
<1>4. n \in Nat /\ o % BSIZE \in 0..(BSIZE - 1) /\ o = n * BSIZE + (o % BSIZE)
  BY <1>2, <1>3, Divide
<1>5. n < MAXFILE
  <2> SUFFICES ASSUME n >= MAXFILE PROVE FALSE
    BY <1>4, Consts
  <2> DEFINE d == n - MAXFILE
             r == o % BSIZE
  <2>1. d \in Nat /\ n = MAXFILE + d /\ r \in Nat /\ o = n * BSIZE + r
    <3>1. MAXFILE \in Nat
      BY Consts
    <3> HIDE DEF MAXFILE
    <3>2. d \in Nat /\ n = MAXFILE + d
      BY <1>4, <3>1
    <3>3. r \in Nat /\ o = n * BSIZE + r
      BY <1>3, <1>4
    <3> QED
      BY <3>2, <3>3
  <2> HIDE DEF d, r
  <2>2. n * BSIZE = MAXFILE * BSIZE + d * BSIZE /\ d * BSIZE \in Nat /\ MAXFILE * BSIZE \in Nat
    <3>1. MAXFILE \in Nat
      BY Consts
    <3> HIDE DEF MAXFILE
    <3> QED
      BY <1>3, <2>1, <3>1
  <2> DEFINE top == MAXFILE * BSIZE
             y == d * BSIZE
  <2>3. top \in Nat /\ y \in Nat /\ o = top + y + r /\ o < top
    BY <1>2, <2>1, <2>2
  <2> HIDE DEF top, y
  <2> QED
    BY <2>1, <2>3
<1>6. n >= NDIRECT => n - NDIRECT \in 0..(NINDIRECT - 1) /\ n - NDIRECT \in 0..(BSIZE - 1)
  <2>1. /\ n \in Nat /\ n < NDIRECT + NINDIRECT
        /\ NDIRECT \in Nat /\ NINDIRECT \in Nat /\ BSIZE \in Nat /\ NINDIRECT <= BSIZE
    BY <1>4, <1>5, FilesAssumption DEF MAXFILE
  <2> QED
    BY <2>1
<1>7. n < NDIRECT => n \in 0..NDIRECT
  BY <1>4, Consts
<1> QED
  BY <1>2, <1>4, <1>5, <1>6, <1>7

\* An address is in use, at one place only.
LEMMA PlaceOfAddr ==
    ASSUME Inv, NEW i \in Ino, NEW n \in 0..NDIRECT, inode[i].addrs[n] # 0
    PROVE  <<i, n, inode[i].addrs[n]>> \in Places /\ inode[i].addrs[n] \in bitmap /\ inode[i].addrs[n] \in Block
<1>1. <<i, n, inode[i].addrs[n]>> \in Places
  BY PlacesAre DEF PlaceD
<1>2. <<i, n, inode[i].addrs[n]>>[3] \in bitmap
  BY <1>1 DEF Inv, OwnInv, Owned
<1> QED
  BY <1>1, <1>2 DEF Inv, Types

LEMMA PlaceOfEntry ==
    ASSUME Inv, NEW i \in Ino, Indirect(i) # 0, NEW k \in Entries(i), data[Indirect(i)][k] # 0
    PROVE  /\ <<i, NDIRECT + 1 + k, data[Indirect(i)][k]>> \in Places
           /\ data[Indirect(i)][k] \in bitmap /\ data[Indirect(i)][k] \in Block
<1> DEFINE x == <<i, NDIRECT + 1 + k, data[Indirect(i)][k]>>
<1>1. x \in Places
  BY PlacesAre DEF PlaceE
<1>2. x[3] \in bitmap
  BY <1>1 DEF Inv, OwnInv, Owned
<1> QED
  BY <1>1, <1>2 DEF Inv, Types

LEMMA PlaceOfNew ==
    ASSUME Inv, NEW p \in Proc, job[p].pc = "zero"
    PROVE  <<p, -1, job[p].b>> \in Places /\ job[p].b \in bitmap /\ job[p].b \in Block
<1>1. <<p, -1, job[p].b>> \in Places
  BY PlacesAre DEF PlaceZ
<1>2. <<p, -1, job[p].b>>[3] \in bitmap
  BY <1>1 DEF Inv, OwnInv, Owned
<1> QED
  BY <1>1, <1>2 DEF Inv, Types

LEMMA OnePlace ==
    ASSUME Inv, NEW a, NEW m, NEW b, NEW c, NEW n, <<a, m, b>> \in Places, <<c, n, b>> \in Places
    PROVE  a = c /\ m = n
<1>1. <<a, m, b>>[3] = <<c, n, b>>[3]
  OBVIOUS
<1>2. <<a, m, b>> = <<c, n, b>>
  BY <1>1 DEF Inv, OwnInv, Owned
<1> QED
  BY <1>2

\* No indirect block is shared, or waits to be entered somewhere.
LEMMA IndirectOwn ==
    ASSUME Inv, NEW i \in Ino, Indirect(i) # 0
    PROVE  /\ Indirect(i) \in Block /\ <<i, NDIRECT, Indirect(i)>> \in Places
           /\ \A k \in Ino : Indirect(k) = Indirect(i) => k = i
           /\ \A p \in Proc : job[p].pc = "zero" => job[p].b # Indirect(i)
<1>1. NDIRECT \in 0..NDIRECT /\ NDIRECT # -1
  BY FilesAssumption
<1>2. <<i, NDIRECT, Indirect(i)>> \in Places /\ Indirect(i) \in Block
  BY <1>1, PlaceOfAddr DEF Indirect
<1>3. \A k \in Ino : Indirect(k) = Indirect(i) => k = i
  <2> SUFFICES ASSUME NEW k \in Ino, Indirect(k) = Indirect(i) PROVE k = i
    OBVIOUS
  <2>1. <<k, NDIRECT, Indirect(k)>> \in Places
    BY <1>1, PlaceOfAddr DEF Indirect
  <2> QED
    BY <1>2, <2>1, OnePlace
<1>4. \A p \in Proc : job[p].pc = "zero" => job[p].b # Indirect(i)
  <2> SUFFICES ASSUME NEW p \in Proc, job[p].pc = "zero", job[p].b = Indirect(i) PROVE FALSE
    OBVIOUS
  <2>1. <<p, -1, Indirect(i)>> \in Places
    BY PlaceOfNew
  <2> QED
    BY <1>1, <1>2, <2>1, OnePlace
<1> QED
  BY <1>2, <1>3, <1>4

\* Nobody truncates an inode that a writer has locked.
LEMMA EntriesAll ==
    ASSUME Inv, NEW p \in Proc, job[p].pc \in Filling
    PROVE  Entries(job[p].i) = 0..(NINDIRECT - 1)
<1>1. ASSUME NEW q \in Proc, job[q].pc = "trunc", job[q].i = job[p].i PROVE FALSE
  BY <1>1 DEF Inv, LockInv, Holding, Filling, Truncating
<1> QED
  BY <1>1 DEF Entries

\* The data of a file are in no indirect block.
LEMMA DataBlock ==
    ASSUME Inv, NEW p \in Proc, job[p].pc = "copy"
    PROVE  /\ job[p].b \in Block /\ \A i \in Ino : Indirect(i) # job[p].b
           /\ \E m \in Nat : m # NDIRECT /\ <<job[p].i, m, job[p].b>> \in Places
<1> DEFINE i == job[p].i
           b == job[p].b
           n == Off(job[p]) \div BSIZE
<1>1. b # 0 /\ Addr(i, n) = b
  BY DEF Inv, OwnInv, Chunk
<1>2. /\ n \in Nat
      /\ n >= NDIRECT => n - NDIRECT \in 0..(NINDIRECT - 1)
  BY Position
<1>3. i \in Ino
  BY WriterUses DEF Writing
<1>4. NDIRECT \in Nat
  BY Consts
<1> HIDE DEF n, i, b
<1>5. \E m \in Nat : m # NDIRECT /\ <<i, m, b>> \in Places /\ b \in Block
  <2>1. CASE n < NDIRECT
    <3>1. n \in 0..NDIRECT /\ n # NDIRECT
      BY <1>2, <1>4, <2>1
    <3>2. inode[i].addrs[n] = b
      BY <1>1, <2>1 DEF Addr
    <3> QED
      BY <1>1, <1>2, <1>3, <3>1, <3>2, PlaceOfAddr
  <2>2. CASE ~(n < NDIRECT)
    <3>1. n - NDIRECT \in 0..(NINDIRECT - 1)
      BY <1>2, <1>4, <2>2
    <3>2. Indirect(i) # 0 /\ data[Indirect(i)][n - NDIRECT] = b
      BY <1>1, <2>2 DEF Addr
    <3>3. n - NDIRECT \in Entries(i)
      BY <3>1, EntriesAll DEF Filling, i
    <3>4. <<i, NDIRECT + 1 + (n - NDIRECT), b>> \in Places /\ b \in Block
      BY <1>1, <1>3, <3>2, <3>3, PlaceOfEntry
    <3>5. NDIRECT + 1 + (n - NDIRECT) \in Nat /\ NDIRECT + 1 + (n - NDIRECT) # NDIRECT
      BY <1>2, <1>4, <2>2
    <3> QED
      BY <3>4, <3>5
  <2> QED
    BY <2>1, <2>2
<1>6. ASSUME NEW k \in Ino, Indirect(k) = b PROVE FALSE
  <2>1. <<k, NDIRECT, b>> \in Places
    BY <1>1, <1>6, IndirectOwn DEF b
  <2> QED
    BY <1>5, <2>1, OnePlace
<1> QED
  BY <1>5, <1>6 DEF i, b

\* Each process has a mark of its own.
LEMMA Marks ==
    /\ Mark \in [Proc -> 1..Cardinality(Proc)]
    /\ \A p, q \in Proc : Mark[p] = Mark[q] => p = q
<1> DEFINE n == Cardinality(Proc)
           Is(m) == m \in [Proc -> 1..n] /\ \A p, q \in Proc : m[p] = m[q] => p = q
<1>1. IsFiniteSet(Proc) /\ n \in Nat
  BY FilesAssumption, FS_CardinalityType
<1>2. IsFiniteSet(1..n) /\ Cardinality(1..n) = n
  <2> HIDE DEF n
  <2>1. 1 \in Int /\ n \in Int
    BY <1>1
  <2> QED
    BY <1>1, <2>1, FS_Interval
<1>3. ExistsBijection(Proc, 1..n)
  BY <1>1, <1>2, FS_SameCardinalityBij
<1>4. \E m : Is(m)
  BY <1>3 DEF ExistsBijection, Bijection, Injection, IsInjective
<1>5. Mark = CHOOSE m \in [Proc -> 1..n] : \A p, q \in Proc : m[p] = m[q] => p = q
  BY DEF Mark
<1> QED
  BY <1>4, <1>5

\* Two writers have different inodes locked, and so write through different files.
LEMMA OtherFile ==
    ASSUME Inv, NEW p \in Proc, NEW q \in Proc, q # p, job[p].pc \in Filling, job[q].pc \in Filling
    PROVE  job[q].i # job[p].i /\ job[q].f # job[p].f
<1>1. job[q].i # job[p].i
  BY DEF Inv, LockInv, Holding
<1> QED
  BY <1>1, WriterUses DEF Writing, Filling

LEMMA WriteSizeStep == ASSUME Inv, NEW p \in Proc, WriteSize(p) PROVE Inv'
<1> DEFINE i == job[p].i
           f == job[p].f
           end == file[f].off + job[p].n1
           size == Max({inode[i].size, end})
<1>1. /\ job[p].pc = "size" /\ panicked = "no" /\ job \in [Proc -> JobRec] /\ inode \in [Ino -> InodeRec]
      /\ file \in [File -> FileRec]
      /\ inode' = [inode EXCEPT ![i].size = size]
      /\ file' = [file EXCEPT ![f].off = file[f].off + job[p].n1]
      /\ job' = [job EXCEPT ![p].pc = "unlock"]
      /\ IF end > inode[i].size THEN log_write(p, <<INODES>>) ELSE UNCHANGED <<logVars, panicked>>
      /\ bitmap' = bitmap /\ data' = data /\ ofile' = ofile /\ alive' = alive
  BY DEF Inv, Types, WriteSize, At, Go, Advance
<1>2. i \in Ino /\ f \in File /\ inode[i].used
  BY <1>1, WriterUses DEF Writing
<1>3. end \in Nat /\ end <= MAXFILE * BSIZE /\ job[p].n1 > 0 /\ job[p].n1 <= job[p].left /\ job[p].left > 0
  <2>1. end <= MAXFILE * BSIZE /\ job[p].n1 > 0 /\ job[p].n1 <= job[p].left /\ job[p].left > 0
    BY <1>1 DEF Inv, OwnInv, Chunk, Writing, Filling
  <2>2. job[p].n1 \in Nat /\ file[f].off \in Nat
    BY <1>1, <1>2 DEF JobRec, FileRec
  <2> QED
    BY <2>1, <2>2
<1>4. size \in 0..(MAXFILE * BSIZE)
  <2>1. inode[i].size \in 0..(MAXFILE * BSIZE)
    BY <1>1, <1>2 DEF InodeRec
  <2> HIDE DEF end
  <2>2. size = IF inode[i].size >= end THEN inode[i].size ELSE end
    BY <1>3, <2>1, Consts, MaxTwo
  <2> QED
    BY <1>3, <2>1, <2>2, Consts
<1> HIDE DEF size
<1>5. /\ job'[p].pc = "unlock" /\ job'[p].i = i /\ job'[p].f = f /\ job'[p].left = job[p].left /\ job'[p].n1 = job[p].n1
      /\ Only(p) /\ job' \in [Proc -> JobRec]
  <2>1. "unlock" \in Pcs
    BY DEF Pcs, Writing
  <2> QED
    BY <1>1, <2>1 DEF Only, JobRec
<1>6. /\ inode' \in [Ino -> InodeRec]
      /\ \A k \in Ino : /\ inode'[k].used = inode[k].used /\ inode'[k].busy = inode[k].busy
                        /\ inode'[k].addrs = inode[k].addrs /\ inode'[k].nlink = inode[k].nlink
                        /\ k # i => inode'[k] = inode[k]
  BY <1>1, <1>2, <1>4 DEF InodeRec
<1>7. /\ file' \in [File -> FileRec]
      /\ \A g \in File : /\ file'[g].ip = file[g].ip /\ file'[g].ref = file[g].ref
                         /\ g # f => file'[g].off = file[g].off
  <2>1. file[f].off + job[p].n1 \in Nat
    BY <1>3
  <2> QED
    BY <1>1, <1>2, <2>1 DEF FileRec
<1>8. Types'
  BY <1>1, <1>5, <1>6, <1>7 DEF Inv, Types
<1>9. p \in Out /\ Out' = Out /\ <<INODES>> \in Seq(Int)
  BY <1>1, <1>5 DEF Out, Only, INODES
<1>10. LogInv' /\ PanicInv'
  <2>1. CASE end > inode[i].size
    <3>1. log_write(p, <<INODES>>)
      BY <1>1, <2>1
    <3>2. LogInv'
      BY <1>9, <3>1, LogWrites DEF Inv
    <3> QED
      BY <1>1, <1>8, <1>9, <3>1, <3>2, LogRefuses DEF Inv, Types
  <2>2. CASE ~(end > inode[i].size)
    <3>1. UNCHANGED <<logVars, panicked>>
      BY <1>1, <2>2
    <3>2. LogInv'
      BY <1>9, <3>1, LogQuiet DEF Inv
    <3> QED
      BY <1>1, <3>1, <3>2, PanicSame
  <2> QED
    BY <2>1, <2>2
<1>11. TableInv'
  <2>1. RefsExact'
    <3>1. \A g \in File : file[g].ref > 0 => file[g].ip \in Ino /\ inode[file[g].ip].used
      BY DEF Inv, TableInv, RefsExact
    <3>2. \A g \in File : file'[g].ref > 0 => inode'[file'[g].ip].used
      BY <1>6, <1>7, <3>1
    <3>3. \A g \in File : file'[g].ref = Cardinality({x \in Proc \X Fd : ofile'[x[1]][x[2]] = g})
      BY <1>1, <1>7 DEF Inv, TableInv, RefsExact
    <3> QED
      BY <3>2, <3>3 DEF RefsExact
  <2>2. job[p].pc \in Writing
    BY <1>1 DEF Writing
  <2> QED
    BY <1>1, <1>5, <1>7, <2>1, <2>2 DEF Inv, TableInv, Only
<1>12. LockInv'
  <2>1. LocksKept
    BY <1>2, <1>6 DEF LocksKept
  <2>2. LessUsed
    BY <1>7 DEF LessUsed, Using
  <2> QED
    BY <1>1, <1>5, <2>1, <2>2, LockSame DEF Inv, Holding, Filling, Truncating, Putting
<1>13. OwnInv'
  <2>1. \A q \in Proc : q # p /\ job[q].pc \in Filling => file'[job[q].f].off = file[job[q].f].off
    BY <1>1, <1>7, OtherFile, WriterUses DEF Filling, Writing
  <2>2. Chunk(p)'
    BY <1>3, <1>5 DEF Chunk
  <2> QED
    BY <1>1, <1>5, <1>6, <2>1, <2>2, OwnSame, Inside DEF Inv
<1> QED
  BY <1>8, <1>10, <1>11, <1>12, <1>13 DEF Inv

LEMMA WriteCopyStep == ASSUME Inv, NEW p \in Proc, WriteCopy(p) PROVE Inv'
<1> DEFINE i == job[p].i
           b == job[p].b
           from == Off(job[p]) % BSIZE
           m == Min({job[p].n1 - job[p].tot, BSIZE - from})
           done == job[p].tot + m = job[p].n1
<1>1. /\ job[p].pc = "copy" /\ panicked = "no" /\ job \in [Proc -> JobRec] /\ data \in [Block -> [0..(BSIZE - 1) -> Nat]]
      /\ data' = [data EXCEPT ![b] = [k \in DOMAIN data[b] |-> IF k \in from..(from + m - 1) THEN Mark[p] ELSE data[b][k]]]
      /\ job' = [job EXCEPT ![p].pc = IF done THEN "size" ELSE "map", ![p].tot = job[p].tot + m, ![p].b = 0]
      /\ log_write(p, <<b>>)
      /\ bitmap' = bitmap /\ inode' = inode /\ file' = file /\ ofile' = ofile /\ alive' = alive /\ UNCHANGED tableVars
  BY DEF Inv, Types, WriteCopy, At, tableVars
<1>2. i \in Ino /\ b \in Block /\ \A k \in Ino : Indirect(k) # b
  BY <1>1, WriterUses, DataBlock DEF Writing
<1>3. /\ job[p].tot \in Nat /\ job[p].n1 \in Nat /\ job[p].left \in Nat /\ job[p].tot < job[p].n1
      /\ job[p].left > 0 /\ job[p].n1 > 0 /\ job[p].n1 <= job[p].left
      /\ file[job[p].f].off + job[p].n1 <= MAXFILE * BSIZE
  BY <1>1 DEF Inv, OwnInv, Chunk, JobRec, Filling, Writing
<1>4. m \in Nat /\ m > 0 /\ job[p].tot + m <= job[p].n1
  <2>1. from \in 0..(BSIZE - 1)
    BY <1>1, Position
  <2> HIDE DEF from
  <2>2. job[p].n1 - job[p].tot \in Nat /\ BSIZE - from \in Nat /\ job[p].n1 - job[p].tot > 0 /\ BSIZE - from > 0
    BY <1>3, <2>1, Consts
  <2>3. m \in {job[p].n1 - job[p].tot, BSIZE - from} /\ m <= job[p].n1 - job[p].tot
    BY <2>2, MinTwo
  <2> HIDE DEF m
  <2> QED
    BY <1>3, <2>2, <2>3
<1> HIDE DEF m
<1>5. Mark[p] \in Nat
  <2>1. Mark \in [Proc -> 1..Cardinality(Proc)]
    BY Marks
  <2> QED
    BY <2>1
<1>6. data' \in [Block -> [0..(BSIZE - 1) -> Nat]] /\ \A c \in Block : c # b => data'[c] = data[c]
  BY <1>1, <1>2, <1>5
<1>7. /\ Only(p) /\ job' \in [Proc -> JobRec] /\ job'[p].i = i /\ job'[p].f = job[p].f
      /\ job'[p].left = job[p].left /\ job'[p].n1 = job[p].n1 /\ job'[p].tot = job[p].tot + m
      /\ \/ job'[p].pc = "size" /\ job'[p].tot = job'[p].n1
         \/ job'[p].pc = "map" /\ job'[p].tot < job'[p].n1
  <2>1. job[p].tot + m \in Nat /\ {"size", "map"} \subseteq Pcs
    BY <1>3, <1>4 DEF Pcs, Writing
  <2>2. Only(p) /\ job' \in [Proc -> JobRec]
    <3> DEFINE c == IF done THEN "size" ELSE "map"
    <3>1. c \in Pcs /\ job' = [job EXCEPT ![p].pc = c, ![p].tot = job[p].tot + m, ![p].b = 0]
      BY <1>1, <2>1
    <3> DEFINE t == job[p].tot + m
    <3>2. t \in Nat /\ job' = [job EXCEPT ![p].pc = c, ![p].tot = t, ![p].b = 0] /\ job \in [Proc -> JobRec]
      BY <1>1, <2>1, <3>1
    <3> HIDE DEF c, done, t
    <3>3. job' \in [Proc -> JobRec]
      <4>1. job[p] \in JobRec
        BY <3>2
      <4>2. [job[p] EXCEPT !.pc = c, !.tot = t, !.b = 0] \in JobRec
        BY <3>1, <3>2, <4>1 DEF JobRec
      <4>3. job' = [job EXCEPT ![p] = [job[p] EXCEPT !.pc = c, !.tot = t, !.b = 0]]
        BY <3>2
      <4> QED
        BY <3>2, <4>2, <4>3
    <3> QED
      BY <3>2, <3>3 DEF Only
  <2>3. /\ job'[p].i = i /\ job'[p].f = job[p].f /\ job'[p].left = job[p].left /\ job'[p].n1 = job[p].n1
        /\ job'[p].tot = job[p].tot + m /\ job'[p].pc = IF done THEN "size" ELSE "map"
    BY <1>1 DEF JobRec
  <2> QED
    BY <1>3, <1>4, <2>2, <2>3
<1>8. Types'
  BY <1>1, <1>6, <1>7 DEF Inv, Types
<1>9. p \in Out /\ Out' = Out /\ <<b>> \in Seq(Int)
  <2>1. b \in Int
    BY <1>2 DEF Block
  <2>2. job[p].pc = "copy" /\ Only(p) /\ job'[p].pc \in {"size", "map"}
    BY <1>1, <1>7
  <2> HIDE DEF b
  <2> QED
    BY <2>1, <2>2 DEF Out, Only
<1>10. LogInv'
  BY <1>1, <1>9, LogWrites DEF Inv
<1>11. PanicInv'
  BY <1>1, <1>8, <1>9, <1>10, LogRefuses DEF Inv, Types
<1>12. TableInv'
  <2>1. job[p].pc # "user" /\ job[p].pc \in Writing
    BY <1>1 DEF Writing
  <2>2. \A f \in File : file[f].ref > 0 => inode'[file[f].ip].used
    BY <1>1 DEF Inv, TableInv, RefsExact
  <2> QED
    BY <1>1, <1>7, <2>1, <2>2, TableSame DEF Inv
<1>13. LockInv'
  <2>1. LocksKept /\ LessUsed
    BY <1>1 DEF LocksKept, LessUsed, Using
  <2> QED
    BY <1>1, <1>7, <2>1, LockSame DEF Inv, Holding, Filling, Truncating, Putting
<1>14. OwnInv'
  <2>1. \A k \in Ino : Indirect(k) # 0 => data'[Indirect(k)] = data[Indirect(k)]
    BY <1>2, <1>6, IndirectOwn
  <2>2. \A k : Entries(k)' = Entries(k)
    BY <1>1, <1>7, EntriesSame DEF Only
  <2>3. Places' = Places
    BY <1>1, <1>7, <2>1, <2>2, PlacesSame DEF Only
  <2>4. ASSUME NEW q \in Proc PROVE Chunk(q)'
    <3>1. CASE q = p
      BY <1>1, <1>3, <1>7, <3>1 DEF Chunk
    <3>2. CASE q # p
      <4>1. Chunk(q) /\ job'[q] = job[q]
        BY <1>7, <3>2 DEF Inv, OwnInv, Only
      <4>2. job[q].pc \in Filling => job[q].i \in Ino
        BY Inside DEF Holding
      <4> QED
        BY <1>1, <2>1, <4>1, <4>2, ChunkOther
    <3> QED
      BY <3>1, <3>2
  <2> QED
    BY <1>1, <2>3, <2>4 DEF Inv, OwnInv
<1> QED
  BY <1>8, <1>10, <1>11, <1>12, <1>13, <1>14 DEF Inv

\* bmap() takes the first free block, if it has to.
LEMMA WriteMapStep == ASSUME Inv, NEW p \in Proc, WriteMap(p) PROVE Inv'
<1> DEFINE i == job[p].i
           n == Off(job[p]) \div BSIZE
           free == Block \ bitmap
           b == Min(free)
<1>1. /\ job[p].pc = "map" /\ panicked = "no" /\ job \in [Proc -> JobRec] /\ bitmap \subseteq Block
      /\ \/ /\ Addr(i, n) # 0 /\ job' = [job EXCEPT ![p].pc = "copy", ![p].b = Addr(i, n)]
            /\ UNCHANGED logVars /\ bitmap' = bitmap /\ panicked' = panicked
         \/ free = {} /\ panicked' = "blocks" /\ bitmap' = bitmap /\ job' = job /\ UNCHANGED logVars
         \/ /\ Addr(i, n) = 0 /\ free # {} /\ bitmap' = bitmap \cup {b} /\ log_write(p, <<BITMAP>>)
            /\ job' = [job EXCEPT ![p].pc = "zero", ![p].b = b, ![p].slot = Slot(i, n)]
      /\ data' = data /\ inode' = inode /\ file' = file /\ ofile' = ofile /\ alive' = alive /\ UNCHANGED tableVars
  BY DEF Inv, Types, WriteMap, At, balloc, tableVars
<1>2. i \in Ino /\ job[p].f \in File /\ n \in Nat
  BY <1>1, WriterUses, Position DEF Writing
<1>3. Addr(i, n) \in Nat
  <2>1. Addr(i, n) = 0 \/ n < NDIRECT \/ (Indirect(i) # 0 /\ n >= NDIRECT /\ Addr(i, n) = data[Indirect(i)][n - NDIRECT])
    BY <1>2, Consts DEF Addr
  <2>2. CASE n < NDIRECT
    <3>1. n \in 0..NDIRECT /\ inode[i] \in InodeRec /\ Addr(i, n) = inode[i].addrs[n]
      BY <1>1, <1>2, <2>2, Position DEF Addr, Inv, Types
    <3> HIDE DEF n, i
    <3> QED
      BY <3>1 DEF InodeRec
  <2>3. CASE Indirect(i) # 0 /\ n >= NDIRECT /\ Addr(i, n) = data[Indirect(i)][n - NDIRECT]
    <3>1. n - NDIRECT \in 0..(BSIZE - 1) /\ Indirect(i) \in Block
      BY <1>1, <1>2, <2>3, Position, IndirectOwn
    <3> DEFINE c == Indirect(i)
               k == n - NDIRECT
    <3>2. k \in 0..(BSIZE - 1) /\ c \in Block /\ Addr(i, n) = data[c][k]
      BY <2>3, <3>1
    <3> HIDE DEF c, k
    <3>3. data \in [Block -> [0..(BSIZE - 1) -> Nat]]
      BY DEF Inv, Types
    <3>4. data[c][k] \in Nat
      BY <3>2, <3>3
    <3> QED
      BY <3>2, <3>4
  <2> QED
    BY <2>1, <2>2, <2>3
<1>4. /\ job[p].tot < job[p].n1 /\ job[p].left > 0 /\ job[p].n1 > 0 /\ job[p].n1 <= job[p].left
      /\ file[job[p].f].off + job[p].n1 <= MAXFILE * BSIZE
  BY <1>1 DEF Inv, OwnInv, Chunk, JobRec, Filling, Writing
<1>5. TableInv /\ LockInv /\ LocksKept /\ LessUsed /\ \A f \in File : file[f].ref > 0 => inode'[file[f].ip].used
  BY <1>1 DEF Inv, TableInv, RefsExact, LocksKept, LessUsed, Using
<1>6. ASSUME Only(p), job' \in [Proc -> JobRec], job'[p].pc \in {"copy", "zero"}, job'[p].i = i, job'[p].f = job[p].f
      PROVE  TableInv' /\ LockInv' /\ Out' = Out
  <2>1. job[p].pc # "user" /\ job[p].pc \in Writing
    BY <1>1 DEF Writing
  <2>2. TableInv'
    BY <1>1, <1>5, <1>6, <2>1, TableSame
  <2>3. LockInv'
    BY <1>1, <1>5, <1>6, LockSame DEF Holding, Filling, Truncating, Putting
  <2> QED
    BY <1>1, <1>6, <2>2, <2>3 DEF Out, Only
<1>7. CASE Addr(i, n) # 0 /\ bitmap' = bitmap /\ UNCHANGED logVars /\ panicked' = panicked
           /\ job' = [job EXCEPT ![p].pc = "copy", ![p].b = Addr(i, n)]
  <2> DEFINE a == Addr(i, n)
  <2>1. /\ Only(p) /\ job' \in [Proc -> JobRec] /\ job'[p].pc = "copy" /\ job'[p].i = i /\ job'[p].f = job[p].f
        /\ job'[p].left = job[p].left /\ job'[p].n1 = job[p].n1 /\ job'[p].tot = job[p].tot /\ job'[p].b = a
    <3>1. "copy" \in Pcs /\ a \in Nat /\ job' = [job EXCEPT ![p].pc = "copy", ![p].b = a]
      BY <1>3, <1>7 DEF Pcs, Writing
    <3> HIDE DEF a
    <3> QED
      BY <1>1, <3>1 DEF Only, JobRec
  <2>2. Types'
    BY <1>1, <1>7, <2>1 DEF Inv, Types
  <2>3. TableInv' /\ LockInv' /\ Out' = Out
    BY <1>6, <2>1
  <2>4. LogInv'
    BY <1>7, <2>3, LogQuiet DEF Inv
  <2>5. PanicInv'
    BY <1>1, <1>7, <2>4, PanicSame
  <2>6. Chunk(p)'
    <3>1. Off(job[p])' = Off(job[p])
      BY <1>1, <2>1 DEF Off
    <3>2. PICK k, m : k = i /\ m = n
      OBVIOUS
    <3>3. Addr(k, m)' = Addr(k, m)
      BY <1>1 DEF Addr, Indirect
    <3> QED
      BY <1>1, <1>4, <1>7, <2>1, <3>1, <3>2, <3>3 DEF Chunk
  <2>7. OwnInv'
    BY <1>1, <1>7, <2>1, <2>6, OwnSame, Inside DEF Inv
  <2> QED
    BY <2>2, <2>3, <2>4, <2>5, <2>7 DEF Inv
<1>8. CASE free = {} /\ panicked' = "blocks" /\ bitmap' = bitmap /\ job' = job /\ UNCHANGED logVars
  <2>1. Only(p) /\ Out' = Out
    BY <1>8 DEF Only, Out
  <2>2. Types'
    BY <1>1, <1>8 DEF Inv, Types
  <2>3. LogInv'
    BY <1>8, <2>1, LogQuiet DEF Inv
  <2>4. TableInv'
    BY <1>1, <1>8 DEF Inv, TableInv, RefsExact
  <2>5. LockInv'
    BY <1>5, <1>8, <2>1, LockSame
  <2>6. Chunk(p)'
    BY <1>1, <1>8, ChunkOther DEF Inv, OwnInv
  <2>7. OwnInv'
    BY <1>1, <1>8, <2>1, <2>6, OwnSame, Inside DEF Inv
  <2>8. PanicInv'
    <3>1. bitmap' = Block
      BY <1>1, <1>8
    <3>2. ~over' => Cardinality(logged') <= LOGSIZE
      BY <2>3, LogBoundNext
    <3> QED
      BY <1>8, <3>1, <3>2 DEF PanicInv, PanicsExplained
  <2> QED
    BY <2>2, <2>3, <2>4, <2>5, <2>7, <2>8 DEF Inv
<1>9. CASE Addr(i, n) = 0 /\ free # {} /\ bitmap' = bitmap \cup {b} /\ log_write(p, <<BITMAP>>)
           /\ job' = [job EXCEPT ![p].pc = "zero", ![p].b = b, ![p].slot = Slot(i, n)]
  <2> DEFINE s == Slot(i, n)
  <2>1. b \in Block /\ b \notin bitmap /\ b \in Nat
    <3>1. free \in SUBSET Nat
      BY Consts
    <3> HIDE DEF free
    <3>2. b \in free
      BY <1>9, <3>1, MinIn
    <3> HIDE DEF b
    <3> QED
      BY <3>2, Consts DEF free
  <2> HIDE DEF b
  <2>2. /\ Only(p) /\ job' \in [Proc -> JobRec] /\ job'[p].pc = "zero" /\ job'[p].i = i /\ job'[p].f = job[p].f
        /\ job'[p].left = job[p].left /\ job'[p].n1 = job[p].n1 /\ job'[p].tot = job[p].tot /\ job'[p].b = b
        /\ job'[p].slot = s
    <3>1. "zero" \in Pcs /\ s \in {"none", "block", "indirect"} /\ job' = [job EXCEPT ![p].pc = "zero", ![p].b = b, ![p].slot = s]
      BY <1>9 DEF Pcs, Writing, Slot
    <3> HIDE DEF s
    <3> QED
      BY <1>1, <2>1, <3>1 DEF Only, JobRec
  <2>3. Types'
    BY <1>1, <1>9, <2>1, <2>2 DEF Inv, Types
  <2>4. TableInv' /\ LockInv' /\ Out' = Out
    BY <1>6, <2>2
  <2>5. p \in Out /\ <<BITMAP>> \in Seq(Int)
    BY <1>1 DEF Out, BITMAP
  <2>6. LogInv'
    BY <1>9, <2>4, <2>5, LogWrites DEF Inv
  <2>7. PanicInv'
    BY <1>1, <1>9, <2>3, <2>5, <2>6, LogRefuses DEF Inv, Types
  <2>8. Chunk(p)'
    <3>1. Off(job[p])' = Off(job[p])
      BY <1>1, <2>2 DEF Off
    <3>2. PICK k, m : k = i /\ m = n
      OBVIOUS
    <3>3. Addr(k, m)' = Addr(k, m) /\ Slot(k, m)' = Slot(k, m)
      BY <1>1 DEF Addr, Slot, Indirect
    <3> QED
      BY <1>1, <1>4, <1>9, <2>2, <3>1, <3>2, <3>3 DEF Chunk
  <2>9. Places' = Places \cup {<<p, -1, b>>}
    <3>1. \A k : Entries(k)' = Entries(k)
      BY <1>1, <2>2, EntriesSame DEF Only
    <3>2. \A x : PlaceD(x)' <=> PlaceD(x)
      BY <1>1 DEF PlaceD
    <3>3. \A x : PlaceE(x)' <=> PlaceE(x)
      BY <1>1, <3>1 DEF PlaceE, Indirect
    <3>4. \A x : PlaceZ(x)' <=> PlaceZ(x) \/ x = <<p, -1, b>>
      BY <1>1, <2>2 DEF PlaceZ, Only
    <3>5. \A x : x \in Places' <=> x \in Places \/ x = <<p, -1, b>>
      BY <3>2, <3>3, <3>4, PlacesAre, PlacesNext
    <3> QED
      BY <3>5
  <2>10. OwnInv'
    <3>1. <<p, -1, b>>[3] \notin bitmap /\ <<p, -1, b>>[3] = b
      BY <2>1
    <3>2. Owned(Places \cup {<<p, -1, b>>}, bitmap \cup {b})
      BY <3>1, OwnedAdds DEF Inv, OwnInv
    <3>3. ASSUME NEW q \in Proc, q # p PROVE Chunk(q)'
      <4>1. Chunk(q) /\ job'[q] = job[q]
        BY <2>2, <3>3 DEF Inv, OwnInv, Only
      <4> QED
        BY <1>1, <4>1, ChunkOther
    <3> QED
      BY <1>9, <2>8, <2>9, <3>2, <3>3 DEF OwnInv
  <2> QED
    BY <2>3, <2>4, <2>6, <2>7, <2>10 DEF Inv
<1> QED
  BY <1>1, <1>7, <1>8, <1>9

\* The block a process has taken is entered among the addresses of an inode.
LEMMA EnterAddr ==
    ASSUME Inv, NEW p \in Proc, job[p].pc = "zero", NEW i \in Ino, NEW d \in 0..NDIRECT, inode[i].addrs[d] = 0,
           NEW b, b = job[p].b, data'[b] = NoBytes, \A a \in Block : a # b => data'[a] = data[a],
           \A n \in 0..NDIRECT : inode'[i].addrs[n] = IF n = d THEN b ELSE inode[i].addrs[n],
           \A k \in Ino : k # i => inode'[k].addrs = inode[k].addrs,
           \A k : Entries(k)' = Entries(k), Only(p), job'[p].pc = "map"
    PROVE  Places' = (Places \ {<<p, -1, b>>}) \cup {<<i, d, b>>}
<1>1. b \in Block /\ b # 0
  BY PlaceOfNew, Consts
<1>2. \A n \in 0..NDIRECT : inode'[i].addrs[n] = IF n = d THEN b ELSE inode[i].addrs[n]
  OBVIOUS
<1>3. \A x : PlaceD(x)' <=> PlaceD(x) \/ x = <<i, d, b>>
  <2>1. ASSUME NEW x, PlaceD(x)' PROVE PlaceD(x) \/ x = <<i, d, b>>
    <3>1. PICK k \in Ino, n \in 0..NDIRECT : x = <<k, n, inode'[k].addrs[n]>> /\ inode'[k].addrs[n] # 0
      BY <2>1 DEF PlaceD
    <3>2. CASE k = i /\ n = d
      BY <1>2, <3>1, <3>2
    <3>3. CASE ~(k = i /\ n = d)
      <4>1. inode'[k].addrs[n] = inode[k].addrs[n]
        BY <1>2, <3>3
      <4> QED
        BY <3>1, <4>1 DEF PlaceD
    <3> QED
      BY <3>2, <3>3
  <2>2. ASSUME NEW x, PlaceD(x) PROVE PlaceD(x)'
    <3>1. PICK k \in Ino, n \in 0..NDIRECT : x = <<k, n, inode[k].addrs[n]>> /\ inode[k].addrs[n] # 0
      BY <2>2 DEF PlaceD
    <3>2. inode'[k].addrs[n] = inode[k].addrs[n]
      BY <1>2, <3>1
    <3> QED
      BY <3>1, <3>2 DEF PlaceD
  <2>3. ASSUME NEW x, x = <<i, d, b>> PROVE PlaceD(x)'
    <3>1. inode'[i].addrs[d] = b
      BY <1>2
    <3> QED
      BY <1>1, <2>3, <3>1 DEF PlaceD
  <2> QED
    BY <2>1, <2>2, <2>3
<1>4. \A k \in Ino : Indirect(k) # 0 => Indirect(k) # b /\ Indirect(k)' = Indirect(k) /\ data'[Indirect(k)] = data[Indirect(k)]
  <2> SUFFICES ASSUME NEW k \in Ino, Indirect(k) # 0
               PROVE  Indirect(k) # b /\ Indirect(k)' = Indirect(k) /\ data'[Indirect(k)] = data[Indirect(k)]
    OBVIOUS
  <2>1. Indirect(k) # b /\ Indirect(k) \in Block
    BY IndirectOwn
  <2>2. Indirect(k)' = Indirect(k)
    <3>1. NDIRECT \in 0..NDIRECT
      BY Consts
    <3> QED
      BY <1>2, <3>1 DEF Indirect
  <2> QED
    BY <1>1, <2>1, <2>2
<1>5. \A k \in Ino : Indirect(k) = 0 => Indirect(k)' = 0 \/ (Indirect(k)' = b /\ data'[b] = NoBytes)
  <2> SUFFICES ASSUME NEW k \in Ino, Indirect(k) = 0
               PROVE  Indirect(k)' = 0 \/ (Indirect(k)' = b /\ data'[b] = NoBytes)
    OBVIOUS
  <2>1. NDIRECT \in 0..NDIRECT
    BY Consts
  <2>2. Indirect(k)' = 0 \/ Indirect(k)' = b
    BY <1>2, <2>1 DEF Indirect
  <2>3. data'[b] = NoBytes
    BY <1>1
  <2> QED
    BY <2>2, <2>3
<1>6. \A x : PlaceE(x)' <=> PlaceE(x)
  <2>1. ASSUME NEW x, PlaceE(x) PROVE PlaceE(x)'
    BY <1>4, <2>1 DEF PlaceE
  <2>2. ASSUME NEW x, PlaceE(x)' PROVE PlaceE(x)
    <3>1. PICK k \in Ino : /\ Indirect(k)' # 0
                           /\ \E n \in Entries(k)' : /\ x = <<k, NDIRECT + 1 + n, data'[Indirect(k)'][n]>>
                                                     /\ data'[Indirect(k)'][n] # 0
      BY <2>2 DEF PlaceE
    <3>2. CASE Indirect(k) # 0
      BY <1>4, <3>1, <3>2 DEF PlaceE
    <3>3. CASE Indirect(k) = 0
      <4>1. Indirect(k)' = b /\ data'[b] = NoBytes
        BY <1>5, <3>1, <3>3
      <4>2. \A n \in Entries(k)' : data'[Indirect(k)'][n] = 0
        <5>1. \A n \in 0..(NINDIRECT - 1) : n \in 0..(BSIZE - 1)
          BY Consts
        <5>2. Entries(k) \subseteq 0..(NINDIRECT - 1)
          BY DEF Entries
        <5>3. \A n \in 0..(BSIZE - 1) : NoBytes[n] = 0
          BY DEF NoBytes
        <5>4. data'[Indirect(k)'] = NoBytes /\ Entries(k)' = Entries(k)
          BY <4>1
        <5> QED
          BY <5>1, <5>2, <5>3, <5>4
      <4> QED
        BY <3>1, <4>2
    <3> QED
      BY <3>2, <3>3
  <2> QED
    BY <2>1, <2>2
<1>7. \A x : PlaceZ(x)' <=> PlaceZ(x) /\ x # <<p, -1, b>>
  BY DEF PlaceZ, Only
<1>8. /\ ~PlaceD(<<p, -1, b>>) /\ ~PlaceE(<<p, -1, b>>)
  BY Consts DEF PlaceD, PlaceE, Entries
<1>9. \A x : x \in Places' <=> (x \in Places /\ x # <<p, -1, b>>) \/ x = <<i, d, b>>
  BY <1>3, <1>6, <1>7, <1>8, PlacesAre, PlacesNext
<1> QED
  BY <1>9

\* The same, among the addresses in the indirect block of the inode.
LEMMA EnterEntry ==
    ASSUME Inv, NEW p \in Proc, job[p].pc = "zero", NEW i \in Ino, NEW c, c = Indirect(i), c # 0,
           NEW k0 \in Entries(i), data[c][k0] = 0,
           NEW b, b = job[p].b, data'[c][k0] = b, \A n \in 0..(BSIZE - 1) : n # k0 => data'[c][n] = data[c][n],
           \A d \in Block : d # b /\ d # c => data'[d] = data[d],
           inode' = inode, \A k : Entries(k)' = Entries(k), Only(p), job'[p].pc = "map"
    PROVE  Places' = (Places \ {<<p, -1, b>>}) \cup {<<i, NDIRECT + 1 + k0, b>>}
<1>1. b \in Block /\ b # 0 /\ c \in Block /\ c # b
  <2>1. b \in Block
    BY PlaceOfNew
  <2>2. c \in Block /\ c # b
    BY IndirectOwn
  <2> QED
    BY <2>1, <2>2, Consts
<1>2. k0 \in 0..(BSIZE - 1)
  BY Consts DEF Entries
<1>3. /\ data'[c][k0] = b /\ \A n \in 0..(BSIZE - 1) : n # k0 => data'[c][n] = data[c][n]
      /\ \A d \in Block : d # b /\ d # c => data'[d] = data[d]
  OBVIOUS
<1>4. \A k \in Ino : Indirect(k)' = Indirect(k)
  BY DEF Indirect
<1>5. \A k \in Ino : Indirect(k) # 0 /\ k # i => data'[Indirect(k)] = data[Indirect(k)]
  BY <1>1, <1>3, IndirectOwn
<1>6. \A k \in Ino : Entries(k) \subseteq 0..(BSIZE - 1)
  BY Consts DEF Entries
<1>7. \A x : PlaceE(x)' <=> PlaceE(x) \/ x = <<i, NDIRECT + 1 + k0, b>>
  <2>1. ASSUME NEW x, PlaceE(x)' PROVE PlaceE(x) \/ x = <<i, NDIRECT + 1 + k0, b>>
    <3>1. PICK k \in Ino : /\ Indirect(k) # 0
                           /\ \E n \in Entries(k) : /\ x = <<k, NDIRECT + 1 + n, data'[Indirect(k)][n]>>
                                                    /\ data'[Indirect(k)][n] # 0
      BY <1>4, <2>1 DEF PlaceE
    <3>2. PICK n \in Entries(k) : x = <<k, NDIRECT + 1 + n, data'[Indirect(k)][n]>> /\ data'[Indirect(k)][n] # 0
      BY <3>1
    <3>3. CASE k = i /\ n = k0
      BY <1>3, <3>2, <3>3
    <3>4. CASE ~(k = i /\ n = k0)
      <4>1. data'[Indirect(k)][n] = data[Indirect(k)][n]
        BY <1>3, <1>5, <1>6, <3>1, <3>4
      <4> QED
        BY <3>1, <3>2, <4>1 DEF PlaceE
    <3> QED
      BY <3>3, <3>4
  <2>2. ASSUME NEW x, PlaceE(x) PROVE PlaceE(x)'
    <3>1. PICK k \in Ino : /\ Indirect(k) # 0
                           /\ \E n \in Entries(k) : /\ x = <<k, NDIRECT + 1 + n, data[Indirect(k)][n]>>
                                                    /\ data[Indirect(k)][n] # 0
      BY <2>2 DEF PlaceE
    <3>2. PICK n \in Entries(k) : x = <<k, NDIRECT + 1 + n, data[Indirect(k)][n]>> /\ data[Indirect(k)][n] # 0
      BY <3>1
    <3>3. data'[Indirect(k)][n] = data[Indirect(k)][n]
      BY <1>3, <1>5, <1>6, <3>1, <3>2
    <3> QED
      BY <1>4, <3>1, <3>2, <3>3 DEF PlaceE
  <2>3. ASSUME NEW x, x = <<i, NDIRECT + 1 + k0, b>> PROVE PlaceE(x)'
    <3>1. Indirect(i)' = c /\ k0 \in Entries(i)' /\ data'[c][k0] = b /\ b # 0 /\ c # 0
      BY <1>1, <1>3, <1>4
    <3> QED
      BY <2>3, <3>1 DEF PlaceE
  <2> QED
    BY <2>1, <2>2, <2>3
<1>8. \A x : PlaceD(x)' <=> PlaceD(x)
  BY DEF PlaceD
<1>9. \A x : PlaceZ(x)' <=> PlaceZ(x) /\ x # <<p, -1, b>>
  BY DEF PlaceZ, Only
<1>10. /\ ~PlaceD(<<p, -1, b>>) /\ ~PlaceE(<<p, -1, b>>)
  BY Consts DEF PlaceD, PlaceE, Entries
<1>11. \A x : x \in Places' <=> (x \in Places /\ x # <<p, -1, b>>) \/ x = <<i, NDIRECT + 1 + k0, b>>
  BY <1>7, <1>8, <1>9, <1>10, PlacesAre, PlacesNext
<1> QED
  BY <1>11

\* The end of bmap(): the block is zeroed and its address stored.
LEMMA WriteZeroStep == ASSUME Inv, NEW p \in Proc, WriteZero(p) PROVE Inv'
<1> DEFINE i == job[p].i
           b == job[p].b
           o == Off(job[p])
           n == o \div BSIZE
           s == job[p].slot
           c == Indirect(i)
           bs == <<b>> \o (IF s = "block" /\ n >= NDIRECT THEN <<c>> ELSE <<>>)
<1>1. /\ job[p].pc = "zero" /\ panicked = "no" /\ job \in [Proc -> JobRec] /\ inode \in [Ino -> InodeRec]
      /\ data \in [Block -> [0..(BSIZE - 1) -> Nat]] /\ Addr(i, n) = 0 /\ s = Slot(i, n)
      /\ Enter(i, n, s, b, NoBytes) /\ log_write(p, bs)
      /\ job' = [job EXCEPT ![p].pc = "map", ![p].b = 0]
      /\ bitmap' = bitmap /\ file' = file /\ ofile' = ofile /\ alive' = alive /\ UNCHANGED tableVars
  BY DEF Inv, Types, WriteZero, At, bzero, tableVars, OwnInv, Chunk
<1>2. /\ i \in Ino /\ job[p].f \in File /\ n \in Nat /\ b \in Block /\ b # 0 /\ b \in Nat
      /\ n >= NDIRECT => n - NDIRECT \in 0..(NINDIRECT - 1) /\ n - NDIRECT \in 0..(BSIZE - 1)
      /\ n < NDIRECT => n \in 0..NDIRECT
  <2>1. i \in Ino /\ job[p].f \in File
    BY <1>1, WriterUses DEF Writing
  <2>2. b \in Block
    BY <1>1, PlaceOfNew
  <2> QED
    BY <1>1, <2>1, <2>2, Position, Consts
<1>3. /\ job[p].tot < job[p].n1 /\ job[p].left > 0 /\ job[p].n1 > 0 /\ job[p].n1 <= job[p].left
      /\ file[job[p].f].off + job[p].n1 <= MAXFILE * BSIZE
  BY <1>1 DEF Inv, OwnInv, Chunk, JobRec, Filling, Writing
<1>4. NDIRECT \in Nat /\ NDIRECT \in 0..NDIRECT /\ NoBytes \in [0..(BSIZE - 1) -> Nat]
  BY Consts DEF NoBytes
<1> HIDE DEF n, o
<1>5. \/ /\ s = "indirect" /\ n >= NDIRECT /\ c = 0
      \/ /\ s = "block" /\ n < NDIRECT /\ inode[i].addrs[n] = 0
      \/ /\ s = "block" /\ n >= NDIRECT /\ c # 0 /\ data[c][n - NDIRECT] = 0
  BY <1>1, <1>2, <1>4 DEF Slot, Addr
<1>6. /\ Only(p) /\ job' \in [Proc -> JobRec] /\ job'[p].pc = "map" /\ job'[p].i = i /\ job'[p].f = job[p].f
      /\ job'[p].left = job[p].left /\ job'[p].n1 = job[p].n1 /\ job'[p].tot = job[p].tot
  <2>1. "map" \in Pcs /\ 0 \in Nat /\ job[p] \in JobRec
    BY <1>1 DEF Pcs, Writing
  <2>2. [job[p] EXCEPT !.pc = "map", !.b = 0] \in JobRec
    BY <2>1 DEF JobRec
  <2>3. job' = [job EXCEPT ![p] = [job[p] EXCEPT !.pc = "map", !.b = 0]]
    BY <1>1
  <2>4. job' \in [Proc -> JobRec] /\ Only(p) /\ job'[p] = [job[p] EXCEPT !.pc = "map", !.b = 0]
    BY <1>1, <2>2, <2>3 DEF Only
  <2> QED
    BY <2>1, <2>4 DEF JobRec
<1>7. \A k : Entries(k)' = Entries(k)
  BY <1>1, <1>6, EntriesSame DEF Only
<1>8. /\ inode' \in [Ino -> InodeRec] /\ data' \in [Block -> [0..(BSIZE - 1) -> Nat]] /\ bs \in Seq(Int)
      /\ \A k \in Ino : /\ inode'[k].used = inode[k].used /\ inode'[k].busy = inode[k].busy
                        /\ inode'[k].nlink = inode[k].nlink /\ (k # i => inode'[k] = inode[k])
      /\ \A k \in Ino : k # i /\ Indirect(k) # 0 => data'[Indirect(k)] = data[Indirect(k)]
      /\ \E m \in Int : Places' = (Places \ {<<p, -1, b>>}) \cup {<<i, m, b>>}
  <2>1. ASSUME NEW d \in 0..NDIRECT, inode[i].addrs[d] = 0, ~(s = "block" /\ n >= NDIRECT),
               (IF s = "indirect" THEN NDIRECT ELSE n) = d
        PROVE  /\ inode' \in [Ino -> InodeRec] /\ data' \in [Block -> [0..(BSIZE - 1) -> Nat]] /\ bs \in Seq(Int)
               /\ \A k \in Ino : /\ inode'[k].used = inode[k].used /\ inode'[k].busy = inode[k].busy
                                 /\ inode'[k].nlink = inode[k].nlink /\ (k # i => inode'[k] = inode[k])
               /\ \A k \in Ino : k # i /\ Indirect(k) # 0 => data'[Indirect(k)] = data[Indirect(k)]
               /\ \E m \in Int : Places' = (Places \ {<<p, -1, b>>}) \cup {<<i, m, b>>}
    <3>1. data' = [data EXCEPT ![b] = NoBytes] /\ inode' = [inode EXCEPT ![i].addrs[d] = b]
      BY <1>1, <2>1 DEF Enter
    <3>2. data' \in [Block -> [0..(BSIZE - 1) -> Nat]] /\ \A a \in Block : a # b => data'[a] = data[a]
      BY <1>1, <1>2, <1>4, <3>1
    <3>3. bs \in Seq(Int)
      <4>1. bs = <<b>> \o <<>>
        BY <2>1
      <4>2. b \in Int
        BY <1>2
      <4> HIDE DEF b, bs
      <4>3. <<b>> \in Seq(Int) /\ <<>> \in Seq(Int)
        BY <4>2
      <4> QED
        BY <4>1, <4>3
    <3>4. inode[i] \in InodeRec /\ inode[i].addrs \in [0..NDIRECT -> Nat]
      BY <1>1, <1>2 DEF InodeRec
    <3> DEFINE a == [inode[i].addrs EXCEPT ![d] = b]
    <3>5. a \in [0..NDIRECT -> Nat] /\ inode' = [inode EXCEPT ![i].addrs = a]
      BY <1>2, <3>1, <3>4
    <3> HIDE DEF a
    <3>6. /\ inode' \in [Ino -> InodeRec] /\ inode'[i].addrs = a
          /\ \A k \in Ino : /\ inode'[k].used = inode[k].used /\ inode'[k].busy = inode[k].busy
                            /\ inode'[k].nlink = inode[k].nlink /\ (k # i => inode'[k] = inode[k])
      <4> DEFINE r == [inode[i] EXCEPT !.addrs = a]
      <4>1. r \in InodeRec /\ r.used = inode[i].used /\ r.busy = inode[i].busy /\ r.nlink = inode[i].nlink /\ r.addrs = a
        BY <3>4, <3>5 DEF InodeRec
      <4>2. inode' = [inode EXCEPT ![i] = r]
        BY <3>5
      <4> HIDE DEF r
      <4> QED
        BY <1>1, <1>2, <4>1, <4>2
    <3>7. \A k \in Ino : k # i /\ Indirect(k) # 0 => data'[Indirect(k)] = data[Indirect(k)]
      BY <1>1, <3>2, IndirectOwn
    <3>8. Places' = (Places \ {<<p, -1, b>>}) \cup {<<i, d, b>>}
      <4>1. inode'[i].addrs = [inode[i].addrs EXCEPT ![d] = b]
        BY <3>6 DEF a
      <4>2. \A k \in Ino : k # i => inode'[k].addrs = inode[k].addrs
        BY <3>6
      <4>3. job[p].pc = "zero" /\ i \in Ino /\ b = job[p].b /\ Only(p) /\ job'[p].pc = "map"
            /\ data'[b] = NoBytes /\ \A k \in Block : k # b => data'[k] = data[k]
        BY <1>1, <1>2, <1>6, <3>1
      <4>4. \A m \in 0..NDIRECT : inode'[i].addrs[m] = IF m = d THEN b ELSE inode[i].addrs[m]
        BY <3>4, <4>1
      <4> HIDE DEF i, b
      <4> QED
        BY <1>7, <2>1, <4>2, <4>3, <4>4, EnterAddr
    <3>9. d \in Int
      BY <1>4
    <3> QED
      BY <3>2, <3>3, <3>6, <3>7, <3>8, <3>9
  <2>2. CASE s = "indirect" /\ n >= NDIRECT /\ c = 0
    <3>1. NDIRECT \in 0..NDIRECT /\ inode[i].addrs[NDIRECT] = 0 /\ ~(s = "block" /\ n >= NDIRECT)
          /\ (IF s = "indirect" THEN NDIRECT ELSE n) = NDIRECT
      BY <1>4, <2>2 DEF Indirect
    <3> QED
      BY <2>1, <3>1
  <2>3. CASE s = "block" /\ n < NDIRECT /\ inode[i].addrs[n] = 0
    <3>1. n \in 0..NDIRECT /\ ~(s = "block" /\ n >= NDIRECT) /\ (IF s = "indirect" THEN NDIRECT ELSE n) = n
      BY <1>2, <1>4, <2>3
    <3> QED
      BY <2>1, <2>3, <3>1
  <2>4. CASE s = "block" /\ n >= NDIRECT /\ c # 0 /\ data[c][n - NDIRECT] = 0
    <3> DEFINE k0 == n - NDIRECT
    <3>1. data' = [data EXCEPT ![b] = NoBytes, ![c][k0] = b] /\ inode' = inode
      BY <1>1, <2>4 DEF Enter
    <3>2. k0 \in Entries(i) /\ k0 \in 0..(BSIZE - 1) /\ data[c][k0] = 0 /\ k0 \in Nat
      <4>1. Entries(i) = 0..(NINDIRECT - 1)
        BY <1>1, EntriesAll DEF Filling
      <4>2. k0 \in 0..(NINDIRECT - 1) /\ k0 \in 0..(BSIZE - 1)
        BY <1>2, <2>4
      <4>3. k0 \in Nat
        BY <1>2, <1>4, <2>4
      <4> QED
        BY <2>4, <4>1, <4>2, <4>3
    <3>3. c \in Block /\ c # b
      BY <1>1, <1>2, <2>4, IndirectOwn
    <3> HIDE DEF k0
    <3>4. data' \in [Block -> [0..(BSIZE - 1) -> Nat]] /\ (\A a \in Block : a # b /\ a # c => data'[a] = data[a])
          /\ data'[c][k0] = b /\ \A m \in 0..(BSIZE - 1) : m # k0 => data'[c][m] = data[c][m]
      <4> DEFINE one == [data EXCEPT ![b] = NoBytes]
      <4>1. one \in [Block -> [0..(BSIZE - 1) -> Nat]] /\ \A a \in Block : a # b => one[a] = data[a]
        BY <1>1, <1>2, <1>4
      <4>2. data' = [one EXCEPT ![c][k0] = b]
        BY <3>1
      <4> HIDE DEF one
      <4> DEFINE g == [one[c] EXCEPT ![k0] = b]
      <4>3. /\ g \in [0..(BSIZE - 1) -> Nat] /\ data' = [one EXCEPT ![c] = g] /\ one[c] = data[c]
            /\ g[k0] = b /\ \A m \in 0..(BSIZE - 1) : m # k0 => g[m] = data[c][m]
        BY <1>2, <3>2, <3>3, <4>1, <4>2
      <4> HIDE DEF g
      <4> QED
        BY <3>3, <4>1, <4>3
    <3>5. Places' = (Places \ {<<p, -1, b>>}) \cup {<<i, NDIRECT + 1 + k0, b>>}
      <4>1. job[p].pc = "zero" /\ i \in Ino /\ b = job[p].b /\ Only(p) /\ job'[p].pc = "map" /\ c = Indirect(i) /\ c # 0
        BY <1>1, <1>2, <1>6, <2>4
      <4> HIDE DEF i, b, c
      <4> QED
        BY <1>7, <3>1, <3>2, <3>4, <4>1, EnterEntry
    <3>6. bs \in Seq(Int)
      <4>1. bs = <<b>> \o <<c>>
        BY <2>4
      <4>2. b \in Int /\ c \in Int
        BY <1>2, <3>3 DEF Block
      <4> HIDE DEF b, bs, c
      <4>3. <<b>> \in Seq(Int) /\ <<c>> \in Seq(Int)
        BY <4>2
      <4> QED
        BY <4>1, <4>3
    <3>7. \A k \in Ino : k # i /\ Indirect(k) # 0 => data'[Indirect(k)] = data[Indirect(k)]
      BY <1>1, <1>2, <2>4, <3>4, IndirectOwn
    <3>8. NDIRECT + 1 + k0 \in Int
      BY <1>4, <3>2
    <3> QED
      BY <1>1, <3>1, <3>4, <3>5, <3>6, <3>7, <3>8
  <2> QED
    BY <1>5, <2>2, <2>3, <2>4
<1>9. Types'
  BY <1>1, <1>6, <1>8 DEF Inv, Types
<1>10. p \in Out /\ Out' = Out
  BY <1>1, <1>6 DEF Out, Only
<1> HIDE DEF bs
<1>11. LogInv'
  BY <1>1, <1>8, <1>10, LogWrites DEF Inv
<1>12. PanicInv'
  BY <1>1, <1>8, <1>9, <1>10, <1>11, LogRefuses DEF Inv, Types
<1>13. TableInv'
  <2>1. job[p].pc # "user" /\ job[p].pc \in Writing
    BY <1>1 DEF Writing
  <2>2. \A f \in File : file[f].ref > 0 => inode'[file[f].ip].used
    BY <1>8 DEF Inv, TableInv, RefsExact
  <2> QED
    BY <1>1, <1>6, <2>1, <2>2, TableSame DEF Inv
<1>14. LockInv'
  <2>1. LocksKept
    <3>1. inode[i].used
      BY <1>1, WriterUses DEF Writing
    <3> QED
      BY <1>8, <3>1 DEF LocksKept
  <2>2. LessUsed
    BY <1>1 DEF LessUsed, Using
  <2> QED
    BY <1>1, <1>6, <2>1, <2>2, LockSame DEF Inv, Holding, Filling, Truncating, Putting
<1>15. OwnInv'
  <2>1. PICK m \in Int : Places' = (Places \ {<<p, -1, b>>}) \cup {<<i, m, b>>}
    BY <1>8
  <2>2. <<p, -1, b>> \in Places /\ <<p, -1, b>>[3] = <<i, m, b>>[3]
    BY <1>1, PlaceOfNew
  <2>3. Owned((Places \ {<<p, -1, b>>}) \cup {<<i, m, b>>}, bitmap)
    BY <2>2, OwnedMoves DEF Inv, OwnInv
  <2>4. ASSUME NEW q \in Proc PROVE Chunk(q)'
    <3>1. CASE q = p
      BY <1>1, <1>3, <1>6, <3>1 DEF Chunk
    <3>2. CASE q # p
      <4>1. Chunk(q) /\ job'[q] = job[q]
        BY <1>6, <3>2 DEF Inv, OwnInv, Only
      <4>2. job[q].pc \in Holding => job[q].i \in Ino /\ job[q].i # i
        BY <1>1, <3>2, Inside DEF Inv, LockInv, Holding, Filling
      <4>3. job[q].pc \in Filling => job[q].i \in Ino /\ job[q].i # i
        BY <4>2 DEF Holding
      <4>4. job[q].pc = "trunc_end" => job[q].i \in Ino /\ job[q].i # i
        BY <4>2 DEF Holding, Truncating
      <4> QED
        BY <1>1, <1>8, <4>1, <4>3, <4>4, ChunkOther
    <3> QED
      BY <3>1, <3>2
  <2> QED
    BY <1>1, <2>1, <2>3, <2>4 DEF OwnInv
<1> QED
  BY <1>9, <1>11, <1>12, <1>13, <1>14, <1>15 DEF Inv

-----------------------------------------------------------------------------
(* Truncation *)

\* An address of an inode is dropped; the indirect block goes when it lists no block.
LEMMA DropAddr ==
    ASSUME Inv, NEW i \in Ino, NEW d \in 0..NDIRECT, NEW b, b = inode[i].addrs[d], b # 0,
           d = NDIRECT => \A k \in Entries(i) : data[b][k] = 0,
           \A n \in 0..NDIRECT : inode'[i].addrs[n] = IF n = d THEN 0 ELSE inode[i].addrs[n],
           \A k \in Ino : k # i => inode'[k].addrs = inode[k].addrs, data' = data, job' = job
    PROVE  Places' = Places \ {<<i, d, b>>}
<1>1. \A k : Entries(k)' = Entries(k)
  BY EntriesSame
<1>2. \A x : PlaceD(x)' <=> PlaceD(x) /\ x # <<i, d, b>>
  <2>1. ASSUME NEW x, PlaceD(x)' PROVE PlaceD(x) /\ x # <<i, d, b>>
    <3>1. PICK k \in Ino, n \in 0..NDIRECT : x = <<k, n, inode'[k].addrs[n]>> /\ inode'[k].addrs[n] # 0
      BY <2>1 DEF PlaceD
    <3>2. ~(k = i /\ n = d) /\ inode'[k].addrs[n] = inode[k].addrs[n]
      BY <3>1
    <3> QED
      BY <3>1, <3>2 DEF PlaceD
  <2>2. ASSUME NEW x, PlaceD(x), x # <<i, d, b>> PROVE PlaceD(x)'
    <3>1. PICK k \in Ino, n \in 0..NDIRECT : x = <<k, n, inode[k].addrs[n]>> /\ inode[k].addrs[n] # 0
      BY <2>2 DEF PlaceD
    <3>2. inode'[k].addrs[n] = inode[k].addrs[n]
      BY <2>2, <3>1
    <3> QED
      BY <3>1, <3>2 DEF PlaceD
  <2> QED
    BY <2>1, <2>2
<1>3. NDIRECT \in 0..NDIRECT
  BY Consts
<1>4. \A x : PlaceE(x)' <=> PlaceE(x)
  <2>1. ASSUME NEW k \in Ino, ~(k = i /\ d = NDIRECT) PROVE Indirect(k)' = Indirect(k)
    BY <1>3, <2>1 DEF Indirect
  <2>2. d = NDIRECT => Indirect(i)' = 0 /\ Indirect(i) = b
    BY <1>3 DEF Indirect
  <2>3. ASSUME NEW x, PlaceE(x)' PROVE PlaceE(x)
    <3>1. PICK k \in Ino : /\ Indirect(k)' # 0
                           /\ \E n \in Entries(k)' : /\ x = <<k, NDIRECT + 1 + n, data[Indirect(k)'][n]>>
                                                     /\ data[Indirect(k)'][n] # 0
      BY <2>3 DEF PlaceE
    <3>2. Indirect(k)' = Indirect(k)
      BY <2>1, <2>2, <3>1
    <3> QED
      BY <1>1, <3>1, <3>2 DEF PlaceE
  <2>4. ASSUME NEW x, PlaceE(x) PROVE PlaceE(x)'
    <3>1. PICK k \in Ino : /\ Indirect(k) # 0
                           /\ \E n \in Entries(k) : /\ x = <<k, NDIRECT + 1 + n, data[Indirect(k)][n]>>
                                                    /\ data[Indirect(k)][n] # 0
      BY <2>4 DEF PlaceE
    <3>2. Indirect(k)' = Indirect(k)
      BY <2>1, <2>2, <3>1
    <3> QED
      BY <1>1, <3>1, <3>2 DEF PlaceE
  <2> QED
    BY <2>3, <2>4
<1>5. \A x : PlaceZ(x)' <=> PlaceZ(x)
  BY DEF PlaceZ
<1>6. ~PlaceE(<<i, d, b>>)
  BY Consts DEF PlaceE, Entries
<1>7. ~PlaceZ(<<i, d, b>>)
  BY Consts DEF PlaceZ
<1>8. \A x : x \in Places' <=> x \in Places /\ x # <<i, d, b>>
  BY <1>2, <1>4, <1>5, <1>6, <1>7, PlacesAre, PlacesNext
<1> QED
  BY <1>8

\* The truncation comes past an entry of the indirect block.
LEMMA DropEntry ==
    ASSUME Inv, NEW p \in Proc, NEW i \in Ino, job[p].pc = "trunc", job[p].i = i, NEW c, c = Indirect(i), c # 0,
           NEW k0 \in job[p].tot..(NINDIRECT - 1), NEW b, b = data[c][k0],
           \A k \in job[p].tot..(NINDIRECT - 1) : k < k0 => data[c][k] = 0,
           Only(p), job'[p].pc = "trunc", job'[p].i = i, job'[p].tot = k0 + 1, data' = data, inode' = inode
    PROVE  Places' = Places \ {<<i, NDIRECT + 1 + k0, b>>}
<1>1. \A q \in Proc : q # p /\ job[q].pc = "trunc" => job[q].i # i
  BY DEF Inv, LockInv, Holding, Truncating
<1>2. job[p].tot \in Nat /\ k0 \in Nat /\ NDIRECT \in Nat /\ NINDIRECT \in Nat
  <2>1. job[p] \in JobRec
    BY DEF Inv, Types
  <2>2. job[p].tot \in Nat
    BY <2>1 DEF JobRec
  <2> QED
    BY <2>2, Consts
<1>3. Entries(i) = {k \in 0..(NINDIRECT - 1) : job[p].tot <= k}
  BY <1>1 DEF Entries
<1>4. Entries(i)' = {k \in 0..(NINDIRECT - 1) : k0 + 1 <= k}
  BY <1>1 DEF Entries, Only
<1>5. \A k \in Ino : k # i => Entries(k)' = Entries(k)
  BY DEF Entries, Only
<1>6. \A k \in Ino : Indirect(k)' = Indirect(k)
  BY DEF Indirect
<1>7. \A x : PlaceE(x)' <=> PlaceE(x) /\ x # <<i, NDIRECT + 1 + k0, b>>
  <2>1. ASSUME NEW x, PlaceE(x)' PROVE PlaceE(x) /\ x # <<i, NDIRECT + 1 + k0, b>>
    <3>1. PICK k \in Ino : /\ Indirect(k) # 0
                           /\ \E n \in Entries(k)' : /\ x = <<k, NDIRECT + 1 + n, data[Indirect(k)][n]>>
                                                     /\ data[Indirect(k)][n] # 0
      BY <1>6, <2>1 DEF PlaceE
    <3>2. PICK n \in Entries(k)' : x = <<k, NDIRECT + 1 + n, data[Indirect(k)][n]>> /\ data[Indirect(k)][n] # 0
      BY <3>1
    <3>3. n \in Entries(k) /\ n \in Nat
      <4>1. n \in 0..(NINDIRECT - 1)
        BY <3>2 DEF Entries
      <4>2. CASE k = i
        BY <1>2, <1>3, <1>4, <3>2, <4>1, <4>2
      <4>3. CASE k # i
        BY <1>2, <1>5, <3>2, <4>1, <4>3
      <4> QED
        BY <4>2, <4>3
    <3>4. ~(k = i /\ n = k0)
      BY <1>2, <1>4, <3>2
    <3>5. x # <<i, NDIRECT + 1 + k0, b>>
      BY <1>2, <3>2, <3>3, <3>4
    <3> QED
      BY <3>1, <3>2, <3>3, <3>5 DEF PlaceE
  <2>2. ASSUME NEW x, PlaceE(x), x # <<i, NDIRECT + 1 + k0, b>> PROVE PlaceE(x)'
    <3>1. PICK k \in Ino : /\ Indirect(k) # 0
                           /\ \E n \in Entries(k) : /\ x = <<k, NDIRECT + 1 + n, data[Indirect(k)][n]>>
                                                    /\ data[Indirect(k)][n] # 0
      BY <2>2 DEF PlaceE
    <3>2. PICK n \in Entries(k) : x = <<k, NDIRECT + 1 + n, data[Indirect(k)][n]>> /\ data[Indirect(k)][n] # 0
      BY <3>1
    <3>3. n \in Entries(k)'
      <4>1. CASE k = i
        <5>1. n \in 0..(NINDIRECT - 1) /\ job[p].tot <= n /\ data[c][n] # 0
          BY <1>3, <3>2, <4>1
        <5>2. n # k0
          BY <2>2, <3>2, <4>1
        <5>3. ~(n < k0)
          BY <1>2, <5>1
        <5> QED
          BY <1>2, <1>4, <4>1, <5>1, <5>2, <5>3
      <4>2. CASE k # i
        BY <1>5, <4>2
      <4> QED
        BY <4>1, <4>2
    <3> QED
      BY <1>6, <3>1, <3>2, <3>3 DEF PlaceE
  <2> QED
    BY <2>1, <2>2
<1>8. \A x : PlaceD(x)' <=> PlaceD(x)
  BY DEF PlaceD
<1>9. \A x : PlaceZ(x)' <=> PlaceZ(x)
  BY DEF PlaceZ, Only
<1>10. ~PlaceD(<<i, NDIRECT + 1 + k0, b>>) /\ ~PlaceZ(<<i, NDIRECT + 1 + k0, b>>)
  BY <1>2 DEF PlaceD, PlaceZ
<1>11. \A x : x \in Places' <=> x \in Places /\ x # <<i, NDIRECT + 1 + k0, b>>
  BY <1>7, <1>8, <1>9, <1>10, PlacesAre, PlacesNext
<1> QED
  BY <1>11

\* What itrunc() finds to free next.
LEMMA VictimIs ==
    ASSUME Inv, NEW p \in Proc, job[p].pc = "trunc", NEW i \in Ino, NEW j \in Nat, NEW v, v = Victim(i, j)
    PROVE  \/ v[1] = "direct" /\ v[2] \in 0..(NDIRECT - 1) /\ inode[i].addrs[v[2]] # 0
           \/ /\ v[1] = "entry" /\ Indirect(i) # 0 /\ v[2] \in j..(NINDIRECT - 1) /\ data[Indirect(i)][v[2]] # 0
              /\ \A k \in j..(NINDIRECT - 1) : k < v[2] => data[Indirect(i)][k] = 0
           \/ v[1] = "indirect" /\ Indirect(i) # 0 /\ \A k \in j..(NINDIRECT - 1) : data[Indirect(i)][k] = 0
           \/ v[1] = "none" /\ \A n \in 0..NDIRECT : inode[i].addrs[n] = 0
<1> DEFINE direct == {n \in 0..(NDIRECT - 1) : inode[i].addrs[n] # 0}
           entries == {k \in j..(NINDIRECT - 1) : data[Indirect(i)][k] # 0}
<1>1. v = IF direct # {} THEN <<"direct", Min(direct)>>
          ELSE IF Indirect(i) = 0 THEN <<"none", 0>>
          ELSE IF entries # {} THEN <<"entry", Min(entries)>> ELSE <<"indirect", 0>>
  BY DEF Victim
<1>2. direct \in SUBSET Nat /\ entries \in SUBSET Nat
  BY Consts
<1>3. direct # {} => Min(direct) \in direct
  <2> HIDE DEF direct
  <2> QED
    BY <1>2, MinIn
<1>4. entries # {} => Min(entries) \in entries /\ \A k \in entries : Min(entries) <= k
  <2> HIDE DEF entries
  <2> QED
    BY <1>2, MinIn
<1>5. CASE direct # {}
  BY <1>1, <1>3, <1>5
<1>6. CASE direct = {} /\ Indirect(i) = 0
  <2>1. v[1] = "none"
    <3> HIDE DEF direct, entries
    <3> QED
      BY <1>1, <1>6
  <2>2. ASSUME NEW n \in 0..NDIRECT PROVE inode[i].addrs[n] = 0
    <3>1. CASE n = NDIRECT
      BY <1>6, <3>1 DEF Indirect
    <3>2. CASE n # NDIRECT
      <4>1. n \in 0..(NDIRECT - 1)
        BY <3>2, Consts
      <4> QED
        BY <1>6, <4>1
    <3> QED
      BY <3>1, <3>2
  <2> QED
    BY <2>1, <2>2
<1>7. CASE direct = {} /\ Indirect(i) # 0 /\ entries # {}
  <2> DEFINE e == Min(entries)
  <2>1. v = <<"entry", e>> /\ e \in entries /\ \A k \in entries : e <= k
    <3> HIDE DEF direct, entries
    <3> QED
      BY <1>1, <1>4, <1>7
  <2> HIDE DEF e
  <2>2. \A k \in j..(NINDIRECT - 1) : k < e => data[Indirect(i)][k] = 0
    <3> SUFFICES ASSUME NEW k \in j..(NINDIRECT - 1), k < e, data[Indirect(i)][k] # 0 PROVE FALSE
      OBVIOUS
    <3>1. e <= k /\ e \in Nat /\ k \in Nat
      BY <1>2, <2>1
    <3> QED
      BY <3>1
  <2> QED
    BY <1>7, <2>1, <2>2
<1>8. CASE direct = {} /\ Indirect(i) # 0 /\ entries = {}
  <2>1. v[1] = "indirect"
    <3> HIDE DEF direct, entries
    <3> QED
      BY <1>1, <1>8
  <2> QED
    BY <1>8, <2>1
<1> QED
  BY <1>5, <1>6, <1>7, <1>8

LEMMA TruncFreeStep == ASSUME Inv, NEW p \in Proc, TruncFree(p) PROVE Inv'
<1> DEFINE i == job[p].i
           t == job[p].tot
           v == Victim(i, t)
           c == Indirect(i)
<1>1. /\ job[p].pc = "trunc" /\ panicked = "no" /\ job \in [Proc -> JobRec] /\ inode \in [Ino -> InodeRec]
      /\ bitmap \subseteq Block /\ i \in Ino /\ inode[i].used /\ t \in Nat
      /\ data' = data /\ file' = file /\ ofile' = ofile /\ alive' = alive /\ UNCHANGED tableVars
      /\ \/ /\ v[1] = "direct" /\ bfree(p, inode[i].addrs[v[2]])
            /\ inode' = [inode EXCEPT ![i].addrs[v[2]] = 0] /\ job' = job
         \/ /\ v[1] = "entry" /\ bfree(p, data[c][v[2]])
            /\ job' = [job EXCEPT ![p].tot = v[2] + 1] /\ inode' = inode
         \/ /\ v[1] = "indirect" /\ bfree(p, c)
            /\ inode' = [inode EXCEPT ![i].addrs[NDIRECT] = 0] /\ job' = job
         \/ /\ v[1] = "none" /\ log_write(p, <<INODES>>) /\ job' = [job EXCEPT ![p].pc = "trunc_end"]
            /\ bitmap' = bitmap /\ inode' = inode
  <2>1. At(p, "trunc")
    BY DEF TruncFree
  <2>2. job[p].pc = "trunc" /\ panicked = "no" /\ job \in [Proc -> JobRec] /\ inode \in [Ino -> InodeRec] /\ bitmap \subseteq Block
    BY <2>1 DEF At, Inv, Types
  <2>3. i \in Ino /\ inode[i].used
    BY <2>2 DEF Inv, LockInv, Putting, Truncating
  <2>4. t \in Nat
    BY <2>2 DEF JobRec
  <2> QED
    BY <2>2, <2>3, <2>4 DEF TruncFree, Go, tableVars
<1>2. NDIRECT \in Nat /\ NDIRECT \in 0..NDIRECT /\ NINDIRECT \in Nat /\ Entries(i) = {k \in 0..(NINDIRECT - 1) : t <= k}
  <2>1. \A q \in Proc : q # p /\ job[q].pc = "trunc" => job[q].i # i
    BY <1>1 DEF Inv, LockInv, Holding, Truncating
  <2> QED
    BY <1>1, <2>1, Consts DEF Entries
<1>3. Entries(i) = t..(NINDIRECT - 1)
  BY <1>1, <1>2
<1> DEFINE Goal == /\ Owned(Places', bitmap') /\ bitmap' \subseteq Block
                   /\ \E l \in Int : log_write(p, <<l>>)
                   /\ inode' \in [Ino -> InodeRec] /\ \A k \in Ino : k # i => inode'[k] = inode[k]
                   /\ inode'[i].used = inode[i].used /\ inode'[i].busy = inode[i].busy /\ inode'[i].nlink = inode[i].nlink
                   /\ job' \in [Proc -> JobRec] /\ Only(p) /\ job'[p].i = i /\ job'[p].pc \in {"trunc", "trunc_end"}
                   /\ Chunk(p)'
\* A block that is freed was taken.
<1>4. ASSUME NEW x \in Places, bfree(p, x[3]), Places' = Places \ {x}
      PROVE  Owned(Places', bitmap') /\ bitmap' \subseteq Block /\ \E l \in Int : log_write(p, <<l>>)
  <2>1. x[3] \in bitmap
    BY DEF Inv, OwnInv, Owned
  <2>2. bitmap' = bitmap \ {x[3]} /\ log_write(p, <<BITMAP>>)
    BY <1>4, <2>1 DEF bfree
  <2>3. Owned(Places', bitmap')
    BY <1>4, <2>2, OwnedDrops DEF Inv, OwnInv
  <2>4. BITMAP \in Int
    BY DEF BITMAP
  <2> QED
    BY <1>1, <2>2, <2>3, <2>4
<1>5. ASSUME NEW d \in 0..NDIRECT, inode[i].addrs[d] # 0, bfree(p, inode[i].addrs[d]), job' = job,
             inode' = [inode EXCEPT ![i].addrs[d] = 0], d = NDIRECT => \A k \in Entries(i) : data[c][k] = 0
      PROVE  Goal
  <2> DEFINE b == inode[i].addrs[d]
             x == <<i, d, b>>
             a == [inode[i].addrs EXCEPT ![d] = 0]
             r == [inode[i] EXCEPT !.addrs = a]
  <2>1. inode[i] \in InodeRec /\ inode[i].addrs \in [0..NDIRECT -> Nat]
    BY <1>1 DEF InodeRec
  <2>2. a \in [0..NDIRECT -> Nat] /\ \A n \in 0..NDIRECT : a[n] = IF n = d THEN 0 ELSE inode[i].addrs[n]
    BY <2>1
  <2>3. inode' = [inode EXCEPT ![i] = r]
    BY <1>5
  <2> HIDE DEF a
  <2>4. r \in InodeRec /\ r.used = inode[i].used /\ r.busy = inode[i].busy /\ r.nlink = inode[i].nlink /\ r.addrs = a
    BY <2>1, <2>2 DEF InodeRec
  <2> HIDE DEF r
  <2>5. /\ inode' \in [Ino -> InodeRec] /\ inode'[i] = r
        /\ \A k \in Ino : k # i => inode'[k] = inode[k]
    BY <1>1, <2>3, <2>4
  <2>6. \A n \in 0..NDIRECT : inode'[i].addrs[n] = IF n = d THEN 0 ELSE inode[i].addrs[n]
    BY <2>2, <2>4, <2>5
  <2>7. x \in Places
    BY <1>1, <1>5, PlaceOfAddr
  <2>8. Places' = Places \ {x}
    <3>1. d = NDIRECT => \A k \in Entries(i) : data[b][k] = 0
      BY <1>5 DEF Indirect
    <3>2. \A k \in Ino : k # i => inode'[k].addrs = inode[k].addrs
      BY <2>5
    <3>3. i \in Ino /\ b = inode[i].addrs[d] /\ b # 0 /\ data' = data /\ job' = job
      BY <1>1, <1>5
    <3> HIDE DEF b, i
    <3> QED
      BY <2>6, <3>1, <3>2, <3>3, DropAddr
  <2>9. bfree(p, x[3])
    BY <1>5
  <2> HIDE DEF x
  <2>10. Owned(Places', bitmap') /\ bitmap' \subseteq Block /\ \E l \in Int : log_write(p, <<l>>)
    BY <1>4, <2>7, <2>8, <2>9
  <2>11. Chunk(p)'
    BY <1>1, <1>5 DEF Chunk, Filling, Writing
  <2>12. job' \in [Proc -> JobRec] /\ Only(p) /\ job'[p].i = i /\ job'[p].pc \in {"trunc", "trunc_end"}
    BY <1>1, <1>5 DEF Only
  <2> QED
    BY <2>4, <2>5, <2>10, <2>11, <2>12
<1>6. ASSUME /\ v[1] = "direct" /\ bfree(p, inode[i].addrs[v[2]])
             /\ inode' = [inode EXCEPT ![i].addrs[v[2]] = 0] /\ job' = job
      PROVE  Goal
  <2> DEFINE d == v[2]
  <2>1. d \in 0..(NDIRECT - 1) /\ inode[i].addrs[d] # 0
    <3>1. v[1] = "direct" /\ job[p].pc = "trunc" /\ i \in Ino /\ t \in Nat /\ v = Victim(i, t)
      BY <1>1, <1>6
    <3> HIDE DEF i, t, v
    <3> QED
      BY <3>1, VictimIs
  <2>2. bfree(p, inode[i].addrs[d]) /\ inode' = [inode EXCEPT ![i].addrs[d] = 0] /\ job' = job
    BY <1>6
  <2> HIDE DEF d
  <2>3. d \in 0..NDIRECT /\ d # NDIRECT
    BY <1>2, <2>1
  <2> QED
    BY <1>5, <2>1, <2>2, <2>3
<1>7. ASSUME /\ v[1] = "indirect" /\ bfree(p, c)
             /\ inode' = [inode EXCEPT ![i].addrs[NDIRECT] = 0] /\ job' = job
      PROVE  Goal
  <2>1. c # 0 /\ \A k \in t..(NINDIRECT - 1) : data[c][k] = 0
    BY <1>1, <1>7, VictimIs
  <2>2. c = inode[i].addrs[NDIRECT]
    BY DEF Indirect
  <2> HIDE DEF c
  <2>3. \A k \in Entries(i) : data[c][k] = 0
    BY <1>3, <2>1
  <2>4. bfree(p, c)
    BY <1>7
  <2> QED
    BY <1>2, <1>5, <1>7, <2>1, <2>2, <2>3, <2>4
<1>8. ASSUME /\ v[1] = "entry" /\ bfree(p, data[c][v[2]])
             /\ job' = [job EXCEPT ![p].tot = v[2] + 1] /\ inode' = inode
      PROVE  Goal
  <2> DEFINE k0 == v[2]
             b == data[c][k0]
             x == <<i, NDIRECT + 1 + k0, b>>
  <2>1. /\ c # 0 /\ k0 \in t..(NINDIRECT - 1) /\ b # 0
        /\ \A k \in t..(NINDIRECT - 1) : k < k0 => data[c][k] = 0
    BY <1>1, <1>8, VictimIs
  <2>2. bfree(p, b) /\ job' = [job EXCEPT ![p].tot = k0 + 1] /\ inode' = inode
    BY <1>8
  <2> HIDE DEF k0
  <2>3. k0 \in Nat /\ k0 \in Entries(i) /\ k0 + 1 \in Nat
    <3>1. t \in Nat
      BY <1>1
    <3> HIDE DEF i, c, b, t
    <3> QED
      BY <1>3, <2>1, <3>1
  <2>4. x \in Places
    BY <1>1, <2>1, <2>3, PlaceOfEntry
  <2>5. /\ job' \in [Proc -> JobRec] /\ Only(p) /\ job'[p].i = i /\ job'[p].pc = "trunc" /\ job'[p].tot = k0 + 1
    <3> DEFINE r == [job[p] EXCEPT !.tot = k0 + 1]
    <3>1. job[p] \in JobRec /\ job' = [job EXCEPT ![p] = r]
      BY <1>1, <2>2
    <3>2. r \in JobRec /\ r.i = i /\ r.pc = "trunc" /\ r.tot = k0 + 1
      BY <1>1, <2>3, <3>1 DEF JobRec
    <3> HIDE DEF r
    <3> QED
      BY <1>1, <3>1, <3>2 DEF Only
  <2>6. Places' = Places \ {x}
    <3>1. /\ job[p].pc = "trunc" /\ i \in Ino /\ job[p].i = i /\ c = Indirect(i) /\ b = data[c][k0] /\ k0 \in job[p].tot..(NINDIRECT - 1)
          /\ data' = data /\ \A k \in job[p].tot..(NINDIRECT - 1) : k < k0 => data[c][k] = 0
      BY <1>1, <2>1
    <3> HIDE DEF i, c, b
    <3> QED
      BY <2>1, <2>2, <2>5, <3>1, DropEntry
  <2>7. bfree(p, x[3])
    BY <2>2
  <2> HIDE DEF x
  <2>8. Owned(Places', bitmap') /\ bitmap' \subseteq Block /\ \E l \in Int : log_write(p, <<l>>)
    BY <1>4, <2>4, <2>6, <2>7
  <2>9. Chunk(p)'
    BY <2>5 DEF Chunk, Filling, Writing
  <2> QED
    BY <1>1, <2>2, <2>5, <2>8, <2>9
<1>9. ASSUME /\ v[1] = "none" /\ log_write(p, <<INODES>>) /\ job' = [job EXCEPT ![p].pc = "trunc_end"]
             /\ bitmap' = bitmap /\ inode' = inode
      PROVE  Goal
  <2>1. \A n \in 0..NDIRECT : inode[i].addrs[n] = 0
    BY <1>1, <1>9, VictimIs
  <2>2. job' \in [Proc -> JobRec] /\ Only(p) /\ job'[p].i = i /\ job'[p].pc = "trunc_end"
    <3>1. "trunc_end" \in Pcs
      BY DEF Pcs, Putting, Truncating
    <3> QED
      BY <1>1, <1>9, <3>1 DEF Only, JobRec
  <2>3. Chunk(p)'
    BY <1>9, <2>1, <2>2 DEF Chunk, Filling, Writing
  <2>4. Places' = Places
    <3> DEFINE P(q) == q \in Places
    <3>1. \A k \in Ino : k # i => Entries(k)' = Entries(k)
      BY <1>1, <2>2 DEF Entries, Only
    <3>2. Indirect(i) = 0
      BY <1>2, <2>1 DEF Indirect
    <3> QED
      BY <1>1, <1>9, <2>2, <3>1, <3>2, PlacesSame DEF Only
  <2>5. INODES \in Int
    BY DEF INODES
  <2> QED
    BY <1>1, <1>9, <2>2, <2>3, <2>4, <2>5 DEF Inv, OwnInv
<1>10. Goal
  BY <1>1, <1>6, <1>7, <1>8, <1>9
<1> HIDE DEF c, v
<1>11. Types'
  BY <1>1, <1>10 DEF Inv, Types
<1>12. PICK l \in Int : log_write(p, <<l>>)
  BY <1>10
<1>13. p \in Out /\ Out' = Out /\ <<l>> \in Seq(Int)
  BY <1>1, <1>10 DEF Out, Only
<1>14. LogInv'
  BY <1>12, <1>13, LogWrites DEF Inv
<1>15. PanicInv'
  BY <1>1, <1>10, <1>12, <1>13, <1>14, LogRefuses DEF Inv
<1>16. \A k \in Ino : inode'[k].used = inode[k].used /\ inode'[k].busy = inode[k].busy /\ inode'[k].nlink = inode[k].nlink
  BY <1>10
<1>17. TableInv'
  <2>1. job[p].pc # "user" /\ job'[p].pc \notin Writing
    BY <1>1, <1>10 DEF Writing
  <2>2. \A f \in File : file[f].ref > 0 => inode'[file[f].ip].used
    BY <1>16 DEF Inv, TableInv, RefsExact
  <2> QED
    BY <1>1, <1>10, <2>1, <2>2, TableSame DEF Inv
<1>18. LockInv'
  <2>1. LocksKept
    BY <1>1, <1>10, <1>16 DEF LocksKept
  <2>2. LessUsed
    BY <1>1 DEF LessUsed, Using
  <2>3. {"trunc", "trunc_end"} \subseteq Holding /\ {"trunc", "trunc_end"} \subseteq Truncating /\ {"trunc", "trunc_end"} \subseteq Putting
    BY DEF Holding, Truncating, Putting
  <2> QED
    BY <1>1, <1>10, <2>1, <2>2, <2>3, LockSame DEF Inv
<1>19. OwnInv'
  <2>1. ASSUME NEW q \in Proc, q # p PROVE Chunk(q)'
    <3>1. Chunk(q) /\ job'[q] = job[q]
      BY <1>10, <2>1 DEF Inv, OwnInv, Only
    <3>2. job[q].pc \in Holding => job[q].i \in Ino /\ job[q].i # i
      BY <1>1, <2>1, Inside DEF Inv, LockInv, Holding, Truncating
    <3>3. job[q].pc \in Filling \/ job[q].pc = "trunc_end" => job[q].i \in Ino /\ job[q].i # i
      BY <3>2 DEF Holding, Truncating
    <3> QED
      BY <1>1, <1>10, <3>1, <3>3, ChunkOther
  <2> QED
    BY <1>10, <2>1 DEF OwnInv
<1> QED
  BY <1>11, <1>14, <1>15, <1>17, <1>18, <1>19 DEF Inv

-----------------------------------------------------------------------------
(* The invariant holds *)

LEMMA InitInv == Init => Inv
<1> SUFFICES ASSUME Init PROVE Inv
  OBVIOUS
<1>1. /\ bitmap = {} /\ data = [b \in Block |-> NoBytes] /\ inode = [i \in Ino |-> NoInode]
      /\ file = [f \in File |-> [ref |-> 0, ip |-> 0, off |-> 0]] /\ ofile = [p \in Proc |-> [fd \in Fd |-> 0]]
      /\ alive \subseteq Proc /\ job = [p \in Proc |-> NoJob]
      /\ outstanding = 0 /\ logged = {} /\ panicked = "no" /\ mine = [p \in Proc |-> {}] /\ over = FALSE
  BY DEF Init
<1>2. Types
  <2>1. NoBytes \in [0..(BSIZE - 1) -> Nat]
    BY DEF NoBytes
  <2>2. NoInode \in InodeRec
    <3>1. [n \in 0..NDIRECT |-> 0] \in [0..NDIRECT -> Nat]
      OBVIOUS
    <3>2. 0 \in 0..(MAXFILE * BSIZE)
      <4> DEFINE m == MAXFILE * BSIZE
      <4>1. m \in Nat
        BY Consts
      <4> HIDE DEF m
      <4> QED
        BY <4>1 DEF m
    <3> QED
      BY <3>1, <3>2 DEF NoInode, InodeRec
  <2>3. NoJob \in JobRec
    BY Consts DEF NoJob, JobRec, Pcs
  <2>4. [ref |-> 0, ip |-> 0, off |-> 0] \in FileRec
    BY DEF FileRec
  <2>5. [p \in Proc |-> [fd \in Fd |-> 0]] \in [Proc -> [Fd -> 0..NFILE]]
    BY Consts
  <2> QED
    BY <1>1, <2>1, <2>2, <2>3, <2>4, <2>5 DEF Types
<1>3. \A p \in Proc : job[p] = NoJob /\ job[p].pc = "user"
  BY <1>1 DEF NoJob
<1>4. LogInv
  <2>1. Out = {}
    BY <1>3 DEF Out
  <2>2. IsFiniteSet({}) /\ Cardinality({}) = 0
    BY FS_EmptySet
  <2>3. \A S \in SUBSET Out : S = {}
    BY <2>1
  <2>4. mine \in [Proc -> SUBSET logged] /\ \A p \in Proc : mine[p] = {}
    BY <1>1
  <2>5. Cardinality(Pairs({})) <= Cardinality({}) * MAXOPBLOCKS
    BY <2>2, NoPairs, Consts
  <2>6. Cardinality(logged) + outstanding * MAXOPBLOCKS <= LOGSIZE + Cardinality(Pairs(Out))
    BY <1>1, <2>1, <2>2, NoPairs, Consts
  <2> QED
    BY <1>1, <2>1, <2>2, <2>3, <2>4, <2>5, <2>6 DEF LogInv
<1>5. TableInv
  <2>1. ASSUME NEW f \in File PROVE file[f].ref = 0 /\ {x \in Proc \X Fd : ofile[x[1]][x[2]] = f} = {}
    <3>1. \A x \in Proc \X Fd : ofile[x[1]][x[2]] = 0
      BY <1>1
    <3> QED
      BY <1>1, <3>1, Consts
  <2>2. RefsExact
    <3>1. \A f \in File : file[f].ref = Cardinality({x \in Proc \X Fd : ofile[x[1]][x[2]] = f})
      <4>1. ASSUME NEW f \in File PROVE file[f].ref = Cardinality({x \in Proc \X Fd : ofile[x[1]][x[2]] = f})
        <5>1. Cardinality({x \in Proc \X Fd : ofile[x[1]][x[2]] = f}) = Cardinality({})
          BY <2>1
        <5> QED
          BY <2>1, <5>1, FS_EmptySet
      <4> QED
        BY <4>1
    <3>2. \A f \in File : ~(file[f].ref > 0)
      BY <2>1
    <3> QED
      BY <3>1, <3>2 DEF RefsExact
  <2> QED
    BY <1>1, <1>3, <2>1, <2>2 DEF TableInv, Writing
<1>6. LockInv
  <2>1. \A i \in Ino : inode[i] = NoInode /\ ~inode[i].busy
    BY <1>1 DEF NoInode
  <2>2. "user" \notin Holding /\ "user" \notin Putting /\ "user" \notin Truncating
    BY DEF Holding, Filling, Putting, Truncating
  <2> QED
    BY <1>3, <2>1, <2>2 DEF LockInv
<1>7. OwnInv
  <2>1. \A i \in Ino : \A n \in 0..NDIRECT : inode[i].addrs[n] = 0
    BY <1>1 DEF NoInode
  <2>2. \A i \in Ino : Indirect(i) = 0
    BY <2>1, Consts DEF Indirect
  <2>3. \A x : x \notin Places
    BY <1>3, <2>1, <2>2, PlacesAre DEF PlaceD, PlaceE, PlaceZ
  <2>4. Owned(Places, bitmap)
    BY <1>1, <2>3 DEF Owned
  <2> QED
    BY <1>3, <2>4 DEF OwnInv, Chunk, Writing, Filling
<1>8. PanicInv
  BY <1>1, FS_EmptySet, Consts DEF PanicInv, PanicsExplained
<1> QED
  BY <1>2, <1>4, <1>5, <1>6, <1>7, <1>8 DEF Inv

LEMMA StepInv == ASSUME Inv, NEW p \in Proc, Step(p) PROVE Inv'
<1>1. CASE PutBegin(p)
  BY <1>1, PutBeginStep
<1>2. CASE Put(p)
  BY <1>2, PutStep
<1>3. CASE Unlinked(p)
  BY <1>3, UnlinkedStep
<1>4. CASE WriteBegin(p)
  BY <1>4, WriteBeginStep
<1>5. CASE WriteLock(p)
  BY <1>5, WriteLockStep
<1>6. CASE WriteFail(p)
  BY <1>6, WriteFailStep
<1>7. CASE WriteMap(p)
  BY <1>7, WriteMapStep
<1>8. CASE WriteZero(p)
  BY <1>8, WriteZeroStep
<1>9. CASE WriteCopy(p)
  BY <1>9, WriteCopyStep
<1>10. CASE WriteSize(p)
  BY <1>10, WriteSizeStep
<1>11. CASE WriteUnlock(p)
  BY <1>11, WriteUnlockStep
<1>12. CASE TruncFree(p)
  BY <1>12, TruncFreeStep
<1>13. CASE TruncEnd(p)
  BY <1>13, TruncEndStep
<1> QED
  BY <1>1, <1>2, <1>3, <1>4, <1>5, <1>6, <1>7, <1>8, <1>9, <1>10, <1>11, <1>12, <1>13 DEF Step

LEMMA StutterInv == ASSUME Inv, UNCHANGED vars PROVE Inv'
<1>1. /\ bitmap' = bitmap /\ data' = data /\ inode' = inode /\ file' = file /\ ofile' = ofile /\ alive' = alive
      /\ job' = job /\ panicked' = panicked /\ UNCHANGED logVars
  BY DEF vars, fsVars, logVars, tableVars
<1>2. First \in Proc /\ Only(First) /\ Out' = Out
  BY <1>1, FilesAssumption DEF Only, Out
<1>3. Types'
  BY <1>1 DEF Inv, Types
<1>4. LogInv'
  BY <1>1, <1>2, LogQuiet DEF Inv
<1>5. PanicInv'
  BY <1>1 DEF Inv, PanicInv, PanicsExplained, logVars
<1>6. TableInv'
  BY <1>1 DEF Inv, TableInv, RefsExact
<1>7. LockInv'
  BY <1>1 DEF Inv, LockInv, Using
<1>8. OwnInv'
  <2>1. Chunk(First)'
    BY <1>1, <1>2, ChunkOther DEF Inv, OwnInv
  <2> QED
    BY <1>1, <1>2, <2>1, OwnSame, Inside DEF Inv
<1> QED
  BY <1>3, <1>4, <1>5, <1>6, <1>7, <1>8 DEF Inv

LEMMA NextInv == Inv /\ [Next]_vars => Inv'
<1> SUFFICES ASSUME Inv, [Next]_vars PROVE Inv'
  OBVIOUS
<1>1. CASE UNCHANGED vars
  BY <1>1, StutterInv
<1>2. CASE Next
  <2>1. PICK p \in Proc :
          \/ Step(p) \/ Exit(p)
          \/ \E i \in Ino : Unlink(p, i) \/ \E create \in BOOLEAN : Open(p, i, create)
          \/ \E fd \in Fd : \/ Dup(p, fd) \/ Close(p, fd)
                            \/ \E n \in Sizes : Write(p, fd, n) \/ Read(p, fd, n)
          \/ \E q \in Proc : Fork(p, q)
    BY <1>2 DEF Next
  <2>2. CASE Step(p)
    BY <2>2, StepInv
  <2>3. CASE Exit(p)
    BY <2>3, ExitStep
  <2>4. ASSUME NEW i \in Ino, Unlink(p, i) PROVE Inv'
    BY <2>4, UnlinkStep
  <2>5. ASSUME NEW i \in Ino, NEW create \in BOOLEAN, Open(p, i, create) PROVE Inv'
    BY <2>5, OpenStep
  <2>6. ASSUME NEW fd \in Fd, Dup(p, fd) PROVE Inv'
    BY <2>6, DupStep
  <2>7. ASSUME NEW fd \in Fd, Close(p, fd) PROVE Inv'
    BY <2>7, CloseStep
  <2>8. ASSUME NEW fd \in Fd, NEW n \in Sizes, Write(p, fd, n) PROVE Inv'
    BY <2>8, WriteStep
  <2>9. ASSUME NEW fd \in Fd, NEW n \in Sizes, Read(p, fd, n) PROVE Inv'
    BY <2>9, ReadStep
  <2>10. ASSUME NEW q \in Proc, Fork(p, q) PROVE Inv'
    BY <2>10, ForkStep
  <2> QED
    BY <2>1, <2>2, <2>3, <2>4, <2>5, <2>6, <2>7, <2>8, <2>9, <2>10
<1> QED
  BY <1>1, <1>2

LEMMA InvAccounts == Inv => AccountsInv
<1> SUFFICES ASSUME Inv PROVE AccountsInv
  OBVIOUS
<1>1. TypeOK
  <2>1. bitmap \subseteq Block /\ panicked \in {"no", "log", "blocks", "free"}
    BY DEF Inv, Types, PanicInv
  <2>2. \A i \in Ino : inode[i].size \in 0..(MAXFILE * BSIZE)
    BY DEF Inv, Types, InodeRec
  <2>3. \A f \in File : file[f].ref \in 0..(NOFILE * Cardinality(Proc))
    <3> DEFINE n == Cardinality(Proc)
               m == NOFILE * n
    <3>1. IsFiniteSet(Fd) /\ Cardinality(Fd) = NOFILE
      <4>1. 0 \in Int /\ NOFILE - 1 \in Int /\ NOFILE \in Nat
        BY Consts
      <4>2. IsFiniteSet(0..(NOFILE - 1)) /\ Cardinality(0..(NOFILE - 1)) = IF 0 > NOFILE - 1 THEN 0 ELSE (NOFILE - 1) - 0 + 1
        BY <4>1, FS_Interval
      <4> QED
        BY <4>1, <4>2 DEF Fd
    <3>2. IsFiniteSet(Proc) /\ n \in Nat
      BY FilesAssumption, FS_CardinalityType
    <3>3. IsFiniteSet(Proc \X Fd) /\ Cardinality(Proc \X Fd) = n * Cardinality(Fd)
      BY <3>1, <3>2, FS_Product
    <3>4. Cardinality(Proc \X Fd) = m /\ m \in Nat
      <4>1. NOFILE \in Nat
        BY Consts
      <4> HIDE DEF n
      <4> QED
        BY <3>1, <3>2, <3>3, <4>1
    <3> SUFFICES ASSUME NEW f \in File PROVE file[f].ref \in 0..m
      OBVIOUS
    <3>5. Seats(f) \subseteq Proc \X Fd /\ file[f].ref = Cardinality(Seats(f))
      BY DEF Seats, Inv, TableInv, RefsExact
    <3>6. Cardinality(Seats(f)) <= Cardinality(Proc \X Fd) /\ Cardinality(Seats(f)) \in Nat
      BY <3>3, <3>5, SeatsFinite, FS_Subset
    <3> HIDE DEF m
    <3> QED
      BY <3>4, <3>5, <3>6
  <2>4. outstanding = Cardinality({p \in Proc : job[p].pc \notin {"user", "begin", "put_begin"}})
    BY DEF Inv, LogInv, Out
  <2> QED
    BY <2>1, <2>2, <2>3, <2>4 DEF TypeOK
<1>2. OneOwner
  BY DEF Inv, OwnInv, Owned, OneOwner
<1>3. RefsExact /\ PanicsExplained
  BY DEF Inv, TableInv, PanicInv
<1> QED
  BY <1>1, <1>2, <1>3 DEF AccountsInv

\* Whatever writes, truncations, forks, closes and unlinks run together: every
\* block that balloc() marked has exactly one owner and none is leaked,
\* ftable's counts are the descriptors that lead to a file, bfree() meets no
\* free block, and begin_op() keeps the log within its size.
THEOREM AccountsAreExact == Spec => []AccountsInv
<1>1. Spec => []Inv
  BY InitInv, NextInv, PTL DEF Spec
<1> QED
  BY <1>1, InvAccounts, PTL

-----------------------------------------------------------------------------
(* The bytes of files: a second invariant, on top of the first *)

Byte == 0..(MAXFILE * BSIZE - 1)
Copying == {"map", "zero", "copy", "size"}

\* Byte x of a file, through its addresses, is v.
Holds(i, x, v) == Addr(i, x \div BSIZE) # 0 /\ data[Addr(i, x \div BSIZE)][x % BSIZE] = v

\* Byte x of file i is one that the chunk of p has put in place already.
Wrote(p, i, x) == /\ job[p].pc \in Copying /\ job[p].i = i
                  /\ file[job[p].f].off <= x /\ x < file[job[p].f].off + job[p].tot
Cut(i) == \E p \in Proc : job[p].pc \in Truncating /\ job[p].i = i

\* A file has the bytes written to it, and in a chunk the bytes copied so far.
Bytes(i) == /\ Len(abs[i]) = inode[i].size
            /\ \A x \in Byte : /\ \A p \in Proc : Wrote(p, i, x) => Holds(i, x, Mark[p])
                               /\ (x < inode[i].size /\ \A p \in Proc : ~Wrote(p, i, x)) => Holds(i, x, abs[i][x + 1])
Plain(i) == plain[i] >= 0 => /\ Cut(i) \/ plain[i] = inode[i].size
                             /\ \A f, g \in Using(i) : f = g /\ file[f].off = plain[i]
OffInv == \A f \in File : file[f].ref > 0 => file[f].off <= inode[file[f].ip].size
HoldInv == /\ abs \in [Ino -> Seq(Nat)] /\ plain \in [Ino -> Int] /\ OffInv
           /\ \A i \in Ino : /\ ~Cut(i) => Bytes(i)
                             /\ Plain(i)
                             /\ ~inode[i].used => plain[i] = 0 /\ abs[i] = <<>>

\* A step that leaves what files hold, and lets nobody past the end of one.
FilesKept == \A f \in File : file'[f].ref > 0 =>
                /\ file[f].ref > 0 /\ file'[f].ip = file[f].ip /\ file'[f].off = file[f].off
SizesKept == \A i \in Ino : /\ inode'[i].size = inode[i].size
                            /\ ~inode'[i].used => ~inode[i].used
                            /\ Cut(i) => Cut(i)'
WroteKept == \A q \in Proc, i \in Ino, x \in Byte : ~Cut(i)' => (Wrote(q, i, x)' <=> Wrote(q, i, x))
HeldKept == \A i \in Ino, x \in Byte : \A v : ~Cut(i)' /\ Holds(i, x, v) => Holds(i, x, v)'

LEMMA BytesKept ==
    ASSUME NEW i \in Ino, Bytes(i), abs'[i] = abs[i], inode'[i].size = inode[i].size,
           \A q \in Proc, x \in Byte : Wrote(q, i, x)' <=> Wrote(q, i, x),
           \A x \in Byte : \A v : Holds(i, x, v) => Holds(i, x, v)'
    PROVE  Bytes(i)'
<1>1. Len(abs'[i]) = inode'[i].size
  BY DEF Bytes
<1>2. ASSUME NEW x \in Byte
      PROVE  /\ \A p \in Proc : Wrote(p, i, x)' => Holds(i, x, Mark[p])'
             /\ (x < inode'[i].size /\ \A p \in Proc : ~Wrote(p, i, x)') => Holds(i, x, abs[i][x + 1])'
  <2>1. /\ \A p \in Proc : Wrote(p, i, x) => Holds(i, x, Mark[p])
        /\ (x < inode[i].size /\ \A p \in Proc : ~Wrote(p, i, x)) => Holds(i, x, abs[i][x + 1])
    BY DEF Bytes
  <2> QED
    BY <2>1
<1>3. \A x \in Byte : \A v : v = abs[i][x + 1] => (Holds(i, x, v)' <=> Holds(i, x, abs[i][x + 1])')
  BY DEF Holds
<1> QED
  BY <1>1, <1>2, <1>3 DEF Bytes

LEMMA PlainKept ==
    ASSUME NEW i \in Ino, Plain(i), plain'[i] = plain[i], FilesKept, inode'[i].size = inode[i].size, Cut(i) => Cut(i)'
    PROVE  Plain(i)'
<1>1. \A f \in Using(i)' : f \in Using(i) /\ file'[f].off = file[f].off
  BY DEF FilesKept, Using
<1> QED
  BY <1>1 DEF Plain

LEMMA OffKept ==
    ASSUME TableInv, OffInv, FilesKept, \A i \in Ino : inode'[i].size = inode[i].size
    PROVE  OffInv'
BY DEF TableInv, OffInv, FilesKept

LEMMA HoldSame ==
    ASSUME Inv, HoldInv, abs' = abs, plain' = plain, FilesKept, SizesKept, WroteKept, HeldKept
    PROVE  HoldInv'
<1>1. OffInv'
  BY OffKept DEF Inv, HoldInv, SizesKept
<1>2. ASSUME NEW i \in Ino PROVE ~Cut(i)' => Bytes(i)'
  <2> SUFFICES ASSUME ~Cut(i)' PROVE Bytes(i)'
    OBVIOUS
  <2>1. Bytes(i) /\ abs'[i] = abs[i] /\ inode'[i].size = inode[i].size
    BY DEF HoldInv, SizesKept
  <2>2. /\ \A q \in Proc, x \in Byte : Wrote(q, i, x)' <=> Wrote(q, i, x)
        /\ \A x \in Byte : \A v : Holds(i, x, v) => Holds(i, x, v)'
    BY DEF WroteKept, HeldKept
  <2> QED
    BY <2>1, <2>2, BytesKept
<1>3. ASSUME NEW i \in Ino PROVE Plain(i)'
  BY PlainKept DEF HoldInv, SizesKept
<1>4. \A i \in Ino : ~inode'[i].used => plain'[i] = 0 /\ abs'[i] = <<>>
  BY DEF HoldInv, SizesKept
<1> QED
  BY <1>1, <1>2, <1>3, <1>4 DEF HoldInv

LEMMA WriterFile ==
    Inv => \A p \in Proc : job[p].pc \in Writing =>
             job[p].f \in File /\ file[job[p].f].off \in Nat /\ file[job[p].f].ref > 0 /\ job[p].i \in Ino /\ job[p].i = file[job[p].f].ip
<1> SUFFICES ASSUME Inv, NEW p \in Proc, job[p].pc \in Writing
             PROVE  job[p].f \in File /\ file[job[p].f].off \in Nat /\ file[job[p].f].ref > 0 /\ job[p].i \in Ino /\ job[p].i = file[job[p].f].ip
  OBVIOUS
<1>1. job[p].f \in File /\ job[p].f \in Using(job[p].i) /\ job[p].i \in Ino /\ job[p].i = file[job[p].f].ip
  BY WriterUses
<1>2. file[job[p].f] \in FileRec
  BY <1>1 DEF Inv, Types
<1> QED
  BY <1>1, <1>2 DEF FileRec, Using

LEMMA WriterFileNext ==
    Inv' => \A p \in Proc : job'[p].pc \in Writing =>
              job'[p].f \in File /\ file'[job'[p].f].off \in Nat /\ file'[job'[p].f].ref > 0 /\ job'[p].i \in Ino /\ job'[p].i = file'[job'[p].f].ip
<1>1. (Inv => \A p \in Proc : job[p].pc \in Writing =>
             job[p].f \in File /\ file[job[p].f].off \in Nat /\ file[job[p].f].ref > 0 /\ job[p].i \in Ino /\ job[p].i = file[job[p].f].ip)'
  BY WriterFile, PTL
<1> QED
  BY <1>1

\* Nothing of a chunk is in place before the first block of it is copied.
LEMMA NoneWrote ==
    ASSUME Inv, NEW p \in Proc, job[p].pc \notin Copying \/ job[p].tot = 0
    PROVE  \A i : \A x \in Byte : ~Wrote(p, i, x)
<1>1. job[p].pc \in Copying => file[job[p].f].off \in Nat
  BY WriterFile DEF Copying, Writing
<1>2. \A x \in Byte : x \in Int
  BY DEF Byte
<1> QED
  BY <1>1, <1>2 DEF Wrote

LEMMA NoneWroteNext ==
    ASSUME Inv', NEW p \in Proc, job'[p].pc \notin Copying \/ job'[p].tot = 0
    PROVE  \A i : \A x \in Byte : ~Wrote(p, i, x)'
<1>1. job'[p].pc \in Copying => file'[job'[p].f].off \in Nat
  BY WriterFileNext DEF Copying, Writing
<1>2. \A x \in Byte : x \in Int
  BY DEF Byte
<1> QED
  BY <1>1, <1>2 DEF Wrote

\* What p does leaves its chunk, and those of the others, as far as they were.
SameChunk(p) == \/ /\ job[p].pc \notin Copying \/ job[p].tot = 0
                   /\ job'[p].pc \notin Copying \/ job'[p].tot = 0
                \/ /\ job[p].pc \in Copying /\ job'[p].pc \in Copying
                   /\ job'[p].i = job[p].i /\ job'[p].f = job[p].f /\ job'[p].tot = job[p].tot

LEMMA WroteSame ==
    ASSUME Inv, Inv', NEW p \in Proc, Only(p), FilesKept, SameChunk(p)
    PROVE  \A q \in Proc, i \in Ino, x \in Byte : Wrote(q, i, x)' <=> Wrote(q, i, x)
<1> SUFFICES ASSUME NEW q \in Proc, NEW i \in Ino, NEW x \in Byte
             PROVE  Wrote(q, i, x)' <=> Wrote(q, i, x)
  OBVIOUS
<1>1. CASE /\ job[q].pc \in Copying /\ job'[q].pc \in Copying
           /\ job'[q].i = job[q].i /\ job'[q].f = job[q].f /\ job'[q].tot = job[q].tot
  <2>1. file'[job[q].f].off = file[job[q].f].off
    BY <1>1, WriterFileNext DEF FilesKept, Copying, Writing
  <2> QED
    BY <1>1, <2>1 DEF Wrote
<1>2. CASE q = p /\ (job[p].pc \notin Copying \/ job[p].tot = 0) /\ (job'[p].pc \notin Copying \/ job'[p].tot = 0)
  BY <1>2, NoneWrote, NoneWroteNext
<1>3. CASE q # p /\ job[q].pc \notin Copying
  BY <1>3 DEF Wrote, Only
<1> QED
  BY <1>1, <1>2, <1>3 DEF Only, SameChunk

LEMMA HeldSame ==
    ASSUME data' = data, \A i \in Ino : Cut(i)' \/ inode'[i].addrs = inode[i].addrs
    PROVE  HeldKept
<1> SUFFICES ASSUME NEW i \in Ino, NEW x \in Byte, NEW v, ~Cut(i)', Holds(i, x, v) PROVE Holds(i, x, v)'
  BY DEF HeldKept
<1>1. inode'[i].addrs = inode[i].addrs
  OBVIOUS
<1>2. \A n : Addr(i, n)' = Addr(i, n)
  BY <1>1 DEF Addr, Indirect
<1> QED
  BY <1>2 DEF Holds

\* A step that touches no byte and no length.
LEMMA HoldQuiet ==
    ASSUME Inv, Inv', HoldInv, NEW p \in Proc, Only(p), SameChunk(p), FilesKept, abs' = abs, plain' = plain, data' = data,
           \A i \in Ino : /\ inode'[i].size = inode[i].size
                          /\ ~inode'[i].used => ~inode[i].used
                          /\ Cut(i)' \/ inode'[i].addrs = inode[i].addrs,
           job[p].pc \in Truncating => job'[p].pc \in Truncating /\ job'[p].i = job[p].i
    PROVE  HoldInv'
<1>1. \A i \in Ino : Cut(i) => Cut(i)'
  BY DEF Cut, Only
<1>2. SizesKept
  BY <1>1 DEF SizesKept
<1>3. WroteKept
  BY WroteSame DEF WroteKept
<1>4. HeldKept
  BY HeldSame
<1> QED
  BY <1>2, <1>3, <1>4, HoldSame

LEMMA HoldCalm ==
    ASSUME Inv, Inv', HoldInv, NEW p \in Proc, Only(p), SameChunk(p), FilesKept, inode' = inode, abs' = abs, plain' = plain,
           data' = data, job[p].pc \notin Truncating
    PROVE  HoldInv'
BY HoldQuiet

LEMMA FilesSame == file' = file => FilesKept
BY DEF FilesKept

LEMMA JobTyped == Inv => job \in [Proc -> JobRec] /\ \A p \in Proc : job[p] \in JobRec
BY DEF Inv, Types

LEMMA BusySame ==
    ASSUME Inv, NEW i, NEW b, inode' = [inode EXCEPT ![i].busy = b]
    PROVE  \A k \in Ino : inode'[k].size = inode[k].size /\ inode'[k].used = inode[k].used /\ inode'[k].addrs = inode[k].addrs
BY DEF Inv, Types, InodeRec

LEMMA HoldPutBegin == ASSUME Inv, Inv', HoldInv, NEW p \in Proc, PutBegin(p) PROVE HoldInv'
<1>1. /\ job[p].pc = "put_begin" /\ job' = [job EXCEPT ![p].pc = "put"]
      /\ inode' = inode /\ abs' = abs /\ plain' = plain /\ data' = data /\ file' = file
  BY DEF PutBegin, At, Go, fsVars, tableVars
<1>2. Only(p) /\ job'[p].pc = "put"
  BY <1>1, JobTyped DEF Only, JobRec
<1>3. SameChunk(p) /\ job[p].pc \notin Truncating
  BY <1>1, <1>2 DEF SameChunk, Copying, Truncating
<1> QED
  BY <1>1, <1>2, <1>3, FilesSame, HoldCalm

LEMMA HoldWriteBegin == ASSUME Inv, Inv', HoldInv, NEW p \in Proc, WriteBegin(p) PROVE HoldInv'
<1>1. /\ job[p].pc = "begin" /\ job' = [job EXCEPT ![p].pc = "lock"]
      /\ inode' = inode /\ abs' = abs /\ plain' = plain /\ data' = data /\ file' = file
  BY DEF WriteBegin, At, Go, fsVars, tableVars
<1>2. Only(p) /\ job'[p].pc = "lock"
  BY <1>1, JobTyped DEF Only, JobRec
<1>3. SameChunk(p) /\ job[p].pc \notin Truncating
  BY <1>1, <1>2 DEF SameChunk, Copying, Truncating
<1> QED
  BY <1>1, <1>2, <1>3, FilesSame, HoldCalm

LEMMA HoldWriteFail == ASSUME Inv, Inv', HoldInv, NEW p \in Proc, WriteFail(p) PROVE HoldInv'
<1>1. /\ job[p].pc = "fail" /\ job' = [job EXCEPT ![p] = NoJob]
      /\ inode' = inode /\ abs' = abs /\ plain' = plain /\ data' = data /\ file' = file
  BY DEF WriteFail, At, fsVars, tableVars
<1>2. Only(p) /\ job'[p].pc = "user"
  BY <1>1, JobTyped DEF Only, NoJob
<1>3. SameChunk(p) /\ job[p].pc \notin Truncating
  BY <1>1, <1>2 DEF SameChunk, Copying, Truncating
<1> QED
  BY <1>1, <1>2, <1>3, FilesSame, HoldCalm

LEMMA HoldWriteLock == ASSUME Inv, Inv', HoldInv, NEW p \in Proc, WriteLock(p) PROVE HoldInv'
<1> DEFINE i == job[p].i
           n1 == Min({job[p].left, MAXCHUNK})
<1>1. /\ job[p].pc = "lock" /\ abs' = abs /\ plain' = plain /\ data' = data /\ file' = file
      /\ \/ job' = [job EXCEPT ![p].pc = "fail"] /\ inode' = inode
         \/ /\ job' = [job EXCEPT ![p].pc = "map", ![p].n1 = n1, ![p].tot = 0]
            /\ inode' = [inode EXCEPT ![i].busy = TRUE]
  BY DEF WriteLock, At, Go, tableVars
<1> HIDE DEF n1
<1>2. Only(p) /\ (job'[p].pc = "fail" \/ (job'[p].pc = "map" /\ job'[p].tot = 0))
  BY <1>1, JobTyped DEF Only, JobRec
<1>3. SameChunk(p) /\ job[p].pc \notin Truncating
  BY <1>1, <1>2 DEF SameChunk, Copying, Truncating
<1>4. \A k \in Ino : inode'[k].size = inode[k].size /\ inode'[k].used = inode[k].used /\ inode'[k].addrs = inode[k].addrs
  BY <1>1, BusySame
<1> QED
  BY <1>1, <1>2, <1>3, <1>4, FilesSame, HoldQuiet

LEMMA HoldWriteUnlock == ASSUME Inv, Inv', HoldInv, NEW p \in Proc, WriteUnlock(p) PROVE HoldInv'
<1> DEFINE i == job[p].i
           j == IF job[p].left > job[p].n1 THEN [job[p] EXCEPT !.pc = "begin", !.left = job[p].left - job[p].n1] ELSE NoJob
<1>1. /\ job[p].pc = "unlock" /\ abs' = abs /\ plain' = plain /\ data' = data /\ file' = file
      /\ job' = [job EXCEPT ![p] = j] /\ inode' = [inode EXCEPT ![i].busy = FALSE]
  BY DEF WriteUnlock, At, tableVars
<1>2. j.pc \in {"begin", "user"}
  BY JobTyped DEF JobRec, NoJob
<1> HIDE DEF j
<1>3. Only(p) /\ job'[p].pc \in {"begin", "user"}
  BY <1>1, <1>2, JobTyped DEF Only
<1>4. SameChunk(p) /\ job[p].pc \notin Truncating
  BY <1>1, <1>3 DEF SameChunk, Copying, Truncating
<1>5. \A k \in Ino : inode'[k].size = inode[k].size /\ inode'[k].used = inode[k].used /\ inode'[k].addrs = inode[k].addrs
  BY <1>1, BusySame
<1> QED
  BY <1>1, <1>3, <1>4, <1>5, FilesSame, HoldQuiet

LEMMA HoldPut == ASSUME Inv, Inv', HoldInv, NEW p \in Proc, Put(p) PROVE HoldInv'
<1> DEFINE i == job[p].i
<1>1. /\ job[p].pc = "put" /\ abs' = abs /\ plain' = plain /\ data' = data /\ file' = file
      /\ \/ job' = [job EXCEPT ![p].pc = "trunc", ![p].tot = 0] /\ inode' = [inode EXCEPT ![i].busy = TRUE]
         \/ job' = [job EXCEPT ![p] = NoJob] /\ inode' = inode
  BY DEF Put, At, tableVars
<1>2. Only(p) /\ job'[p].pc \in {"trunc", "user"}
  BY <1>1, JobTyped DEF Only, JobRec, NoJob
<1>3. SameChunk(p) /\ job[p].pc \notin Truncating
  BY <1>1, <1>2 DEF SameChunk, Copying, Truncating
<1>4. \A k \in Ino : inode'[k].size = inode[k].size /\ inode'[k].used = inode[k].used /\ inode'[k].addrs = inode[k].addrs
  BY <1>1, BusySame
<1> QED
  BY <1>1, <1>2, <1>3, <1>4, FilesSame, HoldQuiet

LEMMA HoldUnlink == ASSUME Inv, Inv', HoldInv, NEW p \in Proc, NEW i \in Ino, Unlink(p, i) PROVE HoldInv'
<1>1. /\ job[p].pc = "user" /\ job' = [job EXCEPT ![p].pc = "unlink", ![p].i = i]
      /\ inode' = inode /\ abs' = abs /\ plain' = plain /\ data' = data /\ file' = file
  BY DEF Unlink, CanCall, fsVars, tableVars
<1>2. Only(p) /\ job'[p].pc = "unlink"
  BY <1>1, JobTyped DEF Only, JobRec
<1>3. SameChunk(p) /\ job[p].pc \notin Truncating
  BY <1>1, <1>2 DEF SameChunk, Copying, Truncating
<1> QED
  BY <1>1, <1>2, <1>3, FilesSame, HoldCalm

LEMMA HoldUnlinked == ASSUME Inv, Inv', HoldInv, NEW p \in Proc, Unlinked(p) PROVE HoldInv'
<1> DEFINE i == job[p].i
<1>1. /\ job[p].pc = "unlink" /\ job' = [job EXCEPT ![p].pc = "put"] /\ inode' = [inode EXCEPT ![i].nlink = 0]
      /\ abs' = abs /\ plain' = plain /\ data' = data /\ file' = file
  BY DEF Unlinked, At, Go, tableVars
<1>2. Only(p) /\ job'[p].pc = "put"
  BY <1>1, JobTyped DEF Only, JobRec
<1>3. SameChunk(p) /\ job[p].pc \notin Truncating
  BY <1>1, <1>2 DEF SameChunk, Copying, Truncating
<1>4. \A k \in Ino : inode'[k].size = inode[k].size /\ inode'[k].used = inode[k].used /\ inode'[k].addrs = inode[k].addrs
  BY <1>1 DEF Inv, Types, InodeRec
<1> QED
  BY <1>1, <1>2, <1>3, <1>4, FilesSame, HoldQuiet

LEMMA HoldExit == ASSUME Inv, Inv', HoldInv, NEW p \in Proc, Exit(p) PROVE HoldInv'
<1>1. /\ job[p].pc = "user" /\ job' = job
      /\ inode' = inode /\ abs' = abs /\ plain' = plain /\ data' = data /\ file' = file
  BY DEF Exit, CanCall, fsVars
<1>2. Only(p) /\ SameChunk(p) /\ job[p].pc \notin Truncating
  BY <1>1 DEF Only, SameChunk, Copying, Truncating
<1> QED
  BY <1>1, <1>2, FilesSame, HoldCalm

LEMMA HoldWrite == ASSUME Inv, Inv', HoldInv, NEW p \in Proc, NEW fd \in Fd, NEW n \in Sizes, Write(p, fd, n) PROVE HoldInv'
<1> DEFINE j == [NoJob EXCEPT !.pc = "begin", !.f = ofile[p][fd], !.i = file[ofile[p][fd]].ip, !.left = n]
<1>1. /\ job[p].pc = "user" /\ job' = [job EXCEPT ![p] = j]
      /\ inode' = inode /\ abs' = abs /\ plain' = plain /\ data' = data /\ file' = file
  BY DEF Write, CanCall, fsVars, tableVars
<1>2. j.pc = "begin"
  BY DEF NoJob
<1> HIDE DEF j
<1>3. Only(p) /\ job'[p].pc = "begin"
  BY <1>1, <1>2, JobTyped DEF Only
<1>4. SameChunk(p) /\ job[p].pc \notin Truncating
  BY <1>1, <1>3 DEF SameChunk, Copying, Truncating
<1> QED
  BY <1>1, <1>3, <1>4, FilesSame, HoldCalm

LEMMA HoldWriteMap == ASSUME Inv, Inv', HoldInv, NEW p \in Proc, WriteMap(p) PROVE HoldInv'
<1> DEFINE n == Off(job[p]) \div BSIZE
           a == Addr(job[p].i, n)
           b == Min(Block \ bitmap)
           s == Slot(job[p].i, n)
<1>1. /\ job[p].pc = "map" /\ abs' = abs /\ plain' = plain /\ data' = data /\ inode' = inode /\ file' = file
      /\ \/ job' = [job EXCEPT ![p].pc = "copy", ![p].b = a]
         \/ job' = job
         \/ job' = [job EXCEPT ![p].pc = "zero", ![p].b = b, ![p].slot = s]
  BY DEF WriteMap, At, tableVars
<1> HIDE DEF a, b, s
<1>2. /\ Only(p) /\ job'[p].pc \in {"map", "copy", "zero"}
      /\ job'[p].i = job[p].i /\ job'[p].f = job[p].f /\ job'[p].tot = job[p].tot
  BY <1>1, JobTyped DEF Only, JobRec
<1>3. SameChunk(p) /\ job[p].pc \notin Truncating
  BY <1>1, <1>2 DEF SameChunk, Copying, Truncating
<1> QED
  BY <1>1, <1>2, <1>3, FilesSame, HoldCalm

LEMMA HoldTruncFree == ASSUME Inv, Inv', HoldInv, NEW p \in Proc, TruncFree(p) PROVE HoldInv'
<1> DEFINE i == job[p].i
           v == Victim(i, job[p].tot)
<1>1. /\ job[p].pc = "trunc" /\ abs' = abs /\ plain' = plain /\ data' = data /\ file' = file
      /\ \/ inode' = [inode EXCEPT ![i].addrs[v[2]] = 0] /\ job' = job
         \/ job' = [job EXCEPT ![p].tot = v[2] + 1] /\ inode' = inode
         \/ inode' = [inode EXCEPT ![i].addrs[NDIRECT] = 0] /\ job' = job
         \/ job' = [job EXCEPT ![p].pc = "trunc_end"] /\ inode' = inode
  BY DEF TruncFree, At, Go, tableVars
<1> HIDE DEF v
<1>2. i \in Ino
  BY <1>1, Inside DEF Holding, Truncating
<1>3. Only(p) /\ job'[p].pc \in {"trunc", "trunc_end"} /\ job'[p].i = i
  BY <1>1, JobTyped DEF Only, JobRec
<1>4. \A k \in Ino : k = i => Cut(k)'
  BY <1>3 DEF Cut, Truncating
<1>5. \A k \in Ino : /\ inode'[k].size = inode[k].size /\ inode'[k].used = inode[k].used
                     /\ k # i => inode'[k] = inode[k]
  <2>1. ASSUME NEW d, inode' = [inode EXCEPT ![i].addrs[d] = 0]
        PROVE  \A k \in Ino : /\ inode'[k].size = inode[k].size /\ inode'[k].used = inode[k].used
                              /\ k # i => inode'[k] = inode[k]
    <3> DEFINE a == [inode[i].addrs EXCEPT ![d] = 0]
    <3>1. inode' = [inode EXCEPT ![i].addrs = a]
      BY <2>1
    <3> HIDE DEF a
    <3> QED
      BY <1>2, <3>1 DEF Inv, Types, InodeRec
  <2> QED
    BY <1>1, <2>1
<1>6. SameChunk(p)
  BY <1>1, <1>3 DEF SameChunk, Copying
<1>7. \A k \in Ino : Cut(k)' \/ inode'[k].addrs = inode[k].addrs
  BY <1>4, <1>5
<1> QED
  BY <1>1, <1>3, <1>5, <1>6, <1>7, FilesSame, HoldQuiet DEF Truncating

LEMMA HoldDup == ASSUME Inv, Inv', HoldInv, NEW p \in Proc, NEW fd \in Fd, Dup(p, fd) PROVE HoldInv'
<1> DEFINE f == ofile[p][fd]
<1>1. /\ job[p].pc = "user" /\ job' = job /\ f # 0 /\ file' = [file EXCEPT ![f].ref = file[f].ref + 1]
      /\ inode' = inode /\ abs' = abs /\ plain' = plain /\ data' = data
  BY DEF Dup, CanCall, fsVars
<1>2. f \in File /\ file \in [File -> FileRec]
  BY <1>1 DEF Inv, Types, File
<1>3. file[f].ref > 0
  BY <1>2, HasRef DEF Inv, TableInv
<1> HIDE DEF f
<1>4. FilesKept
  BY <1>1, <1>2, <1>3 DEF FilesKept, FileRec
<1>5. Only(p) /\ SameChunk(p) /\ job[p].pc \notin Truncating
  BY <1>1 DEF Only, SameChunk, Copying, Truncating
<1> QED
  BY <1>1, <1>4, <1>5, HoldCalm

LEMMA HoldFork == ASSUME Inv, Inv', HoldInv, NEW p \in Proc, NEW q \in Proc, Fork(p, q) PROVE HoldInv'
<1>1. /\ job[p].pc = "user" /\ job' = job /\ file' = DupAll(p)
      /\ inode' = inode /\ abs' = abs /\ plain' = plain /\ data' = data
  BY DEF Fork, CanCall, fsVars
<1>2. FilesKept
  <2> SUFFICES ASSUME NEW f \in File, file'[f].ref > 0
               PROVE  file[f].ref > 0 /\ file'[f].ip = file[f].ip /\ file'[f].off = file[f].off
    BY DEF FilesKept
  <2> DEFINE n == Cardinality({fd \in Fd : ofile[p][fd] = f})
  <2>1. file'[f] = [file[f] EXCEPT !.ref = file[f].ref + n] /\ file[f] \in FileRec
    BY <1>1 DEF DupAll, Inv, Types
  <2>2. file[f].ref > 0
    <3>1. CASE {fd \in Fd : ofile[p][fd] = f} = {}
      <4>1. n = 0
        BY <3>1, FS_EmptySet
      <4> HIDE DEF n
      <4> QED
        BY <2>1, <4>1 DEF FileRec
    <3>2. CASE {fd \in Fd : ofile[p][fd] = f} # {}
      BY <3>2, HasRef DEF Inv, TableInv
    <3> QED
      BY <3>1, <3>2
  <2> HIDE DEF n
  <2> QED
    BY <2>1, <2>2 DEF FileRec
<1>3. Only(p) /\ SameChunk(p) /\ job[p].pc \notin Truncating
  BY <1>1 DEF Only, SameChunk, Copying, Truncating
<1> QED
  BY <1>1, <1>2, <1>3, HoldCalm

LEMMA HoldClose == ASSUME Inv, Inv', HoldInv, NEW p \in Proc, NEW fd \in Fd, Close(p, fd) PROVE HoldInv'
<1> DEFINE f == ofile[p][fd]
           i == file[f].ip
<1>1. /\ job[p].pc = "user" /\ f # 0 /\ file' = [file EXCEPT ![f].ref = file[f].ref - 1]
      /\ job' = job \/ job' = [job EXCEPT ![p].pc = "put_begin", ![p].i = i]
      /\ inode' = inode /\ abs' = abs /\ plain' = plain /\ data' = data
  BY DEF Close, CanCall, fsVars
<1>2. f \in File /\ file \in [File -> FileRec]
  BY <1>1 DEF Inv, Types, File
<1>3. file[f].ref > 0
  BY <1>2, HasRef DEF Inv, TableInv
<1> HIDE DEF f, i
<1>4. FilesKept
  BY <1>1, <1>2, <1>3 DEF FilesKept, FileRec
<1>5. Only(p) /\ job'[p].pc \in {"user", "put_begin"}
  BY <1>1, JobTyped DEF Only, JobRec
<1>6. SameChunk(p) /\ job[p].pc \notin Truncating
  BY <1>1, <1>5 DEF SameChunk, Copying, Truncating
<1> QED
  BY <1>1, <1>4, <1>5, <1>6, HoldCalm

LEMMA HoldTypes == HoldInv => abs \in [Ino -> Seq(Nat)] /\ plain \in [Ino -> Int]
BY DEF HoldInv

LEMMA InodeTyped == Inv => \A i \in Ino : inode[i] \in InodeRec /\ inode[i].size \in Nat
<1> SUFFICES ASSUME Inv, NEW i \in Ino PROVE inode[i] \in InodeRec /\ inode[i].size \in Nat
  OBVIOUS
<1>1. inode[i] \in InodeRec
  BY DEF Inv, Types
<1>2. inode[i].size \in 0..(MAXFILE * BSIZE)
  BY <1>1 DEF InodeRec
<1> QED
  BY <1>1, <1>2

LEMMA HoldOpen ==
    ASSUME Inv, Inv', HoldInv, NEW p \in Proc, NEW i \in Ino, NEW create \in BOOLEAN, Open(p, i, create)
    PROVE  HoldInv'
<1> DEFINE g == Min(FreeFiles)
           new == [NoInode EXCEPT !.used = TRUE, !.nlink = 1]
           opened == FreeFiles # {} /\ FreeFds(p) # {}
<1>1. /\ IF create THEN ~inode[i].used ELSE inode[i].nlink > 0
      /\ inode' = IF create THEN [inode EXCEPT ![i] = new] ELSE inode
      /\ IF opened
         THEN /\ file' = [file EXCEPT ![g] = [ref |-> 1, ip |-> i, off |-> 0]]
              /\ plain' = [plain EXCEPT ![i] = IF create THEN 0 ELSE -1]
         ELSE file' = file /\ plain' = plain
      /\ job' = job /\ data' = data /\ abs' = abs
  BY DEF Open
<1>2. /\ \A k \in Ino : /\ inode'[k].size = inode[k].size /\ inode'[k].addrs = inode[k].addrs
                        /\ k # i => inode'[k] = inode[k]
      /\ inode'[i].used /\ (create => inode[i] = NoInode) /\ inode[i].size \in Nat /\ (create => inode[i].size = 0)
  <2>1. inode \in [Ino -> InodeRec] /\ (~inode[i].used => inode[i] = NoInode)
    BY DEF Inv, Types, LockInv
  <2>2. new.used /\ new.size = NoInode.size /\ new.addrs = NoInode.addrs /\ NoInode.nlink = 0 /\ NoInode.size = 0
    BY DEF NoInode
  <2> HIDE DEF new
  <2>3. inode[i].size \in Nat
    BY InodeTyped
  <2>4. CASE create
    BY <1>1, <2>1, <2>2, <2>3, <2>4
  <2>5. CASE ~create
    BY <1>1, <2>1, <2>2, <2>3, <2>5
  <2> QED
    BY <2>4, <2>5
<1> HIDE DEF new
<1>3. opened => g \in File /\ file[g].ref = 0
  <2>1. FreeFiles \in SUBSET Nat
    BY DEF FreeFiles, File
  <2>2. FreeFiles # {} => g \in FreeFiles
    BY <2>1, MinIn
  <2> QED
    BY <2>2 DEF FreeFiles
<1> HIDE DEF g
<1>4. /\ opened => \A f \in File : f # g => file'[f] = file[f]
      /\ opened => file'[g].ref = 1 /\ file'[g].ip = i /\ file'[g].off = 0
      /\ ~opened => file' = file
  BY <1>1, <1>3 DEF Inv, Types
<1>5. \A f \in File : file'[f].ref > 0 => (opened /\ f = g) \/ (file[f].ref > 0 /\ file'[f] = file[f])
  BY <1>4
<1>6. \A k \in Ino : Cut(k)' <=> Cut(k)
  BY <1>1 DEF Cut
<1>7. ASSUME NEW q \in Proc, NEW k \in Ino, NEW x \in Byte PROVE Wrote(q, k, x)' <=> Wrote(q, k, x)
  <2>1. CASE job[q].pc \in Copying
    <3>1. job[q].f \in File /\ file[job[q].f].ref > 0
      BY <2>1, WriterFile DEF Copying, Writing
    <3>2. file'[job[q].f] = file[job[q].f]
      BY <1>3, <1>4, <3>1
    <3> QED
      BY <1>1, <3>2 DEF Wrote
  <2>2. CASE job[q].pc \notin Copying
    BY <1>1, <2>2 DEF Wrote
  <2> QED
    BY <2>1, <2>2
<1>8. HeldKept
  BY <1>1, <1>2, HeldSame
<1>9. ASSUME NEW k \in Ino, ~Cut(k)' PROVE Bytes(k)'
  <2>1. Bytes(k) /\ abs'[k] = abs[k] /\ inode'[k].size = inode[k].size
    BY <1>1, <1>2, <1>6, <1>9 DEF HoldInv
  <2>2. \A x \in Byte : \A v : Holds(k, x, v) => Holds(k, x, v)'
    BY <1>8, <1>9 DEF HeldKept
  <2> QED
    BY <1>7, <2>1, <2>2, BytesKept
<1>10. ASSUME NEW k \in Ino PROVE Plain(k)'
  <2>1. CASE opened /\ k = i
    <3>1. CASE create
      <4>1. plain'[i] = 0 /\ inode'[i].size = 0
        BY <1>1, <1>2, <2>1, <3>1, HoldTypes
      <4>2. \A f \in Using(i) : FALSE
        BY <1>1, <3>1 DEF Using, Inv, TableInv, RefsExact
      <4>3. \A f \in Using(i)' : f = g
        BY <1>5, <4>2 DEF Using
      <4> QED
        BY <1>4, <2>1, <4>1, <4>3 DEF Plain
    <3>2. CASE ~create
      <4>1. plain'[i] = -1
        BY <1>1, <2>1, <3>2, HoldTypes
      <4> QED
        BY <2>1, <4>1 DEF Plain
    <3> QED
      BY <3>1, <3>2
  <2>2. CASE ~(opened /\ k = i)
    <3>1. plain'[k] = plain[k] /\ Plain(k) /\ inode'[k].size = inode[k].size
      BY <1>1, <1>2, <2>2, HoldTypes DEF HoldInv
    <3>2. \A f \in Using(k)' : f \in Using(k) /\ file'[f].off = file[f].off
      BY <1>4, <1>5, <2>2 DEF Using
    <3> QED
      BY <1>6, <3>1, <3>2 DEF Plain
  <2> QED
    BY <2>1, <2>2
<1>11. \A k \in Ino : ~inode'[k].used => plain'[k] = 0 /\ abs'[k] = <<>>
  <2> SUFFICES ASSUME NEW k \in Ino, ~inode'[k].used PROVE plain'[k] = 0 /\ abs'[k] = <<>>
    OBVIOUS
  <2>1. k # i /\ ~inode[k].used
    BY <1>2
  <2> QED
    BY <1>1, <2>1, HoldTypes DEF HoldInv
<1>12. OffInv'
  <2> SUFFICES ASSUME NEW f \in File, file'[f].ref > 0 PROVE file'[f].off <= inode'[file'[f].ip].size
    BY DEF OffInv
  <2>1. CASE opened /\ f = g
    BY <1>2, <1>4, <2>1
  <2>2. CASE file[f].ref > 0 /\ file'[f] = file[f]
    BY <1>2, <2>2 DEF HoldInv, OffInv, Inv, TableInv
  <2> QED
    BY <1>5, <2>1, <2>2
<1>13. abs' \in [Ino -> Seq(Nat)] /\ plain' \in [Ino -> Int]
  BY <1>1, HoldTypes
<1> QED
  BY <1>9, <1>10, <1>11, <1>12, <1>13 DEF HoldInv

LEMMA HoldRead ==
    ASSUME Inv, Inv', HoldInv, NEW p \in Proc, NEW fd \in Fd, NEW n \in Sizes, Read(p, fd, n)
    PROVE  HoldInv'
<1> DEFINE f == ofile[p][fd]
           i == file[f].ip
           room == inode[i].size - file[f].off
           got == Min({n, room})
<1>1. /\ f # 0 /\ ~inode[i].busy /\ file' = [file EXCEPT ![f].off = file[f].off + got] /\ plain' = [plain EXCEPT ![i] = -1]
      /\ job' = job /\ data' = data /\ inode' = inode /\ abs' = abs
  BY DEF Read, fsVars
<1>2. f \in File /\ file \in [File -> FileRec]
  BY <1>1 DEF Inv, Types, File
<1>3. file[f].ref > 0 /\ i \in Ino /\ file[f].off \in Nat /\ inode[i].size \in Nat /\ file[f].off <= inode[i].size
  <2>1. file[f].ref > 0
    BY <1>2, HasRef DEF Inv, TableInv
  <2>2. i \in Ino /\ file[f].off <= inode[i].size
    BY <1>2, <2>1 DEF HoldInv, OffInv, Inv, TableInv
  <2> QED
    BY <1>2, <2>1, <2>2, InodeTyped DEF FileRec
<1>4. got \in Nat /\ got <= room
  <2>1. n \in Nat /\ room \in Nat
    BY <1>3, FilesAssumption
  <2> HIDE DEF room
  <2> QED
    BY <2>1, MinTwo
<1>5. file[f].off + got \in Nat /\ file[f].off + got <= inode[i].size
  <2> HIDE DEF got
  <2> QED
    BY <1>3, <1>4
<1> HIDE DEF got
<1>6. /\ file'[f].off = file[f].off + got
      /\ \A h \in File : /\ file'[h].ref = file[h].ref /\ file'[h].ip = file[h].ip
                         /\ h # f => file'[h] = file[h]
  BY <1>1, <1>2, <1>5 DEF FileRec
<1>7. \A k \in Ino : Cut(k)' <=> Cut(k)
  BY <1>1 DEF Cut
<1>8. ASSUME NEW q \in Proc, NEW k \in Ino, NEW x \in Byte PROVE Wrote(q, k, x)' <=> Wrote(q, k, x)
  <2>1. CASE job[q].pc \in Copying
    <3>1. job[q].f \in File /\ job[q].i = file[job[q].f].ip /\ job[q].i \in Ino
      BY <2>1, WriterFile DEF Copying, Writing
    <3>2. inode[job[q].i].busy
      BY <2>1, <3>1 DEF Inv, LockInv, Copying, Holding, Filling
    <3>3. file'[job[q].f] = file[job[q].f]
      BY <1>1, <1>6, <3>1, <3>2
    <3> QED
      BY <1>1, <3>3 DEF Wrote
  <2>2. CASE job[q].pc \notin Copying
    BY <1>1, <2>2 DEF Wrote
  <2> QED
    BY <2>1, <2>2
<1>9. HeldKept
  BY <1>1, HeldSame
<1>10. ASSUME NEW k \in Ino, ~Cut(k)' PROVE Bytes(k)'
  <2>1. Bytes(k) /\ abs'[k] = abs[k] /\ inode'[k].size = inode[k].size
    BY <1>1, <1>7, <1>10 DEF HoldInv
  <2>2. \A x \in Byte : \A v : Holds(k, x, v) => Holds(k, x, v)'
    BY <1>9, <1>10 DEF HeldKept
  <2> QED
    BY <1>8, <2>1, <2>2, BytesKept
<1>11. ASSUME NEW k \in Ino PROVE Plain(k)'
  <2>1. CASE k = i
    <3>1. plain'[k] = -1
      BY <1>1, <2>1, HoldTypes
    <3> QED
      BY <3>1 DEF Plain
  <2>2. CASE k # i
    <3>1. plain'[k] = plain[k] /\ Plain(k)
      BY <1>1, <2>2, HoldTypes DEF HoldInv
    <3>2. \A h \in Using(k)' : h \in Using(k) /\ file'[h].off = file[h].off
      BY <1>6, <2>2 DEF Using
    <3> QED
      BY <1>1, <1>7, <3>1, <3>2 DEF Plain
  <2> QED
    BY <2>1, <2>2
<1>12. \A k \in Ino : ~inode'[k].used => plain'[k] = 0 /\ abs'[k] = <<>>
  <2>1. inode[i].used
    BY <1>2, <1>3 DEF Inv, TableInv, RefsExact
  <2> QED
    BY <1>1, <2>1, HoldTypes DEF HoldInv
<1>13. OffInv'
  <2> HIDE DEF f, i
  <2> QED
    BY <1>1, <1>5, <1>6 DEF HoldInv, OffInv, i
<1>14. abs' \in [Ino -> Seq(Nat)] /\ plain' \in [Ino -> Int]
  <2>1. abs' = abs /\ plain' = [plain EXCEPT ![i] = -1] /\ -1 \in Int
    BY <1>1
  <2> HIDE DEF f, i
  <2> QED
    BY <2>1, HoldTypes
<1> QED
  BY <1>10, <1>11, <1>12, <1>13, <1>14 DEF HoldInv

LEMMA HoldTruncEnd == ASSUME Inv, Inv', HoldInv, NEW p \in Proc, TruncEnd(p) PROVE HoldInv'
<1> DEFINE i == job[p].i
<1>1. /\ job[p].pc = "trunc_end" /\ inode' = [inode EXCEPT ![i] = NoInode]
      /\ abs' = [abs EXCEPT ![i] = <<>>] /\ plain' = [plain EXCEPT ![i] = 0]
      /\ job' = [job EXCEPT ![p] = NoJob] /\ data' = data /\ file' = file
  BY DEF TruncEnd, At, tableVars
<1>2. i \in Ino /\ Using(i) = {}
  BY <1>1, Inside DEF Holding, Truncating, Inv, LockInv
<1>3. Only(p) /\ job'[p].pc = "user"
  BY <1>1, JobTyped DEF Only, NoJob
<1>4. inode[i].addrs = NoInode.addrs
  <2>1. inode[i].addrs \in [0..NDIRECT -> Nat]
    BY <1>2, InodeTyped DEF InodeRec
  <2>2. \A n \in 0..NDIRECT : inode[i].addrs[n] = 0
    BY <1>1 DEF Inv, OwnInv, Chunk
  <2> QED
    BY <2>1, <2>2 DEF NoInode
<1>5. /\ \A k \in Ino : inode'[k].addrs = inode[k].addrs
      /\ \A k \in Ino : k # i => inode'[k] = inode[k] /\ abs'[k] = abs[k] /\ plain'[k] = plain[k]
      /\ inode'[i].size = 0 /\ abs'[i] = <<>> /\ plain'[i] = 0
  <2>1. inode \in [Ino -> InodeRec]
    BY DEF Inv, Types
  <2>2. NoInode.size = 0
    BY DEF NoInode
  <2> QED
    BY <1>1, <1>2, <1>4, <2>1, <2>2, HoldTypes
<1>6. \A k \in Ino : k # i => (Cut(k)' <=> Cut(k))
  BY <1>1, <1>3 DEF Cut, Only, Truncating
<1>7. FilesKept /\ SameChunk(p)
  BY <1>1, <1>3, FilesSame DEF SameChunk, Copying
<1>8. \A q \in Proc, k \in Ino, x \in Byte : Wrote(q, k, x)' <=> Wrote(q, k, x)
  BY <1>3, <1>7, WroteSame
<1>9. HeldKept
  BY <1>1, <1>5, HeldSame
<1>10. ASSUME NEW k \in Ino, k # i, ~Cut(k)' PROVE Bytes(k)'
  <2>1. Bytes(k) /\ abs'[k] = abs[k] /\ inode'[k].size = inode[k].size
    BY <1>5, <1>6, <1>10 DEF HoldInv
  <2>2. \A x \in Byte : \A v : Holds(k, x, v) => Holds(k, x, v)'
    BY <1>9, <1>10 DEF HeldKept
  <2> QED
    BY <1>8, <2>1, <2>2, BytesKept
<1>11. ASSUME NEW k \in Ino, k = i PROVE Bytes(k)'
  <2>1. ASSUME NEW q \in Proc, NEW x \in Byte PROVE ~Wrote(q, k, x)'
    <3>1. job'[q].pc \in Copying /\ job'[q].i = k => q # p /\ job[q].pc \in Copying /\ job[q].i = i
      BY <1>3, <1>11 DEF Only, Copying
    <3>2. job[q].pc \in Copying /\ job[q].i = i => q = p
      BY <1>1 DEF Inv, LockInv, Holding, Filling, Truncating, Copying
    <3> QED
      BY <3>1, <3>2 DEF Wrote
  <2>2. \A x \in Byte : ~(x < 0)
    BY DEF Byte
  <2>3. Len(abs'[k]) = inode'[k].size
    BY <1>5, <1>11
  <2> QED
    BY <1>5, <1>11, <2>1, <2>2, <2>3 DEF Bytes
<1>12. ASSUME NEW k \in Ino PROVE Plain(k)'
  <2>1. Using(k)' = Using(k)
    BY <1>1 DEF Using
  <2>2. CASE k = i
    BY <1>2, <1>5, <2>1, <2>2 DEF Plain
  <2>3. CASE k # i
    BY <1>1, <1>5, <1>6, <2>1, <2>3 DEF HoldInv, Plain
  <2> QED
    BY <2>2, <2>3
<1>13. \A k \in Ino : ~inode'[k].used => plain'[k] = 0 /\ abs'[k] = <<>>
  BY <1>5 DEF HoldInv
<1>14. OffInv'
  <2>1. \A f \in File : file[f].ref > 0 => file[f].ip # i /\ file[f].ip \in Ino
    BY <1>2 DEF Using, Inv, TableInv
  <2> QED
    BY <1>1, <1>5, <2>1 DEF OffInv, HoldInv
<1>15. abs' \in [Ino -> Seq(Nat)] /\ plain' \in [Ino -> Int]
  <2>1. abs' = [abs EXCEPT ![i] = <<>>] /\ plain' = [plain EXCEPT ![i] = 0] /\ <<>> \in Seq(Nat) /\ 0 \in Int
    BY <1>1
  <2> HIDE DEF i
  <2>2. abs' \in [Ino -> Seq(Nat)]
    BY <2>1, HoldTypes
  <2>3. plain' \in [Ino -> Int]
    BY <2>1, HoldTypes
  <2> QED
    BY <2>2, <2>3
<1> QED
  BY <1>10, <1>11, <1>12, <1>13, <1>14, <1>15 DEF HoldInv

\* Block m of a file and its place among the addresses.
Pos(m) == IF m < NDIRECT THEN m ELSE m + 1

LEMMA AddrPlace ==
    ASSUME Inv, NEW i \in Ino, ~Cut(i), NEW m \in 0..(MAXFILE - 1), Addr(i, m) # 0
    PROVE  /\ Addr(i, m) \in Block /\ <<i, Pos(m), Addr(i, m)>> \in Places
           /\ Pos(m) \in Nat /\ Pos(m) # NDIRECT /\ Pos(m) # -1
           /\ m >= NDIRECT => /\ Indirect(i) # 0 /\ Indirect(i) \in Block
                              /\ m - NDIRECT \in 0..(BSIZE - 1)
<1>1. NDIRECT \in Nat /\ NINDIRECT \in Nat /\ NINDIRECT <= BSIZE /\ BSIZE \in Nat /\ MAXFILE = NDIRECT + NINDIRECT
  BY Consts DEF MAXFILE
<1>2. m \in Nat /\ m < NDIRECT + NINDIRECT
  BY <1>1
<1>3. CASE m < NDIRECT
  <2>1. m \in 0..NDIRECT /\ Addr(i, m) = inode[i].addrs[m] /\ Pos(m) = m
    BY <1>1, <1>2, <1>3 DEF Addr, Pos
  <2>2. <<i, m, inode[i].addrs[m]>> \in Places /\ inode[i].addrs[m] \in Block
    BY <2>1, PlaceOfAddr
  <2> QED
    BY <1>1, <1>2, <1>3, <2>1, <2>2
<1>4. CASE ~(m < NDIRECT)
  <2> DEFINE k == m - NDIRECT
  <2>1. k \in 0..(NINDIRECT - 1) /\ k \in 0..(BSIZE - 1) /\ Pos(m) = NDIRECT + 1 + k /\ k \in Nat
    BY <1>1, <1>2, <1>4 DEF Pos
  <2>2. Indirect(i) # 0 /\ Addr(i, m) = data[Indirect(i)][k]
    BY <1>4 DEF Addr
  <2> HIDE DEF k
  <2>3. k \in Entries(i)
    BY <2>1 DEF Entries, Cut, Truncating
  <2>4. <<i, NDIRECT + 1 + k, Addr(i, m)>> \in Places /\ Addr(i, m) \in Block
    BY <2>2, <2>3, PlaceOfEntry
  <2>5. Indirect(i) \in Block
    BY <2>2, IndirectOwn
  <2> QED
    BY <1>1, <2>1, <2>2, <2>4, <2>5 DEF k
<1> QED
  BY <1>3, <1>4

LEMMA ByteBlock ==
    ASSUME NEW x \in Byte
    PROVE  /\ x \in Nat /\ x \div BSIZE \in 0..(MAXFILE - 1) /\ x % BSIZE \in 0..(BSIZE - 1)
           /\ x = (x \div BSIZE) * BSIZE + (x % BSIZE)
<1> DEFINE m == x \div BSIZE
           r == x % BSIZE
           top == MAXFILE * BSIZE
<1>1. BSIZE \in Nat \ {0} /\ MAXFILE \in Nat /\ top \in Nat
  BY FilesAssumption, Consts
<1>2. x \in Nat /\ x < top
  <2>1. x \in 0..(top - 1)
    BY DEF Byte
  <2> HIDE DEF top
  <2> QED
    BY <1>1, <2>1
<1>3. m \in Nat /\ r \in 0..(BSIZE - 1) /\ x = m * BSIZE + r
  BY <1>1, <1>2, Divide
<1> HIDE DEF m, r
<1>4. m < MAXFILE
  <2> SUFFICES ASSUME m >= MAXFILE PROVE FALSE
    BY <1>1, <1>3
  <2> DEFINE d == m - MAXFILE
  <2>1. d \in Nat /\ m = MAXFILE + d
    BY <1>1, <1>3
  <2> HIDE DEF d
  <2>2. m * BSIZE = MAXFILE * BSIZE + d * BSIZE /\ d * BSIZE \in Nat
    BY <1>1, <2>1
  <2>3. x >= top
    <3> DEFINE y == d * BSIZE
    <3>1. y \in Nat /\ x = top + y + r /\ r \in Nat
      BY <1>1, <1>3, <2>2
    <3> HIDE DEF y, top
    <3> QED
      BY <1>1, <3>1
  <2> QED
    BY <1>1, <1>2, <2>3
<1> QED
  BY <1>1, <1>2, <1>3, <1>4 DEF m, r

\* A byte stays if its block keeps its address and contents.
LEMMA HoldsKept ==
    ASSUME NEW i \in Ino, NEW x \in Byte, NEW v, Holds(i, x, v), NEW m, m = x \div BSIZE,
           Addr(i, m)' = Addr(i, m), data'[Addr(i, m)] = data[Addr(i, m)]
    PROVE  Holds(i, x, v)'
BY DEF Holds

\* A file whose blocks a step does not move keeps their addresses.
LEMMA AddrKept ==
    ASSUME NEW k \in Ino, NEW m \in Nat,
           m < NDIRECT => inode'[k].addrs[m] = inode[k].addrs[m],
           m >= NDIRECT => /\ Indirect(k)' = Indirect(k) /\ Indirect(k) # 0
                           /\ data'[Indirect(k)][m - NDIRECT] = data[Indirect(k)][m - NDIRECT]
    PROVE  Addr(k, m)' = Addr(k, m)
<1>1. NDIRECT \in Nat
  BY Consts
<1>2. CASE m < NDIRECT
  BY <1>2 DEF Addr
<1>3. CASE m >= NDIRECT
  BY <1>1, <1>3 DEF Addr
<1> QED
  BY <1>1, <1>2, <1>3

\* The end of bmap(): a new block, of zeros, where there was none.
LEMMA HoldWriteZero == ASSUME Inv, Inv', HoldInv, NEW p \in Proc, WriteZero(p) PROVE HoldInv'
<1> DEFINE i == job[p].i
           b == job[p].b
           n == Off(job[p]) \div BSIZE
           s == job[p].slot
           c == Indirect(i)
<1>1. /\ job[p].pc = "zero" /\ inode \in [Ino -> InodeRec] /\ data \in [Block -> [0..(BSIZE - 1) -> Nat]]
      /\ Addr(i, n) = 0 /\ s = Slot(i, n) /\ Enter(i, n, s, b, NoBytes)
      /\ job' = [job EXCEPT ![p].pc = "map", ![p].b = 0]
      /\ file' = file /\ abs' = abs /\ plain' = plain
  BY DEF Inv, Types, WriteZero, At, bzero, tableVars, OwnInv, Chunk
<1>2. /\ i \in Ino /\ n \in Nat /\ b \in Block /\ b # 0 /\ <<p, -1, b>> \in Places
      /\ n >= NDIRECT => n - NDIRECT \in 0..(BSIZE - 1)
      /\ n < NDIRECT => n \in 0..NDIRECT
  BY <1>1, WriterUses, PlaceOfNew, Position, Consts DEF Writing
<1>3. NDIRECT \in Nat /\ NoBytes \in [0..(BSIZE - 1) -> Nat]
  BY Consts DEF NoBytes
<1> HIDE DEF n
<1>4. Only(p) /\ job'[p].pc = "map" /\ job'[p].i = i /\ job'[p].f = job[p].f /\ job'[p].tot = job[p].tot
  BY <1>1, JobTyped DEF Only, JobRec
<1>5. SameChunk(p)
  BY <1>1, <1>4 DEF SameChunk, Copying
\* Where the new block goes.
<1> DEFINE d == IF s = "indirect" THEN NDIRECT ELSE n
<1>6. \/ /\ inode' = [inode EXCEPT ![i].addrs[d] = b] /\ data' = [data EXCEPT ![b] = NoBytes]
         /\ d \in 0..NDIRECT /\ inode[i].addrs[d] = 0
      \/ /\ inode' = inode /\ data' = [data EXCEPT ![b] = NoBytes, ![c][n - NDIRECT] = b]
         /\ n >= NDIRECT /\ c # 0 /\ c \in Block /\ c # b /\ data[c][n - NDIRECT] = 0
  <2>1. CASE s = "block" /\ n >= NDIRECT
    <3>1. c # 0 /\ data[c][n - NDIRECT] = 0
      BY <1>1, <1>2, <1>3, <2>1 DEF Slot, Addr
    <3>2. c \in Block /\ c # b
      BY <1>1, <1>2, <3>1, IndirectOwn
    <3> QED
      BY <1>1, <2>1, <3>1, <3>2 DEF Enter
  <2>2. CASE ~(s = "block" /\ n >= NDIRECT)
    <3>1. inode' = [inode EXCEPT ![i].addrs[d] = b] /\ data' = [data EXCEPT ![b] = NoBytes]
      BY <1>1, <2>2 DEF Enter
    <3>2. d \in 0..NDIRECT /\ inode[i].addrs[d] = 0
      <4>1. CASE n < NDIRECT
        BY <1>1, <1>2, <1>3, <4>1 DEF Slot, Addr
      <4>2. CASE ~(n < NDIRECT)
        BY <1>1, <1>2, <1>3, <2>2, <4>2 DEF Slot, Indirect
      <4> QED
        BY <4>1, <4>2
    <3> QED
      BY <3>1, <3>2
  <2> QED
    BY <2>1, <2>2
<1> HIDE DEF d, s
<1>7. /\ \A k \in Ino : /\ inode'[k].size = inode[k].size /\ inode'[k].used = inode[k].used
                        /\ \A m \in 0..NDIRECT : inode[k].addrs[m] # 0 => inode'[k].addrs[m] = inode[k].addrs[m]
      /\ \A a \in Block : a # b => \A m \in 0..(BSIZE - 1) : a # c \/ data[a][m] # 0 => data'[a][m] = data[a][m]
      /\ \A a \in Block : a # b /\ (a = c => c = 0) => data'[a] = data[a]
  <2>1. CASE /\ inode' = [inode EXCEPT ![i].addrs[d] = b] /\ data' = [data EXCEPT ![b] = NoBytes]
             /\ d \in 0..NDIRECT /\ inode[i].addrs[d] = 0
    <3> DEFINE a == [inode[i].addrs EXCEPT ![d] = b]
    <3>1. inode[i].addrs \in [0..NDIRECT -> Nat]
      BY <1>2, InodeTyped DEF InodeRec
    <3>2. inode' = [inode EXCEPT ![i].addrs = a] /\ \A m \in 0..NDIRECT : m # d => a[m] = inode[i].addrs[m]
      BY <2>1, <3>1
    <3> HIDE DEF a
    <3>3. \A k \in Ino : /\ inode'[k].size = inode[k].size /\ inode'[k].used = inode[k].used
                         /\ k # i => inode'[k] = inode[k]
                         /\ k = i => inode'[k].addrs = a
      BY <1>1, <1>2, <3>2 DEF InodeRec
    <3>4. \A k \in Ino : \A m \in 0..NDIRECT : inode[k].addrs[m] # 0 => inode'[k].addrs[m] = inode[k].addrs[m]
      BY <2>1, <3>2, <3>3
    <3>5. \A x \in Block : x # b => data'[x] = data[x]
      BY <1>1, <1>2, <2>1
    <3> QED
      BY <3>3, <3>4, <3>5
  <2>2. CASE /\ inode' = inode /\ data' = [data EXCEPT ![b] = NoBytes, ![c][n - NDIRECT] = b]
             /\ n >= NDIRECT /\ c # 0 /\ c \in Block /\ c # b /\ data[c][n - NDIRECT] = 0
    <3> DEFINE one == [data EXCEPT ![b] = NoBytes]
    <3>1. one \in [Block -> [0..(BSIZE - 1) -> Nat]] /\ \A a \in Block : a # b => one[a] = data[a]
      BY <1>1, <1>2, <1>3
    <3>2. data' = [one EXCEPT ![c][n - NDIRECT] = b]
      BY <2>2
    <3> HIDE DEF one
    <3>3. \A a \in Block : a # c => data'[a] = one[a]
      BY <2>2, <3>1, <3>2
    <3>4. \A m \in 0..(BSIZE - 1) : m # n - NDIRECT => data'[c][m] = data[c][m]
      <4> DEFINE g == [one[c] EXCEPT ![n - NDIRECT] = b]
      <4>1. data' = [one EXCEPT ![c] = g]
        BY <3>2
      <4>2. \A m \in 0..(BSIZE - 1) : m # n - NDIRECT => g[m] = one[c][m]
        <5> DEFINE o == one[c]
        <5>1. o \in [0..(BSIZE - 1) -> Nat] /\ g = [o EXCEPT ![n - NDIRECT] = b]
          BY <2>2, <3>1
        <5> HIDE DEF o, g
        <5> QED
          BY <5>1 DEF o
      <4> HIDE DEF g
      <4> QED
        BY <2>2, <3>1, <4>1, <4>2
    <3> HIDE DEF c
    <3>5. \A a \in Block : a # b => \A m \in 0..(BSIZE - 1) : a # c \/ data[a][m] # 0 => data'[a][m] = data[a][m]
      BY <2>2, <3>1, <3>3, <3>4
    <3> QED
      BY <2>2, <3>1, <3>3, <3>5
  <2> QED
    BY <1>6, <2>1, <2>2
<1> HIDE DEF i, b, c
<1>8. ASSUME NEW k \in Ino, ~Cut(k), NEW m \in 0..(MAXFILE - 1), Addr(k, m) # 0
      PROVE  Addr(k, m)' = Addr(k, m) /\ data'[Addr(k, m)] = data[Addr(k, m)]
  <2> DEFINE a == Addr(k, m)
  <2>1. /\ a \in Block /\ <<k, Pos(m), a>> \in Places /\ Pos(m) # NDIRECT /\ Pos(m) # -1 /\ m \in Nat
        /\ m >= NDIRECT => /\ Indirect(k) # 0 /\ Indirect(k) \in Block /\ m - NDIRECT \in 0..(BSIZE - 1)
    BY <1>8, AddrPlace
  <2> HIDE DEF a
  <2>2. a # b
    BY <1>2, <2>1, OnePlace
  <2>3. a # c \/ c = 0
    <3> SUFFICES ASSUME a = c, c # 0 PROVE FALSE
      OBVIOUS
    <3>1. <<i, NDIRECT, c>> \in Places
      BY <1>2, IndirectOwn DEF c
    <3> QED
      BY <2>1, <3>1, OnePlace
  <2>4. data'[a] = data[a]
    BY <1>7, <2>1, <2>2, <2>3
  <2>5. m < NDIRECT => inode'[k].addrs[m] = inode[k].addrs[m]
    <3> SUFFICES ASSUME m < NDIRECT PROVE inode'[k].addrs[m] = inode[k].addrs[m]
      OBVIOUS
    <3>1. m \in 0..NDIRECT /\ inode[k].addrs[m] # 0
      BY <1>3, <1>8, <2>1 DEF Addr
    <3> QED
      BY <1>7, <3>1
  <2>6. m >= NDIRECT => /\ Indirect(k)' = Indirect(k) /\ Indirect(k) # 0
                        /\ data'[Indirect(k)][m - NDIRECT] = data[Indirect(k)][m - NDIRECT]
    <3> SUFFICES ASSUME m >= NDIRECT
                 PROVE  /\ Indirect(k)' = Indirect(k) /\ Indirect(k) # 0
                        /\ data'[Indirect(k)][m - NDIRECT] = data[Indirect(k)][m - NDIRECT]
      OBVIOUS
    <3>1. NDIRECT \in 0..NDIRECT /\ inode[k].addrs[NDIRECT] # 0
      BY <1>3, <2>1 DEF Indirect
    <3>2. Indirect(k)' = Indirect(k)
      BY <1>7, <3>1 DEF Indirect
    <3>3. Indirect(k) # b
      BY <1>1, <2>1, IndirectOwn DEF b
    <3>4. data[Indirect(k)][m - NDIRECT] # 0
      BY <1>3, <1>8, <2>1 DEF Addr
    <3> QED
      BY <1>7, <2>1, <3>2, <3>3, <3>4
  <2> QED
    BY <2>1, <2>4, <2>5, <2>6, AddrKept DEF a
<1>9. HeldKept
  <2> SUFFICES ASSUME NEW k \in Ino, NEW x \in Byte, NEW v, ~Cut(k)', Holds(k, x, v) PROVE Holds(k, x, v)'
    BY DEF HeldKept
  <2>1. ~Cut(k)
    BY <1>1, <1>4 DEF Cut, Only, Truncating
  <2> DEFINE m == x \div BSIZE
  <2>2. m \in 0..(MAXFILE - 1) /\ Addr(k, m) # 0
    BY ByteBlock DEF Holds
  <2>3. Addr(k, m)' = Addr(k, m) /\ data'[Addr(k, m)] = data[Addr(k, m)]
    <3> HIDE DEF m
    <3> QED
      BY <1>8, <2>1, <2>2
  <2> QED
    BY <2>3, HoldsKept
<1>10. SizesKept
  BY <1>1, <1>4, <1>7 DEF SizesKept, Cut, Only, Truncating
<1>11. FilesKept
  BY <1>1, FilesSame
<1>12. WroteKept
  BY <1>4, <1>5, <1>11, WroteSame DEF WroteKept
<1> QED
  BY <1>1, <1>9, <1>10, <1>11, <1>12, HoldSame

\* The block of a byte is the one between whose ends it lies.
LEMMA Quotient ==
    ASSUME NEW B \in Nat, NEW q \in Nat, NEW n \in Nat, NEW r \in Nat, r < B, NEW x \in Nat,
           x = q * B + r, n * B <= x, x < n * B + B
    PROVE  q = n
<1>1. ASSUME q < n PROVE FALSE
  <2> DEFINE d == n - q - 1
  <2>1. d \in Nat /\ n = q + 1 + d
    BY <1>1
  <2> HIDE DEF d
  <2>2. n * B = q * B + B + d * B /\ d * B \in Nat /\ q * B \in Nat
    BY <2>1
  <2> DEFINE y == q * B
             z == d * B
             w == n * B
  <2>3. y \in Nat /\ z \in Nat /\ w = y + B + z /\ x = y + r /\ w <= x
    BY <2>2
  <2> HIDE DEF y, z, w
  <2> QED
    BY <2>3
<1>2. ASSUME q > n PROVE FALSE
  <2> DEFINE d == q - n - 1
  <2>1. d \in Nat /\ q = n + 1 + d
    BY <1>2
  <2> HIDE DEF d
  <2>2. q * B = n * B + B + d * B /\ d * B \in Nat /\ n * B \in Nat
    BY <2>1
  <2> DEFINE y == n * B
             z == d * B
             w == q * B
  <2>3. y \in Nat /\ z \in Nat /\ w = y + B + z /\ x = w + r /\ x < y + B
    BY <2>2
  <2> HIDE DEF y, z, w
  <2> QED
    BY <2>3
<1> QED
  BY <1>1, <1>2

\* memmove() changes the bytes from o on, m of them, and no other byte of any file.
LEMMA HoldWriteCopy == ASSUME Inv, Inv', HoldInv, NEW p \in Proc, WriteCopy(p) PROVE HoldInv'
<1> DEFINE i == job[p].i
           f == job[p].f
           b == job[p].b
           t == job[p].tot
           o == Off(job[p])
           n == o \div BSIZE
           from == o % BSIZE
           m == Min({job[p].n1 - t, BSIZE - from})
           new == [k \in DOMAIN data[b] |-> IF k \in from..(from + m - 1) THEN Mark[p] ELSE data[b][k]]
           pc == IF t + m = job[p].n1 THEN "size" ELSE "map"
<1>1. /\ job[p].pc = "copy" /\ data \in [Block -> [0..(BSIZE - 1) -> Nat]] /\ data' = [data EXCEPT ![b] = new]
      /\ job' = [job EXCEPT ![p].pc = pc, ![p].tot = t + m, ![p].b = 0] /\ pc \in {"size", "map"}
      /\ inode' = inode /\ file' = file /\ abs' = abs /\ plain' = plain /\ Addr(i, n) = b /\ b # 0
  BY DEF Inv, Types, WriteCopy, At, tableVars, OwnInv, Chunk
<1>2. /\ i \in Ino /\ f \in File /\ file[f].off \in Nat /\ b \in Block /\ \A k \in Ino : Indirect(k) # b
      /\ t \in Nat /\ job[p].n1 \in Nat /\ t < job[p].n1 /\ o = file[f].off + t
  <2>1. job[p] \in JobRec /\ t < job[p].n1
    BY <1>1, JobTyped DEF Inv, OwnInv, Chunk
  <2> QED
    BY <1>1, <2>1, WriterFile, DataBlock DEF Writing, JobRec, Off
<1>3. o \in Nat /\ n \in Nat /\ n < MAXFILE /\ from \in 0..(BSIZE - 1) /\ o = n * BSIZE + from
  BY <1>1, Position
<1>4. BSIZE \in Nat /\ MAXFILE \in Nat
  BY Consts
<1> HIDE DEF n, from
<1>5. m \in Nat /\ m > 0 /\ from + m <= BSIZE
  <2>1. job[p].n1 - t \in Nat /\ BSIZE - from \in Nat /\ job[p].n1 - t > 0 /\ BSIZE - from > 0
    BY <1>2, <1>3, <1>4
  <2>2. m \in {job[p].n1 - t, BSIZE - from} /\ m <= BSIZE - from
    BY <2>1, MinTwo
  <2> HIDE DEF m
  <2> QED
    BY <1>3, <1>4, <2>1, <2>2
<1> HIDE DEF m, pc
<1>6. /\ \A a \in Block : a # b => data'[a] = data[a]
      /\ \A r \in 0..(BSIZE - 1) : data'[b][r] = IF r \in from..(from + m - 1) THEN Mark[p] ELSE data[b][r]
  <2>1. data' = [data EXCEPT ![b] = new] /\ new = [r \in 0..(BSIZE - 1) |-> IF r \in from..(from + m - 1) THEN Mark[p] ELSE data[b][r]]
    BY <1>1, <1>2
  <2> HIDE DEF new
  <2> QED
    BY <1>1, <1>2, <2>1
<1> HIDE DEF new, o
<1>7. /\ Only(p) /\ job'[p].pc \in {"size", "map"} /\ job'[p].i = i /\ job'[p].f = f /\ job'[p].tot = t + m
  BY <1>1, JobTyped DEF Only, JobRec
<1>8. \A k \in Ino : \A a : Addr(k, a)' = Addr(k, a)
  <2>1. \A k \in Ino : Indirect(k) # 0 => data'[Indirect(k)] = data[Indirect(k)]
    BY <1>2, <1>6, IndirectOwn
  <2>2. \A k \in Ino : Indirect(k)' = Indirect(k)
    BY <1>1 DEF Indirect
  <2> QED
    BY <1>1, <2>1, <2>2 DEF Addr
<1>9. \A k \in Ino : Cut(k)' <=> Cut(k)
  BY <1>1, <1>7 DEF Cut, Only, Truncating
<1>10. ~Cut(i)
  BY <1>1, <1>2 DEF Cut, Inv, LockInv, Holding, Filling, Truncating
<1>11. ASSUME NEW k \in Ino, ~Cut(k), NEW a \in 0..(MAXFILE - 1), Addr(k, a) = b
       PROVE  k = i /\ a = n
  <2>1. n \in 0..(MAXFILE - 1)
    BY <1>3, <1>4
  <2>2. <<i, Pos(n), b>> \in Places /\ <<k, Pos(a), b>> \in Places
    BY <1>1, <1>2, <1>10, <1>11, <2>1, AddrPlace
  <2>3. k = i /\ Pos(n) = Pos(a)
    BY <2>2, OnePlace
  <2> QED
    BY <1>3, <1>4, <2>3, Consts DEF Pos
<1> DEFINE New(x) == o <= x /\ x < o + m
<1>12. ASSUME NEW x \in Byte
       PROVE  New(x) <=> x \div BSIZE = n /\ x % BSIZE \in from..(from + m - 1)
  <2> DEFINE q == x \div BSIZE
             r == x % BSIZE
             N == n * BSIZE
  <2>1. x \in Nat /\ q \in Nat /\ r \in 0..(BSIZE - 1) /\ x = q * BSIZE + r /\ N \in Nat /\ o = N + from
    BY <1>3, <1>4, ByteBlock
  <2>2. ASSUME New(x) PROVE q = n
    <3> HIDE DEF q, r
    <3>1. N <= x /\ x < N + BSIZE
      <4> HIDE DEF N
      <4> QED
        BY <1>3, <1>4, <1>5, <2>1, <2>2
    <3> QED
      BY <1>3, <1>4, <2>1, <3>1, Quotient
  <2> HIDE DEF q, r
  <2>3. ASSUME q = n PROVE New(x) <=> r \in from..(from + m - 1)
    <3>1. x = N + r
      BY <2>1, <2>3
    <3> HIDE DEF N
    <3> QED
      BY <1>3, <1>4, <1>5, <2>1, <3>1
  <2> QED
    BY <2>2, <2>3 DEF q, r
<1>13. ASSUME NEW k \in Ino, ~Cut(k), NEW x \in Byte, NEW v, Holds(k, x, v), ~(k = i /\ New(x))
       PROVE  Holds(k, x, v)'
  <2> DEFINE a == x \div BSIZE
             r == x % BSIZE
  <2>1. a \in 0..(MAXFILE - 1) /\ r \in 0..(BSIZE - 1) /\ Addr(k, a) # 0 /\ data[Addr(k, a)][r] = v
    BY <1>13, ByteBlock DEF Holds
  <2>2. Addr(k, a) \in Block
    BY <1>13, <2>1, AddrPlace
  <2>3. data'[Addr(k, a)][r] = v
    <3>1. CASE Addr(k, a) = b
      <4>1. k = i /\ a = n
        BY <1>11, <1>13, <2>1, <3>1
      <4>2. r \notin from..(from + m - 1)
        BY <1>12, <1>13, <4>1
      <4> HIDE DEF a, r
      <4> QED
        BY <1>6, <2>1, <3>1, <4>2
    <3>2. CASE Addr(k, a) # b
      BY <1>6, <2>1, <2>2, <3>2
    <3> QED
      BY <3>1, <3>2
  <2>4. Addr(k, a)' = Addr(k, a)
    BY <1>8
  <2> QED
    BY <2>1, <2>3, <2>4 DEF Holds
<1>14. ASSUME NEW k \in Ino, k = i, NEW x \in Byte, New(x) PROVE Holds(k, x, Mark[p])'
  <2> DEFINE a == x \div BSIZE
             r == x % BSIZE
  <2>1. a = n /\ r \in from..(from + m - 1) /\ r \in 0..(BSIZE - 1)
    BY <1>12, <1>14, ByteBlock
  <2>2. Addr(k, a)' = b
    <3>1. Addr(k, a) = b
      BY <1>1, <1>14, <2>1
    <3> HIDE DEF a
    <3> QED
      BY <1>8, <3>1
  <2>3. data'[b][r] = Mark[p]
    BY <1>6, <2>1
  <2> HIDE DEF b
  <2> QED
    BY <1>1, <2>2, <2>3 DEF Holds
<1>15. ASSUME NEW q \in Proc, NEW k \in Ino, NEW x \in Byte
       PROVE  Wrote(q, k, x)' <=> Wrote(q, k, x) \/ (q = p /\ k = i /\ New(x))
  <2>1. CASE q = p
    <3>1. x \in Nat
      BY ByteBlock
    <3>2. Wrote(p, k, x)' <=> i = k /\ file[f].off <= x /\ x < file[f].off + (t + m)
      BY <1>1, <1>7 DEF Wrote, Copying
    <3>3. Wrote(p, k, x) <=> i = k /\ file[f].off <= x /\ x < file[f].off + t
      BY <1>1 DEF Wrote, Copying
    <3>4. New(x) <=> file[f].off + t <= x /\ x < file[f].off + t + m
      BY <1>2
    <3> HIDE DEF i, f, t
    <3> QED
      BY <1>2, <1>5, <2>1, <3>1, <3>2, <3>3, <3>4
  <2>2. CASE q # p
    BY <1>1, <1>7, <2>2 DEF Wrote, Only
  <2> QED
    BY <2>1, <2>2
<1> HIDE DEF New
<1>16. ASSUME NEW k \in Ino, k # i, ~Cut(k)' PROVE Bytes(k)'
  <2>1. Bytes(k) /\ ~Cut(k) /\ abs'[k] = abs[k] /\ inode'[k].size = inode[k].size
    BY <1>1, <1>9, <1>16 DEF HoldInv
  <2>2. \A x \in Byte : \A v : Holds(k, x, v) => Holds(k, x, v)'
    BY <1>13, <1>16, <2>1
  <2>3. \A q \in Proc, x \in Byte : Wrote(q, k, x)' <=> Wrote(q, k, x)
    BY <1>15, <1>16
  <2> QED
    BY <2>1, <2>2, <2>3, BytesKept
<1>17. ASSUME NEW k \in Ino, k = i PROVE Bytes(k)'
  <2>1. Bytes(k) /\ abs' = abs /\ inode' = inode
    BY <1>1, <1>2, <1>10, <1>17 DEF HoldInv
  <2>2. ASSUME NEW q \in Proc, NEW x \in Byte, Wrote(q, k, x) PROVE q = p
    <3>1. job[q].pc \in Holding /\ job[p].pc \in Holding /\ job[q].i = job[p].i
      BY <1>1, <1>17, <2>2 DEF Wrote, Holding, Filling, Copying
    <3> QED
      BY <3>1 DEF Inv, LockInv
  <2>3. ASSUME NEW x \in Byte, New(x)
        PROVE  /\ \A q \in Proc : Wrote(q, k, x)' => Holds(k, x, Mark[q])'
               /\ Wrote(p, k, x)'
    <3>1. Holds(k, x, Mark[p])'
      BY <1>14, <1>17, <2>3
    <3>2. \A q \in Proc : Wrote(q, k, x)' => q = p
      BY <1>15, <1>17, <2>2
    <3> QED
      BY <1>15, <1>17, <2>3, <3>1, <3>2
  <2>4. ASSUME NEW x \in Byte, ~New(x)
        PROVE  /\ \A q \in Proc : Wrote(q, k, x)' => Holds(k, x, Mark[q])'
               /\ (x < inode[k].size /\ \A q \in Proc : ~Wrote(q, k, x)') => Holds(k, x, abs[k][x + 1])'
    <3>1. \A q \in Proc : Wrote(q, k, x)' <=> Wrote(q, k, x)
      BY <1>15, <2>4
    <3>2. /\ \A q \in Proc : Wrote(q, k, x) => Holds(k, x, Mark[q])
          /\ (x < inode[k].size /\ \A q \in Proc : ~Wrote(q, k, x)) => Holds(k, x, abs[k][x + 1])
      BY <2>1 DEF Bytes
    <3>3. \A v : Holds(k, x, v) => Holds(k, x, v)'
      BY <1>10, <1>13, <1>17, <2>4
    <3>4. abs'[k][x + 1] = abs[k][x + 1]
      BY <2>1
    <3> QED
      BY <3>1, <3>2, <3>3, <3>4
  <2> QED
    BY <2>1, <2>3, <2>4 DEF Bytes
<1>18. FilesKept /\ \A k \in Ino : inode'[k].size = inode[k].size
  BY <1>1, FilesSame
<1>19. OffInv'
  BY <1>18, OffKept DEF Inv, HoldInv
<1>20. \A k \in Ino : Plain(k)'
  BY <1>1, <1>9, <1>18, PlainKept DEF HoldInv
<1>21. \A k \in Ino : ~Cut(k)' => Bytes(k)'
  BY <1>16, <1>17
<1> QED
  BY <1>1, <1>19, <1>20, <1>21 DEF HoldInv

\* The end of a chunk: the file has its bytes, and the offset moves behind them.
LEMMA HoldWriteSize == ASSUME Inv, Inv', HoldInv, NEW p \in Proc, WriteSize(p) PROVE HoldInv'
<1> DEFINE i == job[p].i
           f == job[p].f
           off == file[f].off
           n1 == job[p].n1
           end == off + n1
           old == inode[i].size
           size == Max({old, end})
           bytes == [k \in 1..Max({Len(abs[i]), end}) |-> IF k > end - n1 /\ k <= end THEN Mark[p] ELSE abs[i][k]]
           total == IF plain[i] < 0 THEN plain[i] ELSE plain[i] + n1
<1>1. /\ job[p].pc = "size" /\ job[p].tot = n1 /\ inode \in [Ino -> InodeRec] /\ file \in [File -> FileRec]
      /\ inode' = [inode EXCEPT ![i].size = size] /\ file' = [file EXCEPT ![f].off = off + n1]
      /\ abs' = [abs EXCEPT ![i] = bytes] /\ plain' = [plain EXCEPT ![i] = total]
      /\ job' = [job EXCEPT ![p].pc = "unlock"] /\ data' = data
  BY DEF Inv, Types, WriteSize, At, Go, Advance, OwnInv, Chunk
<1>2. /\ i \in Ino /\ f \in File /\ f \in Using(i) /\ off \in Nat /\ n1 \in Nat /\ end \in Nat /\ old \in Nat /\ inode[i].used
      /\ off <= old /\ plain[i] \in Int /\ Len(abs[i]) = old /\ abs[i] \in Seq(Nat) /\ ~Cut(i)
  <2>1. i \in Ino /\ f \in File /\ f \in Using(i) /\ inode[i].used /\ file[f].ip = i /\ file[f].ref > 0
    BY <1>1, WriterUses DEF Writing, Using
  <2>2. off \in Nat /\ n1 \in Nat
    BY <1>1, <2>1, JobTyped DEF JobRec, FileRec
  <2>3. old \in Nat
    BY <2>1, InodeTyped
  <2>4. off <= old
    BY <2>1 DEF HoldInv, OffInv
  <2>5. ~Cut(i)
    BY <1>1 DEF Cut, Inv, LockInv, Holding, Filling, Truncating
  <2>6. Bytes(i)
    BY <2>1, <2>5 DEF HoldInv
  <2>7. Len(abs[i]) = old
    BY <2>6 DEF Bytes
  <2>8. abs[i] \in Seq(Nat) /\ plain[i] \in Int
    BY <2>1, HoldTypes
  <2>9. end \in Nat
    BY <2>2
  <2> QED
    BY <2>1, <2>2, <2>3, <2>4, <2>5, <2>7, <2>8, <2>9
<1> HIDE DEF off, n1
<1>3. size = (IF old >= end THEN old ELSE end) /\ Max({Len(abs[i]), end}) = size
  BY <1>2, MaxTwo
<1>4. size \in Nat /\ size >= old /\ size >= end /\ end = off + n1
  <2> HIDE DEF size, old
  <2>1. end = off + n1
    OBVIOUS
  <2> HIDE DEF end
  <2> QED
    BY <1>2, <1>3, <2>1
<1>5. /\ bytes \in Seq(Nat) /\ Len(bytes) = size
      /\ \A k \in 1..size : bytes[k] = IF off < k /\ k <= end THEN Mark[p] ELSE abs[i][k]
  <2>1. Mark[p] \in Nat
    <3>1. Mark \in [Proc -> 1..Cardinality(Proc)]
      BY Marks
    <3> QED
      BY <3>1
  <2> DEFINE a == abs[i]
  <2>2. bytes = [k \in 1..size |-> IF k > end - n1 /\ k <= end THEN Mark[p] ELSE a[k]]
    BY <1>3
  <2>3. a \in Seq(Nat) /\ Len(a) = old
    BY <1>2
  <2> HIDE DEF size, bytes, a, old, end
  <2>4. end - n1 = off
    BY <1>2, <1>4
  <2>5. ASSUME NEW k \in 1..size PROVE (IF k > off /\ k <= end THEN Mark[p] ELSE a[k]) \in Nat
    <3>1. CASE k > off /\ k <= end
      BY <2>1, <3>1
    <3>2. CASE ~(k > off /\ k <= end)
      <4>1. k \in 1..Len(a)
        BY <1>2, <1>3, <1>4, <2>3, <3>2
      <4> QED
        BY <2>3, <3>2, <4>1
    <3> QED
      BY <3>1, <3>2
  <2>6. bytes = [k \in 1..size |-> IF k > off /\ k <= end THEN Mark[p] ELSE a[k]]
    BY <2>2, <2>4
  <2>7. bytes \in [1..size -> Nat]
    BY <2>5, <2>6
  <2>8. bytes \in Seq(Nat) /\ Len(bytes) = size
    BY <1>4, <2>7
  <2>9. \A k \in 1..size : bytes[k] = IF off < k /\ k <= end THEN Mark[p] ELSE a[k]
    BY <1>2, <2>6
  <2> QED
    BY <2>8, <2>9 DEF a
<1>6. total \in Int /\ (total >= 0 => plain[i] >= 0 /\ total = plain[i] + n1)
  <2> DEFINE was == plain[i]
  <2>1. was \in Int /\ total = IF was < 0 THEN was ELSE was + n1
    BY <1>2
  <2> HIDE DEF was, total
  <2> QED
    BY <1>2, <2>1 DEF was
<1> HIDE DEF end, old, size, bytes, total
<1>7. /\ Only(p) /\ job'[p].pc = "unlock"
  BY <1>1, JobTyped DEF Only, JobRec
<1>8. /\ inode'[i].size = size
      /\ \A k \in Ino : /\ inode'[k].used = inode[k].used /\ inode'[k].addrs = inode[k].addrs
                        /\ k # i => inode'[k] = inode[k]
  BY <1>1, <1>2 DEF InodeRec
<1>9. /\ file'[f].off = end
      /\ \A g \in File : /\ file'[g].ip = file[g].ip /\ file'[g].ref = file[g].ref
                         /\ g # f => file'[g].off = file[g].off
  BY <1>1, <1>2, <1>4 DEF FileRec
<1>10. /\ abs' \in [Ino -> Seq(Nat)] /\ plain' \in [Ino -> Int] /\ abs'[i] = bytes /\ plain'[i] = total
       /\ \A k \in Ino : k # i => abs'[k] = abs[k] /\ plain'[k] = plain[k]
  <2> HIDE DEF i
  <2>1. abs' \in [Ino -> Seq(Nat)] /\ abs'[i] = bytes /\ \A k \in Ino : k # i => abs'[k] = abs[k]
    BY <1>1, <1>2, <1>5, HoldTypes
  <2>2. plain' \in [Ino -> Int] /\ plain'[i] = total /\ \A k \in Ino : k # i => plain'[k] = plain[k]
    BY <1>1, <1>2, <1>6, HoldTypes
  <2> QED
    BY <2>1, <2>2
<1>11. \A k \in Ino : Cut(k)' <=> Cut(k)
  BY <1>1, <1>7 DEF Cut, Only, Truncating
<1>12. \A k \in Ino, x \in Byte : \A v : Holds(k, x, v)' <=> Holds(k, x, v)
  BY <1>1, <1>8 DEF Holds, Addr, Indirect
<1>13. \A k \in Ino, x \in Byte : ~Wrote(p, k, x)'
  BY <1>7 DEF Wrote, Copying
<1>14. ASSUME NEW k \in Ino, k # i, ~Cut(k)' PROVE Bytes(k)'
  <2>1. Bytes(k) /\ abs'[k] = abs[k] /\ inode'[k].size = inode[k].size
    BY <1>8, <1>10, <1>11, <1>14 DEF HoldInv
  <2>2. ASSUME NEW q \in Proc, NEW x \in Byte PROVE Wrote(q, k, x)' <=> Wrote(q, k, x)
    <3>1. CASE q = p
      BY <1>13, <1>14, <3>1 DEF Wrote
    <3>2. CASE q # p /\ job[q].pc \in Copying
      <4>1. job[q].f # f /\ job[q].f \in File
        BY <1>1, <3>2, OtherFile, WriterUses DEF Copying, Filling, Writing
      <4>2. file'[job[q].f].off = file[job[q].f].off /\ job'[q] = job[q]
        BY <1>7, <1>9, <3>2, <4>1 DEF Only
      <4> QED
        BY <4>2 DEF Wrote
    <3>3. CASE q # p /\ job[q].pc \notin Copying
      BY <1>7, <3>3 DEF Wrote, Only
    <3> QED
      BY <3>1, <3>2, <3>3
  <2>3. \A x \in Byte : \A v : Holds(k, x, v) => Holds(k, x, v)'
    BY <1>12
  <2> QED
    BY <2>1, <2>2, <2>3, BytesKept
<1>15. ASSUME NEW k \in Ino, k = i PROVE Bytes(k)'
  <2>1. Bytes(k)
    BY <1>2, <1>15 DEF HoldInv
  <2>2. Len(abs'[k]) = inode'[k].size
    BY <1>5, <1>8, <1>10, <1>15
  <2>3. ASSUME NEW q \in Proc, NEW x \in Byte PROVE ~Wrote(q, k, x)' /\ (Wrote(q, k, x) => q = p)
    <3>1. job[q].pc \in Copying /\ job[q].i = k => q = p
      BY <1>1, <1>15 DEF Inv, LockInv, Holding, Filling, Copying
    <3> QED
      BY <1>7, <1>13, <3>1 DEF Wrote, Only
  <2>4. ASSUME NEW x \in Byte, x < inode'[k].size PROVE Holds(k, x, abs[k][x + 1])'
    <3>1. x \in Nat /\ x + 1 \in 1..size
      <4>1. x \in Nat /\ x < size
        BY <1>8, <1>15, <2>4, ByteBlock
      <4> QED
        BY <1>4, <4>1
    <3>2. abs'[k][x + 1] = IF off < x + 1 /\ x + 1 <= end THEN Mark[p] ELSE abs[k][x + 1]
      BY <1>5, <1>10, <1>15, <3>1
    <3>3. Wrote(p, k, x) <=> off <= x /\ x < end
      <4>1. Wrote(p, k, x) <=> off <= x /\ x < off + n1
        BY <1>1, <1>15 DEF Wrote, Copying, off
      <4> QED
        BY <1>4, <4>1
    <3>4. CASE off <= x /\ x < end
      <4>1. Holds(k, x, Mark[p])
        BY <2>1, <3>3, <3>4 DEF Bytes
      <4>2. abs'[k][x + 1] = Mark[p]
        BY <1>2, <3>1, <3>2, <3>4
      <4> QED
        BY <1>12, <4>1, <4>2
    <3>5. CASE ~(off <= x /\ x < end)
      <4>1. x < old
        BY <1>2, <1>3, <1>4, <3>1, <3>5
      <4>2. x < inode[k].size /\ \A q \in Proc : ~Wrote(q, k, x)
        BY <1>15, <2>3, <3>3, <3>5, <4>1 DEF old
      <4>3. Holds(k, x, abs[k][x + 1])
        BY <2>1, <4>2 DEF Bytes
      <4>4. abs'[k][x + 1] = abs[k][x + 1]
        BY <1>2, <3>1, <3>2, <3>5
      <4> QED
        BY <1>12, <4>3, <4>4
    <3> QED
      BY <3>4, <3>5
  <2> QED
    BY <2>2, <2>3, <2>4 DEF Bytes
<1>16. ASSUME NEW k \in Ino PROVE Plain(k)'
  <2>1. Using(k)' = Using(k)
    BY <1>9 DEF Using
  <2>2. CASE k = i
    <3> SUFFICES ASSUME plain'[k] >= 0
                 PROVE  plain'[k] = inode'[k].size /\ \A g, h \in Using(k) : g = h /\ file'[g].off = plain'[k]
      BY <2>1 DEF Plain
    <3>1. plain[i] >= 0 /\ plain'[k] = plain[i] + n1
      BY <1>6, <1>10, <2>2
    <3>2. plain[i] = old /\ \A g, h \in Using(i) : g = h /\ file[g].off = plain[i]
      BY <1>2, <3>1 DEF HoldInv, Plain, old
    <3>3. plain[i] = off
      BY <1>2, <3>2 DEF off
    <3>4. plain'[k] = end
      BY <1>4, <3>1, <3>3
    <3>5. size = end
      BY <1>2, <1>3, <1>4, <3>2, <3>3
    <3>6. \A g, h \in Using(k) : g = h /\ g = f
      BY <1>2, <2>2, <3>2
    <3> QED
      BY <1>8, <1>9, <2>2, <3>4, <3>5, <3>6
  <2>3. CASE k # i
    <3>1. plain'[k] = plain[k] /\ inode'[k] = inode[k] /\ \A g \in Using(k) : file'[g].off = file[g].off
      BY <1>2, <1>8, <1>9, <1>10, <2>3 DEF Using
    <3>2. Plain(k)
      BY DEF HoldInv
    <3> QED
      BY <1>11, <2>1, <3>1, <3>2 DEF Plain
  <2> QED
    BY <2>2, <2>3
<1>17. \A k \in Ino : ~inode'[k].used => plain'[k] = 0 /\ abs'[k] = <<>>
  BY <1>2, <1>8, <1>10 DEF HoldInv
<1>18. OffInv'
  <2> SUFFICES ASSUME NEW g \in File, file'[g].ref > 0 PROVE file'[g].off <= inode'[file'[g].ip].size
    BY DEF OffInv
  <2>1. file[g].ref > 0 /\ file'[g].ip = file[g].ip /\ file[g].ip \in Ino /\ file[g].off <= inode[file[g].ip].size
    BY <1>9 DEF HoldInv, OffInv, Inv, TableInv
  <2>2. CASE g = f
    <3>1. file[g].ip = i
      BY <1>2, <2>2 DEF Using
    <3> QED
      BY <1>4, <1>8, <1>9, <2>1, <2>2, <3>1
  <2>3. CASE g # f
    <3>1. file'[g].off = file[g].off /\ file[g].off \in Nat
      BY <1>1, <1>9, <2>3 DEF FileRec
    <3>2. CASE file[g].ip = i
      <4>1. file[g].off <= old
        BY <2>1, <3>2 DEF old
      <4>2. file[g].off <= size
        BY <1>2, <1>4, <3>1, <4>1
      <4> QED
        BY <1>8, <2>1, <3>1, <3>2, <4>2
    <3>3. CASE file[g].ip # i
      BY <1>8, <2>1, <3>1, <3>3
    <3> QED
      BY <3>2, <3>3
  <2> QED
    BY <2>2, <2>3
<1> QED
  BY <1>10, <1>14, <1>15, <1>16, <1>17, <1>18 DEF HoldInv

LEMMA InitHold == Init => HoldInv
<1> SUFFICES ASSUME Init PROVE HoldInv
  OBVIOUS
<1>1. /\ inode = [i \in Ino |-> NoInode] /\ file = [f \in File |-> [ref |-> 0, ip |-> 0, off |-> 0]]
      /\ job = [p \in Proc |-> NoJob] /\ abs = [i \in Ino |-> <<>>] /\ plain = [i \in Ino |-> 0]
  BY DEF Init
<1>2. \A p \in Proc : job[p].pc = "user"
  BY <1>1 DEF NoJob
<1>3. \A f \in File : ~(file[f].ref > 0)
  BY <1>1
<1>4. \A i \in Ino : inode[i].size = 0 /\ abs[i] = <<>> /\ plain[i] = 0
  BY <1>1 DEF NoInode
<1>5. abs \in [Ino -> Seq(Nat)] /\ plain \in [Ino -> Int]
  <2>1. <<>> \in Seq(Nat) /\ 0 \in Int
    OBVIOUS
  <2> QED
    BY <1>1, <2>1
<1>6. OffInv
  BY <1>3 DEF OffInv
<1>7. ASSUME NEW i \in Ino PROVE Bytes(i)
  <2>1. \A x \in Byte : ~(x < inode[i].size)
    BY <1>4 DEF Byte
  <2>2. \A x \in Byte, p \in Proc : ~Wrote(p, i, x)
    BY <1>2 DEF Wrote, Copying
  <2>3. Len(abs[i]) = inode[i].size
    BY <1>4
  <2> QED
    BY <2>1, <2>2, <2>3 DEF Bytes
<1>8. \A i \in Ino : Plain(i)
  BY <1>3, <1>4 DEF Plain, Using
<1> QED
  BY <1>4, <1>5, <1>6, <1>7, <1>8 DEF HoldInv

LEMMA StutterHold == ASSUME Inv, Inv', HoldInv, UNCHANGED vars PROVE HoldInv'
<1>1. /\ job' = job /\ inode' = inode /\ abs' = abs /\ plain' = plain /\ data' = data /\ file' = file
  BY DEF vars
<1>2. SizesKept /\ WroteKept /\ HeldKept
  BY <1>1 DEF SizesKept, WroteKept, HeldKept, Cut, Wrote, Holds, Addr, Indirect
<1> QED
  BY <1>1, <1>2, FilesSame, HoldSame

LEMMA StepHold == ASSUME Inv, Inv', HoldInv, NEW p \in Proc, Step(p) PROVE HoldInv'
<1>1. CASE PutBegin(p)
  BY <1>1, HoldPutBegin
<1>2. CASE Put(p)
  BY <1>2, HoldPut
<1>3. CASE Unlinked(p)
  BY <1>3, HoldUnlinked
<1>4. CASE WriteBegin(p)
  BY <1>4, HoldWriteBegin
<1>5. CASE WriteLock(p)
  BY <1>5, HoldWriteLock
<1>6. CASE WriteFail(p)
  BY <1>6, HoldWriteFail
<1>7. CASE WriteMap(p)
  BY <1>7, HoldWriteMap
<1>8. CASE WriteZero(p)
  BY <1>8, HoldWriteZero
<1>9. CASE WriteCopy(p)
  BY <1>9, HoldWriteCopy
<1>10. CASE WriteSize(p)
  BY <1>10, HoldWriteSize
<1>11. CASE WriteUnlock(p)
  BY <1>11, HoldWriteUnlock
<1>12. CASE TruncFree(p)
  BY <1>12, HoldTruncFree
<1>13. CASE TruncEnd(p)
  BY <1>13, HoldTruncEnd
<1> QED
  BY <1>1, <1>2, <1>3, <1>4, <1>5, <1>6, <1>7, <1>8, <1>9, <1>10, <1>11, <1>12, <1>13 DEF Step

LEMMA NextHold == Inv /\ HoldInv /\ [Next]_vars => HoldInv'
<1> SUFFICES ASSUME Inv, HoldInv, [Next]_vars PROVE HoldInv'
  OBVIOUS
<1>1. Inv'
  BY NextInv
<1>2. CASE UNCHANGED vars
  BY <1>1, <1>2, StutterHold
<1>3. CASE Next
  <2>1. PICK p \in Proc :
          \/ Step(p) \/ Exit(p)
          \/ \E i \in Ino : Unlink(p, i) \/ \E create \in BOOLEAN : Open(p, i, create)
          \/ \E fd \in Fd : \/ Dup(p, fd) \/ Close(p, fd)
                            \/ \E n \in Sizes : Write(p, fd, n) \/ Read(p, fd, n)
          \/ \E q \in Proc : Fork(p, q)
    BY <1>3 DEF Next
  <2>2. CASE Step(p)
    BY <1>1, <2>2, StepHold
  <2>3. CASE Exit(p)
    BY <1>1, <2>3, HoldExit
  <2>4. ASSUME NEW i \in Ino, Unlink(p, i) PROVE HoldInv'
    BY <1>1, <2>4, HoldUnlink
  <2>5. ASSUME NEW i \in Ino, NEW create \in BOOLEAN, Open(p, i, create) PROVE HoldInv'
    BY <1>1, <2>5, HoldOpen
  <2>6. ASSUME NEW fd \in Fd, Dup(p, fd) PROVE HoldInv'
    BY <1>1, <2>6, HoldDup
  <2>7. ASSUME NEW fd \in Fd, Close(p, fd) PROVE HoldInv'
    BY <1>1, <2>7, HoldClose
  <2>8. ASSUME NEW fd \in Fd, NEW n \in Sizes, Write(p, fd, n) PROVE HoldInv'
    BY <1>1, <2>8, HoldWrite
  <2>9. ASSUME NEW fd \in Fd, NEW n \in Sizes, Read(p, fd, n) PROVE HoldInv'
    BY <1>1, <2>9, HoldRead
  <2>10. ASSUME NEW q \in Proc, Fork(p, q) PROVE HoldInv'
    BY <1>1, <2>10, HoldFork
  <2> QED
    BY <2>1, <2>2, <2>3, <2>4, <2>5, <2>6, <2>7, <2>8, <2>9, <2>10
<1> QED
  BY <1>2, <1>3

LEMMA InvHold == Inv /\ HoldInv => FilesHold
<1> SUFFICES ASSUME Inv, HoldInv PROVE FilesHold
  OBVIOUS
<1>1. ASSUME NEW i \in Ino, ~inode[i].busy PROVE ~Cut(i) /\ \A p \in Proc, x \in Byte : ~Wrote(p, i, x)
  <2>1. \A p \in Proc : ~(job[p].pc \in Holding /\ job[p].i = i)
    BY <1>1 DEF Inv, LockInv
  <2> QED
    BY <2>1 DEF Cut, Wrote, Copying, Holding, Filling, Truncating
<1>2. Contents
  <2> SUFFICES ASSUME NEW i \in Ino, ~inode[i].busy
               PROVE  /\ Len(abs[i]) = inode[i].size
                      /\ \A k \in 1..inode[i].size :
                            /\ Addr(i, (k - 1) \div BSIZE) # 0
                            /\ data[Addr(i, (k - 1) \div BSIZE)][(k - 1) % BSIZE] = abs[i][k]
    BY DEF Contents
  <2>1. Bytes(i)
    BY <1>1 DEF HoldInv
  <2>2. ASSUME NEW k \in 1..inode[i].size
        PROVE  /\ Addr(i, (k - 1) \div BSIZE) # 0
               /\ data[Addr(i, (k - 1) \div BSIZE)][(k - 1) % BSIZE] = abs[i][k]
    <3> DEFINE x == k - 1
               top == MAXFILE * BSIZE
    <3>1. x \in Byte /\ x < inode[i].size /\ x + 1 = k
      <4>1. inode[i].size \in 0..top /\ top \in Nat
        BY InodeTyped, Consts DEF InodeRec
      <4> HIDE DEF top
      <4>2. x \in 0..(top - 1) /\ x < inode[i].size /\ x + 1 = k
        BY <4>1
      <4> QED
        BY <4>2 DEF top, Byte
    <3> HIDE DEF x
    <3>2. Holds(i, x, abs[i][x + 1])
      BY <1>1, <2>1, <3>1 DEF Bytes
    <3> QED
      BY <3>1, <3>2 DEF Holds, x
  <2> QED
    BY <2>1, <2>2 DEF Bytes
<1>3. WritesFollow
  BY <1>1 DEF HoldInv, Plain, WritesFollow
<1> QED
  BY <1>2, <1>3 DEF FilesHold

\* Whoever shares a file, and whatever runs between two chunks of filewrite() or
\* works on other files: an unlocked file holds through its addresses the bytes
\* that were written to it, and its size is theirs; through one open file the
\* writes follow each other.
THEOREM FilesHoldWrites == Spec => []FilesHold
<1>1. Spec => [](Inv /\ HoldInv)
  <2>1. Init => Inv /\ HoldInv
    BY InitInv, InitHold
  <2>2. Inv /\ HoldInv /\ [Next]_vars => (Inv /\ HoldInv)'
    BY NextInv, NextHold
  <2> QED
    BY <2>1, <2>2, PTL DEF Spec
<1> QED
  BY <1>1, InvHold, PTL
=============================================================================
