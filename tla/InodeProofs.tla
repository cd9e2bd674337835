----------------------------- MODULE InodeProofs -----------------------------
(* Proofs about the inode cache and the tree of names, for any number of   *)
(* processes and inodes, any names and any calls: reference counts are      *)
(* exact (RefsExact), the tree stays whole (TreeInv) and the kernel does    *)
(* not panic (NoPanic), but for lookups that went up from a removed         *)
(* directory.                                                               *)
EXTENDS Inode, Integers, FiniteSetTheorems, WellFoundedInduction, TLAPS

-----------------------------------------------------------------------------
(* The inductive invariant *)

Ops == {"none", "open", "create", "mkdir", "unlink", "chdir", "link_old", "link"}
Steps == {"user", "walk", "parent", "exists", "fill", "made", "remove", "drop", "undo"}

DiskType ==
    /\ type \in [Inum -> {"free", "file", "dir"}] /\ nlink \in [Inum -> Int]
    /\ entry \in [Inum -> [Names -> 0 .. NINODES]] /\ dotdot \in [Inum -> 0 .. NINODES]
    /\ lost \in [Inum -> Nat]
CacheType == ref \in [Inum -> Nat] /\ busy \in [Inum -> BOOLEAN] /\ valid \in [Inum -> BOOLEAN]
CallType ==
    /\ pc \in [Proc -> Steps] /\ op \in [Proc -> Ops]
    /\ rest \in [Proc -> Seq(Names \cup {".."})]
    /\ cur \in [Proc -> 0 .. NINODES] /\ tgt \in [Proc -> 0 .. NINODES]
    /\ put \in [Proc -> Seq(Inum)] /\ free \in [Proc -> {"no", "disk", "done"}]
    /\ cwd \in [Proc -> Inum] /\ fd \in [Proc -> 0 .. NINODES]

\* Which inodes a call has at each of its steps: the current one of namex() and
\* the one it is about, of which each is put or handed over before the next step
\* that has none.
Phase(p) ==
    /\ Len(put[p]) <= 2 /\ (put[p] = <<>> => free[p] = "no")
    /\ cur[p] # 0 <=> pc[p] \in {"walk", "parent", "fill", "remove"}
    /\ tgt[p] # 0 <=> \/ pc[p] \in {"exists", "fill", "made", "remove", "drop", "undo"}
                      \/ pc[p] \in {"walk", "parent"} /\ op[p] = "link"
    /\ pc[p] \in {"parent", "fill", "remove"} => rest[p] # <<>>
    /\ pc[p] = "parent" => op[p] \in Parent
    /\ pc[p] \in {"exists", "fill"} => op[p] \in {"create", "mkdir"}
    /\ op[p] \in {"open", "create"} => fd[p] = 0
Phases == \A p \in Proc : Phase(p)

Inv == DiskType /\ CacheType /\ CallType /\ Phases /\ RefsExact

-----------------------------------------------------------------------------
(* Counting pointers *)

One(b) == IF b THEN 1 ELSE 0

\* The places of a list of at most two inodes that hold i.
Slots(s, i) == One(s # <<>> /\ s[1] = i) + One(Len(s) = 2 /\ s[2] = i)

\* The pointers to i of one process.
Own(p, i) == One(cwd[p] = i) + One(fd[p] = i) + One(cur[p] = i) + One(tgt[p] = i) + Slots(put[p], i)

LEMMA SlotsOf ==
    ASSUME NEW i
    PROVE  /\ Slots(<<>>, i) = 0
           /\ \A a : Slots(<<a>>, i) = One(a = i)
           /\ \A a, b : Slots(<<a, b>>, i) = One(a = i) + One(b = i)
<1>1. Slots(<<>>, i) = 0
  BY DEF Slots, One
<1>2. ASSUME NEW a PROVE Slots(<<a>>, i) = One(a = i)
  <2>1. <<a>> # <<>> /\ <<a>>[1] = a /\ Len(<<a>>) = 1
    OBVIOUS
  <2> QED
    BY <2>1 DEF Slots, One
<1>3. ASSUME NEW a, NEW b PROVE Slots(<<a, b>>, i) = One(a = i) + One(b = i)
  <2>1. <<a, b>> # <<>> /\ <<a, b>>[1] = a /\ <<a, b>>[2] = b /\ Len(<<a, b>>) = 2
    OBVIOUS
  <2> QED
    BY <2>1 DEF Slots, One
<1> QED
  BY <1>1, <1>2, <1>3

LEMMA SlotsOne ==
    ASSUME NEW a, NEW i
    PROVE  Slots(<<a>>, i) = One(a = i)
BY SlotsOf

LEMMA SlotsTwo ==
    ASSUME NEW a, NEW b, NEW i
    PROVE  Slots(<<a, b>>, i) = One(a = i) + One(b = i)
<1>1. <<a, b>> # <<>> /\ <<a, b>>[1] = a /\ <<a, b>>[2] = b /\ Len(<<a, b>>) = 2
  OBVIOUS
<1> QED
  BY <1>1 DEF Slots, One

\* The first of the list goes.
LEMMA SlotsTail ==
    ASSUME NEW s \in Seq(Inum), s # <<>>, Len(s) <= 2, NEW i
    PROVE  /\ Head(s) \in Inum /\ Tail(s) \in Seq(Inum) /\ Len(Tail(s)) <= 1
           /\ Slots(Tail(s), i) = Slots(s, i) - One(Head(s) = i)
<1> DEFINE t == Tail(s)
<1>1. Head(s) = s[1] /\ Head(s) \in Inum /\ t \in Seq(Inum) /\ Len(s) \in Nat \ {0} /\ Len(t) = Len(s) - 1
  OBVIOUS
<1>2. Len(s) = 2 => t[1] = s[2]
  OBVIOUS
<1> HIDE DEF t
<1>3. Len(t) = 0 => t = <<>>
  BY <1>1
<1>4. CASE Len(s) = 1
  <2>1. t = <<>>
    BY <1>1, <1>3, <1>4
  <2>2. Slots(t, i) = 0
    BY <2>1, SlotsOf
  <2>3. Slots(s, i) = One(Head(s) = i)
    BY <1>1, <1>4 DEF Slots, One
  <2>4. Slots(t, i) = Slots(s, i) - One(Head(s) = i)
    BY <2>2, <2>3 DEF One
  <2>5. Len(t) <= 1
    BY <1>1, <1>4
  <2> QED
    BY <1>1, <2>4, <2>5 DEF t
<1>5. CASE Len(s) = 2
  <2>1. Len(t) = 1 /\ t # <<>>
    BY <1>1, <1>5
  <2>2. Slots(t, i) = One(s[2] = i)
    BY <1>2, <1>5, <2>1 DEF Slots, One
  <2>3. Slots(s, i) = One(Head(s) = i) + One(s[2] = i)
    BY <1>1, <1>5 DEF Slots
  <2>4. (One(Head(s) = i) + One(s[2] = i)) - One(Head(s) = i) = One(s[2] = i)
    BY DEF One
  <2> QED
    BY <1>1, <2>1, <2>2, <2>3, <2>4 DEF t
<1>6. Len(s) = 1 \/ Len(s) = 2
  BY <1>1
<1> QED
  BY <1>4, <1>5, <1>6

\* A set of processes of which one may come or go.
LEMMA CountOne ==
    ASSUME NEW A \in SUBSET Proc, NEW B \in SUBSET Proc, NEW p \in Proc,
           \A q \in Proc : q # p => (q \in A <=> q \in B)
    PROVE  /\ Cardinality(A) \in Nat /\ Cardinality(B) \in Nat
           /\ Cardinality(B) = (Cardinality(A) - One(p \in A)) + One(p \in B)
<1>1. IsFiniteSet(A) /\ IsFiniteSet(B)
  BY InodeAssumption, FS_Subset
<1>2. Cardinality(A) \in Nat /\ Cardinality(B) \in Nat
  BY <1>1, FS_CardinalityType
<1>3. CASE p \in A <=> p \in B
  <2>1. A = B
    BY <1>3
  <2> QED
    BY <1>2, <2>1 DEF One
<1>4. CASE p \in A /\ p \notin B
  <2>1. B = A \ {p}
    BY <1>4
  <2>2. Cardinality(A \ {p}) = Cardinality(A) - 1
    BY <1>1, <1>4, FS_RemoveElement
  <2> QED
    BY <1>2, <1>4, <2>1, <2>2 DEF One
<1>5. CASE p \notin A /\ p \in B
  <2>1. B = A \cup {p}
    BY <1>5
  <2>2. Cardinality(A \cup {p}) = Cardinality(A) + 1
    BY <1>1, <1>5, FS_AddElement
  <2> QED
    BY <1>2, <1>5, <2>1, <2>2 DEF One
<1> QED
  BY <1>3, <1>4, <1>5

\* What the other processes have stays.
Others(p) == \A q \in Proc : q # p => /\ pc'[q] = pc[q] /\ op'[q] = op[q] /\ rest'[q] = rest[q]
                                      /\ cur'[q] = cur[q] /\ tgt'[q] = tgt[q] /\ put'[q] = put[q]
                                      /\ free'[q] = free[q] /\ cwd'[q] = cwd[q] /\ fd'[q] = fd[q]

\* A process moves its pointers, and ref follows them.
LEMMA RefsFollow ==
    ASSUME Inv, NEW p \in Proc, CallType', Others(p), ref' \in [Inum -> Int],
           \A i \in Inum : ref'[i] = (ref[i] - Own(p, i)) + Own(p, i)'
    PROVE  RefsExact' /\ ref' \in [Inum -> Nat]
<1> SUFFICES ASSUME NEW i \in Inum
             PROVE  /\ ref'[i] = Cardinality({q \in Proc : cwd'[q] = i})
                                 + Cardinality({q \in Proc : fd'[q] = i})
                                 + Cardinality({q \in Proc : cur'[q] = i})
                                 + Cardinality({q \in Proc : tgt'[q] = i})
                                 + Cardinality({q \in Proc : put'[q] # <<>> /\ put'[q][1] = i})
                                 + Cardinality({q \in Proc : Len(put'[q]) = 2 /\ put'[q][2] = i})
                    /\ ref'[i] \in Nat
  BY DEF RefsExact
<1> DEFINE W(f) == {q \in Proc : f[q] = i}
           F(f) == {q \in Proc : f[q] # <<>> /\ f[q][1] = i}
           S(f) == {q \in Proc : Len(f[q]) = 2 /\ f[q][2] = i}
<1>1. /\ Cardinality(W(cwd)) \in Nat /\ Cardinality(W(cwd')) \in Nat
      /\ Cardinality(W(cwd')) = (Cardinality(W(cwd)) - One(cwd[p] = i)) + One(cwd'[p] = i)
  <2>1. \A q \in Proc : q # p => (q \in W(cwd) <=> q \in W(cwd'))
    BY DEF Others
  <2>2. (p \in W(cwd) <=> cwd[p] = i) /\ (p \in W(cwd') <=> cwd'[p] = i)
    OBVIOUS
  <2> HIDE DEF W
  <2>3. W(cwd) \in SUBSET Proc /\ W(cwd') \in SUBSET Proc
    BY DEF W
  <2> QED
    BY <2>1, <2>2, <2>3, CountOne DEF One
<1>2. /\ Cardinality(W(fd)) \in Nat /\ Cardinality(W(fd')) \in Nat
      /\ Cardinality(W(fd')) = (Cardinality(W(fd)) - One(fd[p] = i)) + One(fd'[p] = i)
  <2>1. \A q \in Proc : q # p => (q \in W(fd) <=> q \in W(fd'))
    BY DEF Others
  <2>2. (p \in W(fd) <=> fd[p] = i) /\ (p \in W(fd') <=> fd'[p] = i)
    OBVIOUS
  <2> HIDE DEF W
  <2>3. W(fd) \in SUBSET Proc /\ W(fd') \in SUBSET Proc
    BY DEF W
  <2> QED
    BY <2>1, <2>2, <2>3, CountOne DEF One
<1>3. /\ Cardinality(W(cur)) \in Nat /\ Cardinality(W(cur')) \in Nat
      /\ Cardinality(W(cur')) = (Cardinality(W(cur)) - One(cur[p] = i)) + One(cur'[p] = i)
  <2>1. \A q \in Proc : q # p => (q \in W(cur) <=> q \in W(cur'))
    BY DEF Others
  <2>2. (p \in W(cur) <=> cur[p] = i) /\ (p \in W(cur') <=> cur'[p] = i)
    OBVIOUS
  <2> HIDE DEF W
  <2>3. W(cur) \in SUBSET Proc /\ W(cur') \in SUBSET Proc
    BY DEF W
  <2> QED
    BY <2>1, <2>2, <2>3, CountOne DEF One
<1>4. /\ Cardinality(W(tgt)) \in Nat /\ Cardinality(W(tgt')) \in Nat
      /\ Cardinality(W(tgt')) = (Cardinality(W(tgt)) - One(tgt[p] = i)) + One(tgt'[p] = i)
  <2>1. \A q \in Proc : q # p => (q \in W(tgt) <=> q \in W(tgt'))
    BY DEF Others
  <2>2. (p \in W(tgt) <=> tgt[p] = i) /\ (p \in W(tgt') <=> tgt'[p] = i)
    OBVIOUS
  <2> HIDE DEF W
  <2>3. W(tgt) \in SUBSET Proc /\ W(tgt') \in SUBSET Proc
    BY DEF W
  <2> QED
    BY <2>1, <2>2, <2>3, CountOne DEF One
<1>5. /\ Cardinality(F(put)) \in Nat /\ Cardinality(F(put')) \in Nat
      /\ Cardinality(F(put')) = (Cardinality(F(put)) - One(put[p] # <<>> /\ put[p][1] = i)) + One(put'[p] # <<>> /\ put'[p][1] = i)
  <2>1. \A q \in Proc : q # p => (q \in F(put) <=> q \in F(put'))
    BY DEF Others
  <2>2. (p \in F(put) <=> put[p] # <<>> /\ put[p][1] = i) /\ (p \in F(put') <=> put'[p] # <<>> /\ put'[p][1] = i)
    OBVIOUS
  <2> HIDE DEF F
  <2>3. F(put) \in SUBSET Proc /\ F(put') \in SUBSET Proc
    BY DEF F
  <2> QED
    BY <2>1, <2>2, <2>3, CountOne DEF One
<1>6. /\ Cardinality(S(put)) \in Nat /\ Cardinality(S(put')) \in Nat
      /\ Cardinality(S(put')) = (Cardinality(S(put)) - One(Len(put[p]) = 2 /\ put[p][2] = i)) + One(Len(put'[p]) = 2 /\ put'[p][2] = i)
  <2>1. \A q \in Proc : q # p => (q \in S(put) <=> q \in S(put'))
    BY DEF Others
  <2>2. (p \in S(put) <=> Len(put[p]) = 2 /\ put[p][2] = i) /\ (p \in S(put') <=> Len(put'[p]) = 2 /\ put'[p][2] = i)
    OBVIOUS
  <2> HIDE DEF S
  <2>3. S(put) \in SUBSET Proc /\ S(put') \in SUBSET Proc
    BY DEF S
  <2> QED
    BY <2>1, <2>2, <2>3, CountOne DEF One
<1>7. ref[i] = Cardinality(W(cwd)) + Cardinality(W(fd)) + Cardinality(W(cur)) + Cardinality(W(tgt)) + Cardinality(F(put)) + Cardinality(S(put))
  BY DEF Inv, RefsExact
<1>8. ref'[i] = (ref[i] - Own(p, i)) + Own(p, i)'
  OBVIOUS
<1> HIDE DEF W, F, S
<1>9. ref'[i] = Cardinality(W(cwd')) + Cardinality(W(fd')) + Cardinality(W(cur')) + Cardinality(W(tgt')) + Cardinality(F(put')) + Cardinality(S(put'))
  <2> DEFINE a1 == One(cwd[p] = i)   b1 == One(cwd'[p] = i)
             a2 == One(fd[p] = i)    b2 == One(fd'[p] = i)
             a3 == One(cur[p] = i)   b3 == One(cur'[p] = i)
             a4 == One(tgt[p] = i)   b4 == One(tgt'[p] = i)
             a5 == One(put[p] # <<>> /\ put[p][1] = i)     b5 == One(put'[p] # <<>> /\ put'[p][1] = i)
             a6 == One(Len(put[p]) = 2 /\ put[p][2] = i)   b6 == One(Len(put'[p]) = 2 /\ put'[p][2] = i)
  <2>1. Own(p, i) = a1 + a2 + a3 + a4 + (a5 + a6) /\ Own(p, i)' = b1 + b2 + b3 + b4 + (b5 + b6)
    BY DEF Own, Slots
  <2>2. /\ a1 \in Int /\ a2 \in Int /\ a3 \in Int /\ a4 \in Int /\ a5 \in Int /\ a6 \in Int
        /\ b1 \in Int /\ b2 \in Int /\ b3 \in Int /\ b4 \in Int /\ b5 \in Int /\ b6 \in Int
    BY DEF One
  <2> HIDE DEF a1, a2, a3, a4, a5, a6, b1, b2, b3, b4, b5, b6
  <2>3. /\ Cardinality(W(cwd')) = (Cardinality(W(cwd)) - a1) + b1
        /\ Cardinality(W(fd')) = (Cardinality(W(fd)) - a2) + b2
        /\ Cardinality(W(cur')) = (Cardinality(W(cur)) - a3) + b3
        /\ Cardinality(W(tgt')) = (Cardinality(W(tgt)) - a4) + b4
        /\ Cardinality(F(put')) = (Cardinality(F(put)) - a5) + b5
        /\ Cardinality(S(put')) = (Cardinality(S(put)) - a6) + b6
    BY <1>1, <1>2, <1>3, <1>4, <1>5, <1>6 DEF a1, a2, a3, a4, a5, a6, b1, b2, b3, b4, b5, b6
  <2>4. ref'[i] = (ref[i] - (a1 + a2 + a3 + a4 + (a5 + a6))) + (b1 + b2 + b3 + b4 + (b5 + b6))
    BY <1>8, <2>1
  <2>5. /\ Cardinality(W(cwd)) \in Nat /\ Cardinality(W(fd)) \in Nat /\ Cardinality(W(cur)) \in Nat
        /\ Cardinality(W(tgt)) \in Nat /\ Cardinality(F(put)) \in Nat /\ Cardinality(S(put)) \in Nat
    BY <1>1, <1>2, <1>3, <1>4, <1>5, <1>6
  <2> DEFINE m1 == Cardinality(W(cwd))  m2 == Cardinality(W(fd))  m3 == Cardinality(W(cur))
             m4 == Cardinality(W(tgt))  m5 == Cardinality(F(put))  m6 == Cardinality(S(put))
             n1 == Cardinality(W(cwd'))  n2 == Cardinality(W(fd'))  n3 == Cardinality(W(cur'))
             n4 == Cardinality(W(tgt'))  n5 == Cardinality(F(put'))  n6 == Cardinality(S(put'))
             r == ref[i]  s == ref'[i]
  <2>6. /\ r = m1 + m2 + m3 + m4 + m5 + m6
        /\ s = (r - (a1 + a2 + a3 + a4 + (a5 + a6))) + (b1 + b2 + b3 + b4 + (b5 + b6))
        /\ n1 = (m1 - a1) + b1 /\ n2 = (m2 - a2) + b2 /\ n3 = (m3 - a3) + b3
        /\ n4 = (m4 - a4) + b4 /\ n5 = (m5 - a5) + b5 /\ n6 = (m6 - a6) + b6
    BY <1>7, <2>3, <2>4
  <2>7. m1 \in Int /\ m2 \in Int /\ m3 \in Int /\ m4 \in Int /\ m5 \in Int /\ m6 \in Int
    BY <2>5
  <2> HIDE DEF m1, m2, m3, m4, m5, m6, n1, n2, n3, n4, n5, n6, r, s
  <2>8. s = n1 + n2 + n3 + n4 + n5 + n6
    BY <2>2, <2>6, <2>7
  <2> QED
    BY <2>8 DEF n1, n2, n3, n4, n5, n6, s
<1>10. ref'[i] \in Nat
  BY <1>1, <1>2, <1>3, <1>4, <1>5, <1>6, <1>9
<1> QED
  BY <1>9, <1>10 DEF W, F, S

\* A step of p whose pointers fit its next step keeps the invariant.
LEMMA Assemble ==
    ASSUME Inv, NEW p \in Proc, DiskType', CallType', Others(p), Phase(p)',
           busy' \in [Inum -> BOOLEAN], valid' \in [Inum -> BOOLEAN], ref' \in [Inum -> Int],
           \A i \in Inum : ref'[i] = (ref[i] - Own(p, i)) + Own(p, i)'
    PROVE  Inv'
<1>1. RefsExact' /\ CacheType'
  BY RefsFollow DEF CacheType
<1>2. ASSUME NEW q \in Proc PROVE Phase(q)'
  <2>1. CASE q = p
    BY <2>1
  <2>2. CASE q # p
    BY <2>2 DEF Others, Phase, Inv, Phases
  <2> QED
    BY <2>1, <2>2
<1> QED
  BY <1>1, <1>2 DEF Inv, Phases

\* The end of a call hands what it has to the list of inodes to put, or to a
\* descriptor or the current directory.
LEMMA ReturnKeeps ==
    ASSUME Inv, NEW p \in Proc, NEW s \in Seq(Inum), Len(s) <= 2, Return(p, s), put[p] = <<>>,
           free' = free, cwd' \in [Proc -> Inum], fd' \in [Proc -> 0 .. NINODES],
           \A q \in Proc : q # p => cwd'[q] = cwd[q] /\ fd'[q] = fd[q],
           DiskType', busy' \in [Inum -> BOOLEAN], valid' \in [Inum -> BOOLEAN], ref' = ref,
           \A i \in Inum : One(cwd[p] = i) + One(fd[p] = i) + One(cur[p] = i) + One(tgt[p] = i)
                             = One(cwd'[p] = i) + One(fd'[p] = i) + Slots(s, i)
    PROVE  Inv'
<1>1. /\ pc' = [pc EXCEPT ![p] = "user"] /\ put' = [put EXCEPT ![p] = s]
      /\ op' = [op EXCEPT ![p] = "none"] /\ rest' = [rest EXCEPT ![p] = <<>>]
      /\ cur' = [cur EXCEPT ![p] = 0] /\ tgt' = [tgt EXCEPT ![p] = 0]
  BY DEF Return, Then
<1>2. CallType /\ CacheType /\ Phase(p)
  BY DEF Inv, Phases
<1>3. 0 \in 0 .. NINODES /\ \A i \in Inum : i # 0
  BY InodeAssumption DEF Inum
<1>4. CallType'
  BY <1>1, <1>2, <1>3 DEF CallType, Steps, Ops
<1>5. Others(p)
  BY <1>1, <1>2 DEF Others, CallType
<1>6. /\ pc'[p] = "user" /\ put'[p] = s /\ cur'[p] = 0 /\ tgt'[p] = 0 /\ op'[p] = "none" /\ free'[p] = "no"
  BY <1>1, <1>2 DEF CallType, Phase
<1>7. Phase(p)'
  BY <1>6 DEF Phase
<1>8. ASSUME NEW i \in Inum PROVE ref'[i] = (ref[i] - Own(p, i)) + Own(p, i)'
  <2> DEFINE a1 == One(cwd[p] = i)  a2 == One(fd[p] = i)  a3 == One(cur[p] = i)  a4 == One(tgt[p] = i)
             b1 == One(cwd'[p] = i)  b2 == One(fd'[p] = i)  b3 == Slots(s, i)
  <2>1. Own(p, i) = a1 + a2 + a3 + a4 + 0
    BY SlotsOf DEF Own
  <2>2. Own(p, i)' = b1 + b2 + 0 + 0 + b3
    BY <1>3, <1>6 DEF Own, One
  <2>3. a1 \in Int /\ a2 \in Int /\ a3 \in Int /\ a4 \in Int /\ b1 \in Int /\ b2 \in Int /\ b3 \in Int
    BY DEF Slots, One
  <2>4. a1 + a2 + a3 + a4 = b1 + b2 + b3
    OBVIOUS
  <2>5. ref[i] \in Int /\ ref'[i] = ref[i]
    BY <1>2 DEF CacheType
  <2> HIDE DEF a1, a2, a3, a4, b1, b2, b3
  <2>6. Own(p, i)' = Own(p, i) /\ Own(p, i) \in Int
    BY <2>1, <2>2, <2>3, <2>4
  <2> QED
    BY <2>5, <2>6
<1>9. ref' \in [Inum -> Int]
  BY <1>2 DEF CacheType
<1> QED
  BY <1>4, <1>5, <1>7, <1>8, <1>9, Assemble

\* What the types and phases say about a process.
LEMMA Facts ==
    ASSUME Inv, NEW p \in Proc
    PROVE  /\ DiskType /\ CacheType /\ CallType /\ Phase(p)
           /\ pc[p] \in Steps /\ op[p] \in Ops /\ free[p] \in {"no", "disk", "done"} /\ put[p] \in Seq(Inum)
           /\ cwd[p] \in Inum /\ fd[p] \in 0 .. NINODES
           /\ pc[p] \in {"walk", "parent", "fill", "remove"} => cur[p] \in Inum
           /\ pc[p] \notin {"walk", "parent", "fill", "remove"} => cur[p] = 0
           /\ tgt[p] # 0 => tgt[p] \in Inum
           /\ rest[p] # <<>> => Head(rest[p]) \in Names \cup {".."} /\ Tail(rest[p]) \in Seq(Names \cup {".."})
           /\ 0 \notin Inum /\ 0 \in 0 .. NINODES /\ Root \in Inum /\ \A i \in Inum : i \in 0 .. NINODES
<1>1. DiskType /\ CacheType /\ CallType /\ Phase(p)
  BY DEF Inv, Phases
<1>2. 0 \notin Inum /\ 0 \in 0 .. NINODES /\ Root \in Inum /\ (\A i \in Inum : i \in 0 .. NINODES)
      /\ \A i \in 0 .. NINODES : i # 0 => i \in Inum
  BY InodeAssumption DEF Inum, Root
<1>3. /\ pc[p] \in Steps /\ op[p] \in Ops /\ free[p] \in {"no", "disk", "done"} /\ put[p] \in Seq(Inum)
      /\ cwd[p] \in Inum /\ fd[p] \in 0 .. NINODES /\ cur[p] \in 0 .. NINODES /\ tgt[p] \in 0 .. NINODES
      /\ rest[p] \in Seq(Names \cup {".."})
  BY <1>1 DEF CallType
<1>4. rest[p] # <<>> => Head(rest[p]) \in Names \cup {".."} /\ Tail(rest[p]) \in Seq(Names \cup {".."})
  BY <1>3
<1> QED
  BY <1>1, <1>2, <1>3, <1>4 DEF Phase

LEMMA LookupType ==
    ASSUME DiskType, NEW i \in Inum, NEW n \in Names \cup {".."}
    PROVE  Lookup(i, n) \in 0 .. NINODES /\ (Lookup(i, n) # 0 => Lookup(i, n) \in Inum)
<1>1. Lookup(i, n) \in 0 .. NINODES
  BY DEF DiskType, Lookup
<1> QED
  BY <1>1, InodeAssumption DEF Inum

\* ref follows one pointer more, or one less.
LEMMA OneMore ==
    ASSUME CacheType, NEW i \in Inum
    PROVE  /\ [ref EXCEPT ![i] = @ + 1] \in [Inum -> Int] /\ [ref EXCEPT ![i] = @ - 1] \in [Inum -> Int]
           /\ \A j \in Inum : /\ ref[j] \in Int /\ One(i = j) \in Int
                              /\ [ref EXCEPT ![i] = @ + 1][j] = ref[j] + One(i = j)
                              /\ [ref EXCEPT ![i] = @ - 1][j] = ref[j] - One(i = j)
BY DEF CacheType, One

\* Nothing that points to an inode changes.
LEMMA Still ==
    ASSUME CacheType, NEW p, UNCHANGED <<ref, cwd, fd, cur, tgt>>, put'[p] = put[p]
    PROVE  ref' \in [Inum -> Int] /\ \A i \in Inum : ref'[i] = (ref[i] - Own(p, i)) + Own(p, i)'
<1>1. ref' \in [Inum -> Int] /\ \A i \in Inum : ref'[i] = ref[i] /\ ref[i] \in Int
  BY DEF CacheType
<1>2. \A i : Own(p, i)' = Own(p, i) /\ Own(p, i) \in Int
  BY DEF Own, Slots, One
<1> QED
  BY <1>1, <1>2

LEMMA IputKeeps ==
    ASSUME Inv, NEW p \in Proc, Iput(p)
    PROVE  Inv'
<1> DEFINE i == Head(put[p])
<1>1. put[p] # <<>> /\ free[p] = "no"
  BY DEF Iput
<1>2. DiskType /\ CacheType /\ CallType /\ Phase(p) /\ put[p] \in Seq(Inum) /\ Len(put[p]) <= 2
  BY Facts DEF Phase
<1>3. /\ i \in Inum /\ Tail(put[p]) \in Seq(Inum) /\ Len(Tail(put[p])) <= 1
      /\ \A j : Slots(Tail(put[p]), j) = Slots(put[p], j) - One(i = j)
  BY <1>1, <1>2, SlotsTail
<1> HIDE DEF i
<1>4. CASE ~Freeing(i)
  <2>1. /\ ref' = [ref EXCEPT ![i] = @ - 1] /\ valid' = [valid EXCEPT ![i] = @ /\ ref[i] > 1]
        /\ put' = [put EXCEPT ![p] = Tail(@)]
        /\ UNCHANGED <<diskVars, lost, busy, pc, op, rest, cur, tgt, free, cwd, fd>>
    BY <1>4 DEF Iput, i, history
  <2>2. DiskType' /\ busy' \in [Inum -> BOOLEAN] /\ valid' \in [Inum -> BOOLEAN]
    <3>1. DiskType'
      BY <1>2, <2>1 DEF DiskType, diskVars
    <3>2. busy' \in [Inum -> BOOLEAN] /\ valid' \in [Inum -> BOOLEAN]
      BY <1>2, <2>1 DEF CacheType
    <3> QED
      BY <3>1, <3>2
  <2>3. CallType' /\ Others(p) /\ put'[p] = Tail(put[p])
    BY <1>2, <1>3, <2>1 DEF CallType, Others
  <2>4. Phase(p)'
    BY <1>1, <1>2, <1>3, <2>1, <2>3 DEF Phase
  <2>5. ref' \in [Inum -> Int] /\ \A j \in Inum : ref'[j] = ref[j] - One(i = j)
    BY <1>2, <1>3, <2>1, OneMore
  <2>6. ASSUME NEW j \in Inum PROVE ref'[j] = (ref[j] - Own(p, j)) + Own(p, j)'
    <3> DEFINE r == One(cwd[p] = j) + One(fd[p] = j) + One(cur[p] = j) + One(tgt[p] = j)
               s == Slots(put[p], j)
               o == One(i = j)
    <3>1. Own(p, j) = r + s /\ Own(p, j)' = r + (s - o)
      BY <1>3, <2>1, <2>3 DEF Own
    <3>2. r \in Int /\ s \in Int /\ o \in Int /\ ref[j] \in Int
      BY <1>2 DEF One, Slots, CacheType
    <3>3. ref'[j] = ref[j] - o
      BY <2>5
    <3> HIDE DEF r, s, o
    <3> QED
      BY <3>1, <3>2, <3>3
  <2> QED
    BY <2>2, <2>3, <2>4, <2>5, <2>6, Assemble
<1>5. CASE Freeing(i)
  <2>1. /\ busy' = [busy EXCEPT ![i] = TRUE] /\ free' = [free EXCEPT ![p] = "disk"]
        /\ UNCHANGED <<diskVars, lost, ref, valid, pc, op, rest, cur, tgt, put, cwd, fd>>
    BY <1>5 DEF Iput, i, history
  <2>2. DiskType' /\ busy' \in [Inum -> BOOLEAN] /\ valid' \in [Inum -> BOOLEAN]
    <3>1. DiskType'
      BY <1>2, <2>1 DEF DiskType, diskVars
    <3>2. busy' \in [Inum -> BOOLEAN] /\ valid' \in [Inum -> BOOLEAN]
      BY <1>2, <2>1 DEF CacheType
    <3> QED
      BY <3>1, <3>2
  <2>3. CallType' /\ Others(p) /\ put'[p] = put[p]
    BY <1>2, <2>1 DEF CallType, Others
  <2>4. Phase(p)'
    BY <1>1, <1>2, <2>1, <2>3 DEF Phase
  <2>5. ref' \in [Inum -> Int] /\ \A j \in Inum : ref'[j] = (ref[j] - Own(p, j)) + Own(p, j)'
    BY <1>2, <2>1, <2>3, Still
  <2> QED
    BY <2>2, <2>3, <2>4, <2>5, Assemble
<1> QED
  BY <1>4, <1>5

LEMMA IputDiskKeeps ==
    ASSUME Inv, NEW p \in Proc, IputDisk(p)
    PROVE  Inv'
<1> DEFINE i == Head(put[p])
<1>1. /\ free[p] = "disk" /\ type' = [type EXCEPT ![i] = "free"] /\ entry' = [entry EXCEPT ![i] = NoEntries]
      /\ dotdot' = [dotdot EXCEPT ![i] = 0]
      /\ lost' = [k \in Inum |-> lost[k] + Cardinality({n \in Names : entry[i][n] = k})]
      /\ free' = [free EXCEPT ![p] = "done"]
      /\ UNCHANGED <<nlink, ref, busy, valid, pc, op, rest, cur, tgt, put, cwd, fd>>
  BY DEF IputDisk, cacheVars
<1>2. DiskType /\ CacheType /\ CallType /\ Phase(p) /\ put[p] \in Seq(Inum) /\ 0 \in 0 .. NINODES
  BY Facts
<1> HIDE DEF i
<1>3. put[p] # <<>>
  BY <1>1, <1>2 DEF Phase
<1>4. DiskType'
  <2>1. ASSUME NEW k \in Inum PROVE Cardinality({n \in Names : entry[i][n] = k}) \in Nat
    <3>1. IsFiniteSet({n \in Names : entry[i][n] = k})
      BY InodeAssumption, FS_Subset
    <3> QED
      BY <3>1, FS_CardinalityType
  <2>2. NoEntries \in [Names -> 0 .. NINODES]
    BY <1>2 DEF NoEntries
  <2>3. lost' \in [Inum -> Nat]
    <3> DEFINE gone(k) == Cardinality({n \in Names : entry[i][n] = k})
    <3>1. \A k \in Inum : lost[k] \in Nat /\ gone(k) \in Nat
      BY <1>2, <2>1 DEF DiskType
    <3>2. lost' = [k \in Inum |-> lost[k] + gone(k)]
      BY <1>1
    <3> HIDE DEF gone
    <3> QED
      BY <3>1, <3>2
  <2> QED
    BY <1>1, <1>2, <2>2, <2>3 DEF DiskType
<1>5. CallType' /\ Others(p) /\ put'[p] = put[p]
  BY <1>1, <1>2 DEF CallType, Others
<1>6. Phase(p)'
  BY <1>1, <1>2, <1>3, <1>5 DEF Phase
<1>7. busy' \in [Inum -> BOOLEAN] /\ valid' \in [Inum -> BOOLEAN]
  BY <1>1, <1>2 DEF CacheType
<1>8. ref' \in [Inum -> Int] /\ \A j \in Inum : ref'[j] = (ref[j] - Own(p, j)) + Own(p, j)'
  BY <1>1, <1>2, <1>5, Still
<1> QED
  BY <1>4, <1>5, <1>6, <1>7, <1>8, Assemble

LEMMA IputDoneKeeps ==
    ASSUME Inv, NEW p \in Proc, IputDone(p)
    PROVE  Inv'
<1> DEFINE i == Head(put[p])
<1>1. /\ free[p] = "done" /\ busy' = [busy EXCEPT ![i] = FALSE] /\ valid' = [valid EXCEPT ![i] = FALSE]
      /\ ref' = [ref EXCEPT ![i] = @ - 1] /\ put' = [put EXCEPT ![p] = Tail(@)] /\ free' = [free EXCEPT ![p] = "no"]
      /\ UNCHANGED <<diskVars, lost, pc, op, rest, cur, tgt, cwd, fd>>
  BY DEF IputDone, history
<1>2. DiskType /\ CacheType /\ CallType /\ Phase(p) /\ put[p] \in Seq(Inum) /\ Len(put[p]) <= 2 /\ put[p] # <<>>
  BY <1>1, Facts DEF Phase
<1>3. /\ i \in Inum /\ Tail(put[p]) \in Seq(Inum) /\ Len(Tail(put[p])) <= 1
      /\ \A j : Slots(Tail(put[p]), j) = Slots(put[p], j) - One(i = j)
  BY <1>2, SlotsTail
<1> HIDE DEF i
<1>4. DiskType'
  BY <1>1, <1>2 DEF DiskType, diskVars
<1>5. busy' \in [Inum -> BOOLEAN] /\ valid' \in [Inum -> BOOLEAN]
  BY <1>1, <1>2 DEF CacheType
<1>6. CallType' /\ Others(p) /\ put'[p] = Tail(put[p]) /\ free'[p] = "no"
  BY <1>1, <1>2, <1>3 DEF CallType, Others
<1>7. Phase(p)'
  BY <1>1, <1>2, <1>3, <1>6 DEF Phase
<1>8. ref' \in [Inum -> Int] /\ \A j \in Inum : ref'[j] = ref[j] - One(i = j)
  BY <1>1, <1>2, <1>3, OneMore
<1>9. ASSUME NEW j \in Inum PROVE ref'[j] = (ref[j] - Own(p, j)) + Own(p, j)'
  <2> DEFINE r == One(cwd[p] = j) + One(fd[p] = j) + One(cur[p] = j) + One(tgt[p] = j)
             s == Slots(put[p], j)
             o == One(i = j)
  <2>1. Own(p, j) = r + s /\ Own(p, j)' = r + (s - o)
    BY <1>1, <1>3, <1>6 DEF Own
  <2>2. r \in Int /\ s \in Int /\ o \in Int /\ ref[j] \in Int
    BY <1>2 DEF One, Slots, CacheType
  <2>3. ref'[j] = ref[j] - o
    BY <1>8
  <2> HIDE DEF r, s, o
  <2> QED
    BY <2>1, <2>2, <2>3
<1> QED
  BY <1>4, <1>5, <1>6, <1>7, <1>8, <1>9, Assemble

-----------------------------------------------------------------------------
(* Steps that end a call *)

\* The call puts the inode i, the only one it has.
LEMMA PutsOne ==
    ASSUME Inv, NEW p \in Proc, NEW i \in Inum, Return(p, <<i>>), put[p] = <<>>,
           UNCHANGED <<free, cwd, fd, ref>>, DiskType',
           busy' \in [Inum -> BOOLEAN], valid' \in [Inum -> BOOLEAN],
           (cur[p] = i /\ tgt[p] = 0) \/ (cur[p] = 0 /\ tgt[p] = i)
    PROVE  Inv'
<1>1. CallType /\ 0 \notin Inum
  BY Facts
<1>2. cwd' \in [Proc -> Inum] /\ fd' \in [Proc -> 0 .. NINODES] /\ (\A q \in Proc : cwd'[q] = cwd[q] /\ fd'[q] = fd[q])
  BY <1>1 DEF CallType
<1>3. <<i>> \in Seq(Inum) /\ Len(<<i>>) <= 2
  OBVIOUS
<1>4. ASSUME NEW j \in Inum
      PROVE  One(cwd[p] = j) + One(fd[p] = j) + One(cur[p] = j) + One(tgt[p] = j)
               = One(cwd'[p] = j) + One(fd'[p] = j) + Slots(<<i>>, j)
  <2>1. Slots(<<i>>, j) = One(i = j) /\ One(0 = j) = 0
    BY <1>1, SlotsOf DEF One
  <2>2. One(cur[p] = j) + One(tgt[p] = j) = One(i = j)
    BY <1>1 DEF One
  <2>3. One(cwd'[p] = j) = One(cwd[p] = j) /\ One(fd'[p] = j) = One(fd[p] = j)
    BY <1>2
  <2>4. /\ One(cwd[p] = j) \in Int /\ One(fd[p] = j) \in Int /\ One(cur[p] = j) \in Int
        /\ One(tgt[p] = j) \in Int /\ One(i = j) \in Int
    BY DEF One
  <2> QED
    BY <2>1, <2>2, <2>3, <2>4
<1> QED
  BY <1>2, <1>3, <1>4, ReturnKeeps

\* The call keeps the inode i, the only one it has, in the descriptor.
LEMMA KeepsOne ==
    ASSUME Inv, NEW p \in Proc, NEW i \in Inum, Return(p, <<>>), put[p] = <<>>,
           UNCHANGED <<free, cwd, ref>>, fd[p] = 0, fd' = [fd EXCEPT ![p] = i], DiskType',
           busy' \in [Inum -> BOOLEAN], valid' \in [Inum -> BOOLEAN],
           (cur[p] = i /\ tgt[p] = 0) \/ (cur[p] = 0 /\ tgt[p] = i)
    PROVE  Inv'
<1>1. CallType /\ 0 \notin Inum /\ i \in 0 .. NINODES
  BY Facts
<1>2. /\ cwd' \in [Proc -> Inum] /\ fd' \in [Proc -> 0 .. NINODES] /\ fd'[p] = i
      /\ cwd'[p] = cwd[p] /\ \A q \in Proc : q # p => cwd'[q] = cwd[q] /\ fd'[q] = fd[q]
  BY <1>1 DEF CallType
<1>3. <<>> \in Seq(Inum) /\ Len(<<>>) <= 2 /\ free' = free /\ ref' = ref
  OBVIOUS
<1>4. ASSUME NEW j \in Inum
      PROVE  One(cwd[p] = j) + One(fd[p] = j) + One(cur[p] = j) + One(tgt[p] = j)
               = One(cwd'[p] = j) + One(fd'[p] = j) + Slots(<<>>, j)
  <2>1. Slots(<<>>, j) = 0 /\ One(0 = j) = 0
    BY <1>1, SlotsOf DEF One
  <2>2. One(cur[p] = j) + One(tgt[p] = j) = One(i = j) /\ One(fd[p] = j) = 0
    BY <1>1 DEF One
  <2>3. One(cwd'[p] = j) = One(cwd[p] = j) /\ One(fd'[p] = j) = One(i = j)
    BY <1>2
  <2>4. /\ One(cwd[p] = j) \in Int /\ One(cur[p] = j) \in Int /\ One(tgt[p] = j) \in Int /\ One(i = j) \in Int
    BY DEF One
  <2> QED
    BY <2>1, <2>2, <2>3, <2>4
<1> QED
  BY <1>2, <1>3, <1>4, ReturnKeeps

LEMMA OpenKeeps ==
    ASSUME Inv, NEW p \in Proc, Open(p)
    PROVE  Inv'
<1>1. /\ put[p] = <<>> /\ pc[p] = "walk" /\ op[p] = "open" /\ valid' = [valid EXCEPT ![cur[p]] = TRUE]
      /\ UNCHANGED <<diskVars, ref, busy, free, cwd, lost>>
  BY DEF Open, Found, At, history
<1>2. DiskType /\ CacheType /\ CallType /\ Phase(p) /\ cur[p] \in Inum
  BY <1>1, Facts
<1>3. tgt[p] = 0 /\ fd[p] = 0
  BY <1>1, <1>2 DEF Phase
<1>4. DiskType'
  BY <1>1, <1>2 DEF DiskType, diskVars
<1>5. busy' \in [Inum -> BOOLEAN] /\ valid' \in [Inum -> BOOLEAN]
  BY <1>1, <1>2 DEF CacheType
<1>6. CASE Return(p, <<cur[p]>>) /\ UNCHANGED fd
  BY <1>1, <1>2, <1>3, <1>4, <1>5, <1>6, PutsOne
<1>7. CASE Return(p, <<>>) /\ fd' = [fd EXCEPT ![p] = cur[p]]
  BY <1>1, <1>2, <1>3, <1>4, <1>5, <1>7, KeepsOne
<1> QED
  BY <1>6, <1>7 DEF Open

LEMMA OpenExistingKeeps ==
    ASSUME Inv, NEW p \in Proc, OpenExisting(p)
    PROVE  Inv'
<1>1. /\ put[p] = <<>> /\ pc[p] = "exists" /\ valid' = [valid EXCEPT ![tgt[p]] = TRUE]
      /\ UNCHANGED <<diskVars, ref, busy, free, cwd, lost>>
  BY DEF OpenExisting, At, history
<1>2. DiskType /\ CacheType /\ CallType /\ Phase(p) /\ cur[p] = 0 /\ (tgt[p] # 0 => tgt[p] \in Inum)
  BY <1>1, Facts
<1>3. tgt[p] \in Inum /\ (op[p] = "create" => fd[p] = 0)
  BY <1>1, <1>2 DEF Phase
<1>4. DiskType'
  BY <1>1, <1>2 DEF DiskType, diskVars
<1>5. busy' \in [Inum -> BOOLEAN] /\ valid' \in [Inum -> BOOLEAN]
  BY <1>1, <1>2 DEF CacheType
<1>6. CASE Return(p, <<tgt[p]>>) /\ UNCHANGED fd
  BY <1>1, <1>2, <1>3, <1>4, <1>5, <1>6, PutsOne
<1>7. CASE op[p] = "create" /\ Return(p, <<>>) /\ fd' = [fd EXCEPT ![p] = tgt[p]]
  BY <1>1, <1>2, <1>3, <1>4, <1>5, <1>7, KeepsOne
<1> QED
  BY <1>6, <1>7 DEF OpenExisting

LEMMA CreateDoneKeeps ==
    ASSUME Inv, NEW p \in Proc, CreateDone(p)
    PROVE  Inv'
<1>1. /\ put[p] = <<>> /\ pc[p] = "made" /\ busy' = [busy EXCEPT ![tgt[p]] = FALSE]
      /\ UNCHANGED <<diskVars, ref, valid, free, cwd, lost>>
  BY DEF CreateDone, At, history
<1>2. DiskType /\ CacheType /\ CallType /\ Phase(p) /\ cur[p] = 0 /\ (tgt[p] # 0 => tgt[p] \in Inum)
  BY <1>1, Facts
<1>3. tgt[p] \in Inum /\ (op[p] = "create" => fd[p] = 0)
  BY <1>1, <1>2 DEF Phase
<1>4. DiskType'
  BY <1>1, <1>2 DEF DiskType, diskVars
<1>5. busy' \in [Inum -> BOOLEAN] /\ valid' \in [Inum -> BOOLEAN]
  BY <1>1, <1>2 DEF CacheType
<1>6. CASE Return(p, <<tgt[p]>>) /\ UNCHANGED fd
  BY <1>1, <1>2, <1>3, <1>4, <1>5, <1>6, PutsOne
<1>7. CASE op[p] = "create" /\ Return(p, <<>>) /\ fd' = [fd EXCEPT ![p] = tgt[p]]
  BY <1>1, <1>2, <1>3, <1>4, <1>5, <1>7, KeepsOne
<1> QED
  BY <1>6, <1>7 DEF CreateDone

LEMMA UnlinkDropKeeps ==
    ASSUME Inv, NEW p \in Proc, UnlinkDrop(p)
    PROVE  Inv'
<1>1. /\ put[p] = <<>> /\ pc[p] = "drop" /\ busy' = [busy EXCEPT ![tgt[p]] = FALSE]
      /\ nlink' = [nlink EXCEPT ![tgt[p]] = @ - 1] /\ Return(p, <<tgt[p]>>)
      /\ UNCHANGED <<type, entry, dotdot, ref, valid, free, cwd, fd, lost>>
  BY DEF UnlinkDrop, At, history
<1>2. DiskType /\ CacheType /\ CallType /\ Phase(p) /\ cur[p] = 0 /\ (tgt[p] # 0 => tgt[p] \in Inum)
  BY <1>1, Facts
<1>3. tgt[p] \in Inum
  BY <1>1, <1>2 DEF Phase
<1>4. DiskType'
  <2>1. nlink' \in [Inum -> Int]
    BY <1>1, <1>2, <1>3 DEF DiskType
  <2> QED
    BY <1>1, <1>2, <2>1 DEF DiskType
<1>5. busy' \in [Inum -> BOOLEAN] /\ valid' \in [Inum -> BOOLEAN]
  BY <1>1, <1>2 DEF CacheType
<1> QED
  BY <1>1, <1>2, <1>3, <1>4, <1>5, PutsOne

LEMMA LinkUndoKeeps ==
    ASSUME Inv, NEW p \in Proc, LinkUndo(p)
    PROVE  Inv'
<1>1. /\ put[p] = <<>> /\ pc[p] = "undo" /\ valid' = [valid EXCEPT ![tgt[p]] = TRUE]
      /\ nlink' = [nlink EXCEPT ![tgt[p]] = @ - 1] /\ Return(p, <<tgt[p]>>)
      /\ UNCHANGED <<type, entry, dotdot, ref, busy, free, cwd, fd, lost>>
  BY DEF LinkUndo, At, history
<1>2. DiskType /\ CacheType /\ CallType /\ Phase(p) /\ cur[p] = 0 /\ (tgt[p] # 0 => tgt[p] \in Inum)
  BY <1>1, Facts
<1>3. tgt[p] \in Inum
  BY <1>1, <1>2 DEF Phase
<1>4. DiskType'
  <2>1. nlink' \in [Inum -> Int]
    BY <1>1, <1>2, <1>3 DEF DiskType
  <2> QED
    BY <1>1, <1>2, <2>1 DEF DiskType
<1>5. busy' \in [Inum -> BOOLEAN] /\ valid' \in [Inum -> BOOLEAN]
  BY <1>1, <1>2 DEF CacheType
<1> QED
  BY <1>1, <1>2, <1>3, <1>4, <1>5, PutsOne

LEMMA CloseKeeps ==
    ASSUME Inv, NEW p \in Proc, Close(p)
    PROVE  Inv'
<1>1. /\ put[p] = <<>> /\ pc[p] = "user" /\ fd[p] # 0 /\ put' = [put EXCEPT ![p] = <<fd[p]>>]
      /\ fd' = [fd EXCEPT ![p] = 0]
      /\ UNCHANGED <<diskVars, lost, ref, busy, valid, pc, op, rest, cur, tgt, free, cwd>>
  BY DEF Close, At, cacheVars, history
<1>2. /\ DiskType /\ CacheType /\ CallType /\ Phase(p) /\ fd[p] \in 0 .. NINODES /\ 0 \notin Inum
      /\ 0 \in 0 .. NINODES
  BY Facts
<1>3. fd[p] \in Inum
  BY <1>1, <1>2 DEF Inum
<1>4. DiskType'
  BY <1>1, <1>2 DEF DiskType, diskVars
<1>5. busy' \in [Inum -> BOOLEAN] /\ valid' \in [Inum -> BOOLEAN]
  BY <1>1, <1>2 DEF CacheType
<1>6. <<fd[p]>> \in Seq(Inum) /\ Len(<<fd[p]>>) = 1 /\ <<fd[p]>> # <<>>
  BY <1>3
<1>7. CallType' /\ Others(p) /\ put'[p] = <<fd[p]>> /\ fd'[p] = 0
  BY <1>1, <1>2, <1>6 DEF CallType, Others
<1>8. Phase(p)'
  BY <1>1, <1>2, <1>6, <1>7 DEF Phase
<1>9. ref' \in [Inum -> Int]
  BY <1>1, <1>2 DEF CacheType
<1>10. ASSUME NEW j \in Inum PROVE ref'[j] = (ref[j] - Own(p, j)) + Own(p, j)'
  <2> DEFINE a1 == One(cwd[p] = j)  a2 == One(fd[p] = j)  a3 == One(cur[p] = j)  a4 == One(tgt[p] = j)
  <2>1. Slots(<<fd[p]>>, j) = a2 /\ Slots(put[p], j) = 0 /\ One(fd'[p] = j) = 0
    BY <1>1, <1>2, <1>7, SlotsOf DEF One
  <2>2. Own(p, j) = a1 + a2 + a3 + a4 + 0
    BY <2>1 DEF Own
  <2>3. Own(p, j)' = a1 + 0 + a3 + a4 + a2
    BY <1>1, <1>7, <2>1 DEF Own
  <2>4. a1 \in Int /\ a2 \in Int /\ a3 \in Int /\ a4 \in Int /\ ref[j] \in Int /\ ref'[j] = ref[j]
    BY <1>1, <1>2 DEF One, CacheType
  <2> HIDE DEF a1, a2, a3, a4
  <2> QED
    BY <2>2, <2>3, <2>4
<1> QED
  BY <1>4, <1>5, <1>7, <1>8, <1>9, <1>10, Assemble

LEMMA ChdirKeeps ==
    ASSUME Inv, NEW p \in Proc, Chdir(p)
    PROVE  Inv'
<1>1. /\ put[p] = <<>> /\ pc[p] = "walk" /\ op[p] = "chdir" /\ valid' = [valid EXCEPT ![cur[p]] = TRUE]
      /\ UNCHANGED <<diskVars, ref, busy, free, fd, lost>>
  BY DEF Chdir, Found, At, history
<1>2. /\ DiskType /\ CacheType /\ CallType /\ Phase(p) /\ cur[p] \in Inum /\ cwd[p] \in Inum
      /\ 0 \notin Inum
  BY <1>1, Facts
<1>3. tgt[p] = 0
  BY <1>1, <1>2 DEF Phase
<1>4. DiskType'
  BY <1>1, <1>2 DEF DiskType, diskVars
<1>5. busy' \in [Inum -> BOOLEAN] /\ valid' \in [Inum -> BOOLEAN]
  BY <1>1, <1>2 DEF CacheType
<1>6. CASE Return(p, <<cur[p]>>) /\ UNCHANGED cwd
  BY <1>1, <1>2, <1>3, <1>4, <1>5, <1>6, PutsOne
<1>7. CASE Return(p, <<cwd[p]>>) /\ cwd' = [cwd EXCEPT ![p] = cur[p]]
  <2>1. /\ cwd' \in [Proc -> Inum] /\ fd' \in [Proc -> 0 .. NINODES] /\ cwd'[p] = cur[p] /\ fd'[p] = fd[p]
        /\ \A q \in Proc : q # p => cwd'[q] = cwd[q] /\ fd'[q] = fd[q]
    BY <1>1, <1>2, <1>7 DEF CallType
  <2>2. <<cwd[p]>> \in Seq(Inum) /\ Len(<<cwd[p]>>) <= 2
    BY <1>2
  <2>3. ASSUME NEW j \in Inum
        PROVE  One(cwd[p] = j) + One(fd[p] = j) + One(cur[p] = j) + One(tgt[p] = j)
                 = One(cwd'[p] = j) + One(fd'[p] = j) + Slots(<<cwd[p]>>, j)
    <3>1. Slots(<<cwd[p]>>, j) = One(cwd[p] = j) /\ One(tgt[p] = j) = 0
      BY <1>2, <1>3, SlotsOf DEF One
    <3>2. One(cwd'[p] = j) = One(cur[p] = j) /\ One(fd'[p] = j) = One(fd[p] = j)
      BY <2>1
    <3>3. One(cwd[p] = j) \in Int /\ One(fd[p] = j) \in Int /\ One(cur[p] = j) \in Int
      BY DEF One
    <3> QED
      BY <3>1, <3>2, <3>3
  <2>4. Return(p, <<cwd[p]>>) /\ put[p] = <<>> /\ free' = free /\ ref' = ref
    BY <1>1, <1>7
  <2> QED
    BY <1>4, <1>5, <2>1, <2>2, <2>3, <2>4, ReturnKeeps
<1> QED
  BY <1>6, <1>7 DEF Chdir

\* The call puts both inodes it has.
LEMMA PutsTwo ==
    ASSUME Inv, NEW p \in Proc, NEW a \in Inum, NEW b \in Inum, Return(p, <<a, b>>), put[p] = <<>>,
           UNCHANGED <<free, cwd, fd, ref>>, DiskType',
           busy' \in [Inum -> BOOLEAN], valid' \in [Inum -> BOOLEAN],
           (cur[p] = a /\ tgt[p] = b) \/ (cur[p] = b /\ tgt[p] = a)
    PROVE  Inv'
<1>1. CallType /\ 0 \notin Inum
  BY Facts
<1>2. cwd' \in [Proc -> Inum] /\ fd' \in [Proc -> 0 .. NINODES] /\ (\A q \in Proc : cwd'[q] = cwd[q] /\ fd'[q] = fd[q])
  BY <1>1 DEF CallType
<1>3. <<a, b>> \in Seq(Inum) /\ Len(<<a, b>>) <= 2
  OBVIOUS
<1>4. ASSUME NEW j \in Inum
      PROVE  One(cwd[p] = j) + One(fd[p] = j) + One(cur[p] = j) + One(tgt[p] = j)
               = One(cwd'[p] = j) + One(fd'[p] = j) + Slots(<<a, b>>, j)
  <2>1. Slots(<<a, b>>, j) = One(a = j) + One(b = j)
    BY SlotsTwo
  <2>2. One(cur[p] = j) + One(tgt[p] = j) = One(a = j) + One(b = j)
    BY DEF One
  <2>3. One(cwd'[p] = j) = One(cwd[p] = j) /\ One(fd'[p] = j) = One(fd[p] = j)
    BY <1>2
  <2>4. /\ One(cwd[p] = j) \in Int /\ One(fd[p] = j) \in Int /\ One(cur[p] = j) \in Int
        /\ One(tgt[p] = j) \in Int /\ One(a = j) \in Int /\ One(b = j) \in Int
    BY DEF One
  <2> QED
    BY <2>1, <2>2, <2>3, <2>4
<1> QED
  BY <1>2, <1>3, <1>4, ReturnKeeps

\* link() failed to look its new name up: the directory is to be put, the
\* target stays.
LEMMA UndoKeeps ==
    ASSUME Inv, NEW p \in Proc, NEW i \in Inum, cur[p] = i, tgt[p] # 0, put[p] = <<>>, op[p] = "link",
           Then(p, "undo", <<i>>), cur' = [cur EXCEPT ![p] = 0],
           UNCHANGED <<op, rest, tgt, free, cwd, fd, ref>>, DiskType',
           busy' \in [Inum -> BOOLEAN], valid' \in [Inum -> BOOLEAN]
    PROVE  Inv'
<1>1. CacheType /\ CallType /\ Phase(p) /\ 0 \notin Inum /\ 0 \in 0 .. NINODES
  BY Facts
<1>2. <<i>> \in Seq(Inum) /\ Len(<<i>>) = 1 /\ <<i>> # <<>>
  OBVIOUS
<1>3. pc' = [pc EXCEPT ![p] = "undo"] /\ put' = [put EXCEPT ![p] = <<i>>]
  BY DEF Then
<1>4. CallType' /\ Others(p) /\ put'[p] = <<i>> /\ pc'[p] = "undo" /\ cur'[p] = 0 /\ tgt'[p] = tgt[p]
  BY <1>1, <1>2, <1>3 DEF CallType, Others, Steps
<1>5. Phase(p)'
  BY <1>1, <1>2, <1>4 DEF Phase
<1>6. ref' \in [Inum -> Int]
  BY <1>1 DEF CacheType
<1>7. ASSUME NEW j \in Inum PROVE ref'[j] = (ref[j] - Own(p, j)) + Own(p, j)'
  <2> DEFINE a1 == One(cwd[p] = j)  a2 == One(fd[p] = j)  a3 == One(i = j)  a4 == One(tgt[p] = j)
  <2>1. Slots(<<i>>, j) = a3 /\ Slots(put[p], j) = 0 /\ One(cur'[p] = j) = 0
    BY <1>1, <1>4, SlotsOf DEF One
  <2>2. Own(p, j) = a1 + a2 + a3 + a4 + 0
    BY <2>1 DEF Own
  <2>3. Own(p, j)' = a1 + a2 + 0 + a4 + a3
    BY <1>4, <2>1 DEF Own
  <2>4. a1 \in Int /\ a2 \in Int /\ a3 \in Int /\ a4 \in Int /\ ref[j] \in Int /\ ref'[j] = ref[j]
    BY <1>1 DEF One, CacheType
  <2> HIDE DEF a1, a2, a3, a4
  <2> QED
    BY <2>2, <2>3, <2>4
<1> QED
  BY <1>4, <1>5, <1>6, <1>7, Assemble

\* namex() or the check of the name fails in the walk or at the parent.
LEMMA FailKeeps ==
    ASSUME Inv, NEW p \in Proc, Fail(p), put[p] = <<>>, pc[p] \in {"walk", "parent"},
           UNCHANGED <<free, cwd, fd, ref>>, DiskType',
           busy' \in [Inum -> BOOLEAN], valid' \in [Inum -> BOOLEAN]
    PROVE  Inv'
<1>1. Phase(p) /\ cur[p] \in Inum
  BY Facts
<1>2. CASE op[p] = "link"
  <2>1. Then(p, "undo", <<cur[p]>>) /\ cur' = [cur EXCEPT ![p] = 0] /\ UNCHANGED <<op, rest, tgt>> /\ tgt[p] # 0
    BY <1>1, <1>2 DEF Fail, Phase
  <2> QED
    BY <1>1, <1>2, <2>1, UndoKeeps
<1>3. CASE op[p] # "link"
  <2>1. Return(p, <<cur[p]>>) /\ tgt[p] = 0
    BY <1>1, <1>3 DEF Fail, Phase
  <2> QED
    BY <1>1, <2>1, PutsOne
<1> QED
  BY <1>2, <1>3

LEMMA LinkEnterKeeps ==
    ASSUME Inv, NEW p \in Proc, LinkEnter(p)
    PROVE  Inv'
<1> DEFINE d == cur[p]
           n == Head(rest[p])
<1>1. /\ put[p] = <<>> /\ pc[p] = "parent" /\ op[p] = "link" /\ valid' = [valid EXCEPT ![d] = TRUE]
      /\ UNCHANGED <<type, nlink, dotdot, ref, busy, free, cwd, fd, lost>>
  BY DEF LinkEnter, AtParent, At, history
<1>2. DiskType /\ CacheType /\ CallType /\ Phase(p) /\ d \in Inum /\ (tgt[p] # 0 => tgt[p] \in Inum)
      /\ \A i \in Inum : i \in 0 .. NINODES
  BY <1>1, Facts
<1>3. tgt[p] \in Inum
  BY <1>1, <1>2 DEF Phase
<1>4. busy' \in [Inum -> BOOLEAN] /\ valid' \in [Inum -> BOOLEAN]
  BY <1>1, <1>2 DEF CacheType
<1>5. CASE Fail(p) /\ UNCHANGED entry
  <2>1. DiskType'
    BY <1>1, <1>2, <1>5 DEF DiskType
  <2> QED
    BY <1>1, <1>4, <1>5, <2>1, FailKeeps
<1>6. CASE entry' = [entry EXCEPT ![d][n] = tgt[p]] /\ Return(p, <<d, tgt[p]>>)
  <2>1. entry' \in [Inum -> [Names -> 0 .. NINODES]]
    BY <1>2, <1>3, <1>6 DEF DiskType
  <2>2. DiskType'
    BY <1>1, <1>2, <2>1 DEF DiskType
  <2> QED
    BY <1>1, <1>2, <1>3, <1>4, <1>6, <2>2, PutsTwo
<1> QED
  BY <1>5, <1>6 DEF LinkEnter

-----------------------------------------------------------------------------
(* Steps that go on with a call *)

\* The call gets a pointer to i.
LEMMA GetsOne ==
    ASSUME Inv, NEW p \in Proc, NEW i \in Inum, Get(i), DiskType', CallType', Others(p), Phase(p)',
           busy' \in [Inum -> BOOLEAN], valid' \in [Inum -> BOOLEAN],
           put[p] = <<>>, cwd' = cwd, fd' = fd,
           \A j \in Inum : One(cur'[p] = j) + One(tgt'[p] = j) + Slots(put'[p], j)
                             = One(cur[p] = j) + One(tgt[p] = j) + One(i = j)
    PROVE  Inv'
<1>1. CacheType /\ ref' = [ref EXCEPT ![i] = @ + 1]
  BY Facts DEF Get
<1>2. ref' \in [Inum -> Int] /\ \A j \in Inum : ref[j] \in Int /\ ref'[j] = ref[j] + One(i = j)
  BY <1>1, OneMore
<1>3. ASSUME NEW j \in Inum PROVE ref'[j] = (ref[j] - Own(p, j)) + Own(p, j)'
  <2> DEFINE a1 == One(cwd[p] = j)  a2 == One(fd[p] = j)  a3 == One(cur[p] = j)  a4 == One(tgt[p] = j)
             b3 == One(cur'[p] = j)  b4 == One(tgt'[p] = j)  b5 == Slots(put'[p], j)  o == One(i = j)
  <2>1. Own(p, j) = a1 + a2 + a3 + a4 + 0
    BY SlotsOf DEF Own
  <2>2. Own(p, j)' = a1 + a2 + b3 + b4 + b5
    BY DEF Own
  <2>3. /\ a1 \in Int /\ a2 \in Int /\ a3 \in Int /\ a4 \in Int /\ b3 \in Int /\ b4 \in Int /\ b5 \in Int /\ o \in Int
        /\ b3 + b4 + b5 = a3 + a4 + o
    BY DEF One, Slots
  <2>4. ref[j] \in Int /\ ref'[j] = ref[j] + o
    BY <1>2
  <2> HIDE DEF a1, a2, a3, a4, b3, b4, b5, o
  <2> QED
    BY <2>1, <2>2, <2>3, <2>4
<1> QED
  BY <1>2, <1>3, Assemble

\* The call moves the pointers it has.
LEMMA Moves ==
    ASSUME Inv, NEW p \in Proc, ref' = ref, DiskType', CallType', Others(p), Phase(p)',
           busy' \in [Inum -> BOOLEAN], valid' \in [Inum -> BOOLEAN],
           put[p] = <<>>, cwd' = cwd, fd' = fd,
           \A j \in Inum : One(cur'[p] = j) + One(tgt'[p] = j) + Slots(put'[p], j)
                             = One(cur[p] = j) + One(tgt[p] = j)
    PROVE  Inv'
<1>1. ref' \in [Inum -> Int] /\ \A j \in Inum : ref[j] \in Int /\ ref'[j] = ref[j]
  BY Facts DEF CacheType
<1>2. ASSUME NEW j \in Inum PROVE ref'[j] = (ref[j] - Own(p, j)) + Own(p, j)'
  <2> DEFINE a1 == One(cwd[p] = j)  a2 == One(fd[p] = j)  a3 == One(cur[p] = j)  a4 == One(tgt[p] = j)
             b3 == One(cur'[p] = j)  b4 == One(tgt'[p] = j)  b5 == Slots(put'[p], j)
  <2>1. Own(p, j) = a1 + a2 + a3 + a4 + 0
    BY SlotsOf DEF Own
  <2>2. Own(p, j)' = a1 + a2 + b3 + b4 + b5
    BY DEF Own
  <2>3. /\ a1 \in Int /\ a2 \in Int /\ a3 \in Int /\ a4 \in Int /\ b3 \in Int /\ b4 \in Int /\ b5 \in Int
        /\ b3 + b4 + b5 = a3 + a4
    BY DEF One, Slots
  <2>4. ref[j] \in Int /\ ref'[j] = ref[j]
    BY <1>1
  <2> HIDE DEF a1, a2, a3, a4, b3, b4, b5
  <2> QED
    BY <2>1, <2>2, <2>3, <2>4
<1> QED
  BY <1>1, <1>2, Assemble

\* A path has its names, and starts at an inode.
LEMMA PathStarts ==
    ASSUME CallType, NEW p \in Proc, NEW what, NEW path, IsPath(path), Start(p, what, path)
    PROVE  \E i \in Inum : /\ Get(i) /\ cur' = [cur EXCEPT ![p] = i]
                           /\ op' = [op EXCEPT ![p] = what] /\ rest' = [rest EXCEPT ![p] = path.names]
                           /\ pc' = [pc EXCEPT ![p] = "walk"]
                           /\ path.names \in Seq(Names \cup {".."})
<1> DEFINE i == IF path.abs THEN Root ELSE cwd[p]
<1>1. i \in Inum
  BY InodeAssumption DEF CallType, Inum, Root
<1>2. /\ Get(i) /\ cur' = [cur EXCEPT ![p] = i] /\ op' = [op EXCEPT ![p] = what]
      /\ rest' = [rest EXCEPT ![p] = path.names] /\ pc' = [pc EXCEPT ![p] = "walk"]
  BY DEF Start
<1>3. path.names \in Seq(Names \cup {".."})
  BY DEF IsPath
<1> HIDE DEF i
<1> QED
  BY <1>1, <1>2, <1>3

LEMMA CallKeeps ==
    ASSUME Inv, NEW p \in Proc, NEW c \in Calls, Call(p, c)
    PROVE  Inv'
<1>1. /\ put[p] = <<>> /\ pc[p] = "user" /\ (c.op \in {"open", "create"} => fd[p] = 0)
      /\ Start(p, c.op, c.path)
      /\ UNCHANGED <<diskVars, lost, busy, valid, tgt, put, free, cwd, fd>>
  BY DEF Call, At, history
<1>2. DiskType /\ CacheType /\ CallType /\ Phase(p) /\ cur[p] = 0 /\ 0 \notin Inum /\ \A i \in Inum : i \in 0 .. NINODES
  BY <1>1, Facts
<1>3. c.op \in {"open", "create", "mkdir", "unlink", "chdir", "link_old"} /\ IsPath(c.path)
  BY InodeAssumption
<1>4. PICK i \in Inum : /\ Get(i) /\ cur' = [cur EXCEPT ![p] = i]
                        /\ op' = [op EXCEPT ![p] = c.op] /\ rest' = [rest EXCEPT ![p] = c.path.names]
                        /\ pc' = [pc EXCEPT ![p] = "walk"]
                        /\ c.path.names \in Seq(Names \cup {".."})
  BY <1>1, <1>2, <1>3, PathStarts
<1>5. tgt[p] = 0
  BY <1>1, <1>2 DEF Phase
<1>6. DiskType'
  BY <1>1, <1>2 DEF DiskType, diskVars
<1>7. busy' \in [Inum -> BOOLEAN] /\ valid' \in [Inum -> BOOLEAN]
  BY <1>1, <1>2 DEF CacheType
<1>8. pc' \in [Proc -> Steps] /\ op' \in [Proc -> Ops] /\ rest' \in [Proc -> Seq(Names \cup {".."})]
      /\ cur' \in [Proc -> 0 .. NINODES]
  BY <1>2, <1>3, <1>4 DEF CallType, Steps, Ops
<1>9. CallType'
  BY <1>1, <1>2, <1>8 DEF CallType
<1>10. Others(p) /\ pc'[p] = "walk" /\ op'[p] = c.op /\ cur'[p] = i /\ tgt'[p] = 0 /\ put'[p] = <<>>
  BY <1>1, <1>2, <1>4, <1>5 DEF CallType, Others
<1>11. Phase(p)'
  BY <1>1, <1>2, <1>3, <1>10 DEF Phase
<1>12. ASSUME NEW j \in Inum
       PROVE  One(cur'[p] = j) + One(tgt'[p] = j) + Slots(put'[p], j)
                = One(cur[p] = j) + One(tgt[p] = j) + One(i = j)
  <2>1. Slots(put'[p], j) = 0
    BY <1>10, SlotsOf
  <2> QED
    BY <1>2, <1>5, <1>10, <2>1 DEF One
<1> QED
  BY <1>1, <1>4, <1>6, <1>7, <1>9, <1>10, <1>11, <1>12, GetsOne

LEMMA LinkCountKeeps ==
    ASSUME Inv, NEW p \in Proc, NEW c \in Calls, c.op = "link_old", LinkCount(p, c.new)
    PROVE  Inv'
<1>1. /\ put[p] = <<>> /\ pc[p] = "walk" /\ op[p] = "link_old" /\ valid' = [valid EXCEPT ![cur[p]] = TRUE]
      /\ UNCHANGED <<type, entry, dotdot, lost, busy, free, cwd, fd>>
  BY DEF LinkCount, Found, At, history
<1>2. DiskType /\ CacheType /\ CallType /\ Phase(p) /\ cur[p] \in Inum /\ 0 \notin Inum /\ \A i \in Inum : i \in 0 .. NINODES
  BY <1>1, Facts
<1>3. tgt[p] = 0
  BY <1>1, <1>2 DEF Phase
<1>4. busy' \in [Inum -> BOOLEAN] /\ valid' \in [Inum -> BOOLEAN]
  BY <1>1, <1>2 DEF CacheType
<1>5. CASE Return(p, <<cur[p]>>) /\ UNCHANGED <<nlink, ref>>
  <2>1. DiskType'
    BY <1>1, <1>2, <1>5 DEF DiskType
  <2> QED
    BY <1>1, <1>2, <1>3, <1>4, <1>5, <2>1, PutsOne
<1>6. CASE /\ nlink' = [nlink EXCEPT ![cur[p]] = Counted(@)] /\ tgt' = [tgt EXCEPT ![p] = cur[p]]
           /\ Start(p, "link", c.new) /\ UNCHANGED put
  <2>1. IsPath(c.new)
    BY InodeAssumption
  <2>2. PICK i \in Inum : /\ Get(i) /\ cur' = [cur EXCEPT ![p] = i]
                          /\ op' = [op EXCEPT ![p] = "link"] /\ rest' = [rest EXCEPT ![p] = c.new.names]
                          /\ pc' = [pc EXCEPT ![p] = "walk"]
                          /\ c.new.names \in Seq(Names \cup {".."})
    BY <1>2, <1>6, <2>1, PathStarts
  <2>3. DiskType'
    <3>1. nlink' \in [Inum -> Int]
      BY <1>2, <1>6 DEF DiskType, Counted
    <3> QED
      BY <1>1, <1>2, <3>1 DEF DiskType
  <2>4. pc' \in [Proc -> Steps] /\ op' \in [Proc -> Ops] /\ rest' \in [Proc -> Seq(Names \cup {".."})]
        /\ cur' \in [Proc -> 0 .. NINODES] /\ tgt' \in [Proc -> 0 .. NINODES]
    BY <1>2, <1>6, <2>2 DEF CallType, Steps, Ops
  <2>5. CallType'
    BY <1>1, <1>2, <1>6, <2>4 DEF CallType
  <2>6. Others(p) /\ pc'[p] = "walk" /\ op'[p] = "link" /\ cur'[p] = i /\ tgt'[p] = cur[p] /\ put'[p] = <<>>
    BY <1>1, <1>2, <1>6, <2>2 DEF CallType, Others
  <2>7. Phase(p)'
    BY <1>1, <1>2, <2>6 DEF Phase
  <2>8. ASSUME NEW j \in Inum
        PROVE  One(cur'[p] = j) + One(tgt'[p] = j) + Slots(put'[p], j)
                 = One(cur[p] = j) + One(tgt[p] = j) + One(i = j)
    <3>1. Slots(put'[p], j) = 0
      BY <2>6, SlotsOf
    <3> QED
      BY <1>2, <1>3, <2>6, <3>1 DEF One
  <2> QED
    BY <1>1, <1>4, <2>2, <2>3, <2>5, <2>6, <2>7, <2>8, GetsOne
<1> QED
  BY <1>5, <1>6 DEF LinkCount

LEMMA WalkKeeps ==
    ASSUME Inv, NEW p \in Proc, Walk(p)
    PROVE  Inv'
<1> DEFINE i == cur[p]
           last == op[p] \in Parent /\ Len(rest[p]) = 1
           next == Lookup(i, Head(rest[p]))
<1>1. /\ put[p] = <<>> /\ pc[p] = "walk" /\ rest[p] # <<>> /\ valid' = [valid EXCEPT ![i] = TRUE]
      /\ UNCHANGED <<diskVars, lost, busy, free, cwd, fd>>
  BY DEF Walk, At
<1>2. /\ DiskType /\ CacheType /\ CallType /\ Phase(p) /\ i \in Inum /\ 0 \notin Inum
      /\ Head(rest[p]) \in Names \cup {".."} /\ Tail(rest[p]) \in Seq(Names \cup {".."})
      /\ \A j \in Inum : j \in 0 .. NINODES
  BY <1>1, Facts
<1>3. DiskType'
  BY <1>1, <1>2 DEF DiskType, diskVars
<1>4. busy' \in [Inum -> BOOLEAN] /\ valid' \in [Inum -> BOOLEAN]
  BY <1>1, <1>2 DEF CacheType
<1>5. \/ type[i] = "dir" /\ last /\ Then(p, "parent", <<>>) /\ UNCHANGED <<ref, op, rest, cur, tgt>>
      \/ Fail(p) /\ UNCHANGED ref
      \/ /\ next # 0 /\ Get(next) /\ Then(p, "walk", <<i>>) /\ rest' = [rest EXCEPT ![p] = Tail(@)]
         /\ cur' = [cur EXCEPT ![p] = next] /\ UNCHANGED <<op, tgt>>
  BY DEF Walk, Follow, history
<1>6. CASE type[i] = "dir" /\ last /\ Then(p, "parent", <<>>) /\ UNCHANGED <<ref, op, rest, cur, tgt>>
  <2>1. pc' = [pc EXCEPT ![p] = "parent"] /\ put' = [put EXCEPT ![p] = <<>>]
    BY <1>6 DEF Then
  <2>2. CallType' /\ Others(p) /\ pc'[p] = "parent" /\ put'[p] = <<>>
    BY <1>1, <1>2, <1>6, <2>1 DEF CallType, Others, Steps
  <2>3. Phase(p)'
    BY <1>1, <1>2, <1>6, <2>2 DEF Phase
  <2>4. ref' \in [Inum -> Int] /\ \A j \in Inum : ref'[j] = (ref[j] - Own(p, j)) + Own(p, j)'
    BY <1>1, <1>2, <1>6, <2>2, Still
  <2> QED
    BY <1>3, <1>4, <2>2, <2>3, <2>4, Assemble
<1>7. CASE Fail(p) /\ UNCHANGED ref
  BY <1>1, <1>3, <1>4, <1>7, FailKeeps
<1>8. CASE /\ next # 0 /\ Get(next) /\ Then(p, "walk", <<i>>) /\ rest' = [rest EXCEPT ![p] = Tail(@)]
           /\ cur' = [cur EXCEPT ![p] = next] /\ UNCHANGED <<op, tgt>>
  <2>1. next \in Inum
    BY <1>2, <1>8, LookupType
  <2>2. pc' = [pc EXCEPT ![p] = "walk"] /\ put' = [put EXCEPT ![p] = <<i>>]
    BY <1>8 DEF Then
  <2> HIDE DEF next, i
  <2>3. <<i>> \in Seq(Inum) /\ Len(<<i>>) = 1 /\ <<i>> # <<>>
    BY <1>2
  <2>4. CallType'
    BY <1>1, <1>2, <1>8, <2>1, <2>2, <2>3 DEF CallType, Steps
  <2>5. Others(p) /\ pc'[p] = "walk" /\ put'[p] = <<i>> /\ cur'[p] = next
    BY <1>1, <1>2, <1>8, <2>2 DEF CallType, Others
  <2>6. Phase(p)'
    BY <1>1, <1>2, <1>8, <2>1, <2>3, <2>5 DEF Phase
  <2>7. ASSUME NEW j \in Inum
        PROVE  One(cur'[p] = j) + One(tgt'[p] = j) + Slots(put'[p], j)
                 = One(cur[p] = j) + One(tgt[p] = j) + One(next = j)
    <3>1. Slots(put'[p], j) = One(i = j)
      BY <2>5, SlotsOf
    <3>2. One(i = j) = One(cur[p] = j) /\ One(cur'[p] = j) = One(next = j) /\ One(tgt'[p] = j) = One(tgt[p] = j)
      BY <1>8, <2>5 DEF i
    <3>3. One(cur[p] = j) \in Int /\ One(next = j) \in Int /\ One(tgt[p] = j) \in Int
      BY DEF One
    <3> QED
      BY <3>1, <3>2, <3>3
  <2> QED
    BY <1>1, <1>3, <1>4, <1>8, <2>1, <2>4, <2>5, <2>6, <2>7, GetsOne
<1> QED
  BY <1>5, <1>6, <1>7, <1>8

LEMMA CreateExistsKeeps ==
    ASSUME Inv, NEW p \in Proc, CreateExists(p)
    PROVE  Inv'
<1> DEFINE i == Lookup(cur[p], Head(rest[p]))
           d == cur[p]
<1>1. /\ put[p] = <<>> /\ pc[p] = "parent" /\ op[p] \in {"create", "mkdir"} /\ valid' = [valid EXCEPT ![d] = TRUE]
      /\ i # 0 /\ Get(i) /\ Then(p, "exists", <<d>>) /\ cur' = [cur EXCEPT ![p] = 0]
      /\ tgt' = [tgt EXCEPT ![p] = i]
      /\ UNCHANGED <<diskVars, lost, busy, op, rest, free, cwd, fd>>
  BY DEF CreateExists, AtParent, At, Follow, history
<1>2. /\ DiskType /\ CacheType /\ CallType /\ Phase(p) /\ d \in Inum /\ 0 \notin Inum /\ 0 \in 0 .. NINODES
      /\ \A j \in Inum : j \in 0 .. NINODES
  BY <1>1, Facts
<1>3. Head(rest[p]) \in Names \cup {".."}
  BY <1>1, <1>2, Facts DEF Phase
<1>4. i \in Inum
  BY <1>1, <1>2, <1>3, LookupType
<1>5. DiskType'
  BY <1>1, <1>2 DEF DiskType, diskVars
<1>6. busy' \in [Inum -> BOOLEAN] /\ valid' \in [Inum -> BOOLEAN]
  BY <1>1, <1>2 DEF CacheType
<1>7. tgt[p] = 0
  BY <1>1, <1>2 DEF Phase
<1>8. pc' = [pc EXCEPT ![p] = "exists"] /\ put' = [put EXCEPT ![p] = <<d>>]
  BY <1>1 DEF Then
<1>9. One(d = d) = 1 /\ d = cur[p]
  BY DEF One
<1> HIDE DEF i, d
<1>10. <<d>> \in Seq(Inum) /\ Len(<<d>>) = 1 /\ <<d>> # <<>>
  BY <1>2
<1>11. CallType'
  BY <1>1, <1>2, <1>4, <1>8, <1>10 DEF CallType, Steps
<1>12. Others(p) /\ pc'[p] = "exists" /\ put'[p] = <<d>> /\ cur'[p] = 0 /\ tgt'[p] = i
  BY <1>1, <1>2, <1>8 DEF CallType, Others
<1>13. Phase(p)'
  BY <1>1, <1>2, <1>4, <1>10, <1>12 DEF Phase
<1>14. ASSUME NEW j \in Inum
       PROVE  One(cur'[p] = j) + One(tgt'[p] = j) + Slots(put'[p], j)
                = One(cur[p] = j) + One(tgt[p] = j) + One(i = j)
  <2>1. Slots(put'[p], j) = One(d = j)
    BY <1>12, SlotsOf
  <2>2. One(0 = j) = 0
    BY <1>2 DEF One
  <2>3. One(d = j) \in Int /\ One(i = j) \in Int
    BY DEF One
  <2> QED
    BY <1>7, <1>9, <1>12, <2>1, <2>2, <2>3
<1> QED
  BY <1>1, <1>4, <1>5, <1>6, <1>11, <1>12, <1>13, <1>14, GetsOne

\* The free inode that ialloc() takes.
LEMMA MinFree ==
    ASSUME FreeInodes # {}
    PROVE  Min(FreeInodes) \in FreeInodes /\ Min(FreeInodes) \in Inum
<1>1. FreeInodes \subseteq Nat
  BY InodeAssumption DEF FreeInodes, Inum
<1>2. PICK m \in FreeInodes : \A x \in FreeInodes : <<x, m>> \notin OpToRel(<, Nat)
  BY <1>1, NatLessThanWellFounded, WFMin
<1>3. ASSUME NEW x \in FreeInodes PROVE m <= x
  <2>1. x \in Nat /\ m \in Nat
    BY <1>1
  <2>2. ASSUME x < m PROVE FALSE
    <3>1. <<x, m>> \in Nat \X Nat /\ <<x, m>>[1] < <<x, m>>[2]
      BY <2>1, <2>2
    <3>2. <<x, m>> \in OpToRel(<, Nat)
      BY <3>1 DEF OpToRel
    <3> QED
      BY <1>2, <3>2
  <2> QED
    BY <2>1, <2>2
<1>4. Min(FreeInodes) \in FreeInodes
  BY <1>3 DEF Min
<1> QED
  BY <1>4 DEF FreeInodes

LEMMA CreateAllocKeeps ==
    ASSUME Inv, NEW p \in Proc, CreateAlloc(p)
    PROVE  Inv'
<1> DEFINE i == Min(FreeInodes)
           d == cur[p]
<1>1. /\ put[p] = <<>> /\ pc[p] = "parent" /\ op[p] \in {"create", "mkdir"} /\ FreeInodes # {}
      /\ type' = [type EXCEPT ![i] = IF op[p] = "mkdir" THEN "dir" ELSE "file"]
      /\ nlink' = [nlink EXCEPT ![i] = 0] /\ Get(i) /\ tgt' = [tgt EXCEPT ![p] = i]
      /\ busy' = [busy EXCEPT ![d] = TRUE] /\ valid' = [valid EXCEPT ![d] = TRUE]
      /\ pc' = [pc EXCEPT ![p] = "fill"]
      /\ UNCHANGED <<entry, dotdot, lost, op, rest, cur, put, free, cwd, fd>>
  BY DEF CreateAlloc, AtParent, At, history
<1>2. /\ DiskType /\ CacheType /\ CallType /\ Phase(p) /\ d \in Inum /\ 0 \notin Inum
      /\ \A j \in Inum : j \in 0 .. NINODES
  BY <1>1, Facts
<1>3. i \in Inum
  BY <1>1, MinFree
<1> HIDE DEF i
<1>4. DiskType'
  <2>1. type' \in [Inum -> {"free", "file", "dir"}]
    BY <1>1, <1>2 DEF DiskType
  <2>2. nlink' \in [Inum -> Int]
    <3>1. nlink \in [Inum -> Int] /\ nlink' = [nlink EXCEPT ![i] = 0]
      BY <1>1, <1>2 DEF DiskType
    <3>2. 0 \in Int
      OBVIOUS
    <3> QED
      BY <3>1, <3>2, Zenon
  <2> QED
    BY <1>1, <1>2, <2>1, <2>2 DEF DiskType
<1>5. busy' \in [Inum -> BOOLEAN] /\ valid' \in [Inum -> BOOLEAN]
  BY <1>1, <1>2 DEF CacheType
<1>6. tgt[p] = 0
  BY <1>1, <1>2 DEF Phase
<1>7. CallType'
  BY <1>1, <1>2, <1>3 DEF CallType, Steps
<1>8. Others(p) /\ pc'[p] = "fill" /\ put'[p] = <<>> /\ cur'[p] = cur[p] /\ tgt'[p] = i
  BY <1>1, <1>2 DEF CallType, Others
<1>9. Phase(p)'
  BY <1>1, <1>2, <1>3, <1>8 DEF Phase
<1>10. ASSUME NEW j \in Inum
       PROVE  One(cur'[p] = j) + One(tgt'[p] = j) + Slots(put'[p], j)
                = One(cur[p] = j) + One(tgt[p] = j) + One(i = j)
  <2>1. Slots(put'[p], j) = 0
    BY <1>8, SlotsOf
  <2>2. One(0 = j) = 0
    BY <1>2 DEF One
  <2>3. One(cur[p] = j) \in Int /\ One(i = j) \in Int
    BY DEF One
  <2> QED
    BY <1>6, <1>8, <2>1, <2>2, <2>3
<1> QED
  BY <1>1, <1>3, <1>4, <1>5, <1>7, <1>8, <1>9, <1>10, GetsOne

LEMMA CreateLinkKeeps ==
    ASSUME Inv, NEW p \in Proc, CreateLink(p)
    PROVE  Inv'
<1> DEFINE i == tgt[p]
           d == cur[p]
           more == IF op[p] = "mkdir" THEN d ELSE 0
<1>1. /\ put[p] = <<>> /\ pc[p] = "fill"
      /\ nlink' = [nlink EXCEPT ![i] = 1, ![d] = IF op[p] = "mkdir" THEN @ + 1 ELSE @]
      /\ dotdot' = [dotdot EXCEPT ![i] = more]
      /\ entry' = [entry EXCEPT ![d][Head(rest[p])] = i]
      /\ busy' = [busy EXCEPT ![i] = TRUE, ![d] = FALSE]
      /\ valid' = [valid EXCEPT ![i] = TRUE]
      /\ Then(p, "made", <<d>>) /\ cur' = [cur EXCEPT ![p] = 0]
      /\ UNCHANGED <<type, lost, ref, op, rest, tgt, free, cwd, fd>>
  BY DEF CreateLink, At, history
<1>2. /\ DiskType /\ CacheType /\ CallType /\ Phase(p) /\ d \in Inum /\ 0 \notin Inum /\ 0 \in 0 .. NINODES
      /\ (i # 0 => i \in Inum) /\ \A j \in Inum : j \in 0 .. NINODES
  BY <1>1, Facts
<1>3. i \in Inum
  BY <1>1, <1>2 DEF Phase
<1>4. pc' = [pc EXCEPT ![p] = "made"] /\ put' = [put EXCEPT ![p] = <<d>>]
  BY <1>1 DEF Then
<1>5. more \in 0 .. NINODES /\ d = cur[p] /\ i = tgt[p]
  BY <1>2
<1> HIDE DEF i, d, more
<1>6. DiskType'
  <2>1. nlink' \in [Inum -> Int]
    <3>1. nlink \in [Inum -> Int]
      BY <1>2 DEF DiskType
    <3>2. nlink' = [nlink EXCEPT ![i] = 1, ![d] = IF op[p] = "mkdir" THEN @ + 1 ELSE @]
      BY <1>1
    <3>3. nlink' = [k \in Inum |-> nlink'[k]]
      BY <3>1, <3>2
    <3>4. ASSUME NEW k \in Inum PROVE nlink'[k] \in Int
      <4>1. nlink[d] \in Int /\ nlink[k] \in Int
        BY <1>2, <3>1
      <4>2. k = d => \/ nlink'[k] = nlink[d] + 1 \/ nlink'[k] = nlink[d]
                     \/ nlink'[k] = 1 + 1 \/ nlink'[k] = 1
        BY <1>2, <3>1, <3>2
      <4>3. k # d => nlink'[k] = IF k = i THEN 1 ELSE nlink[k]
        BY <3>1, <3>2
      <4> QED
        BY <4>1, <4>2, <4>3
    <3> QED
      BY <3>3, <3>4
  <2>2. dotdot' \in [Inum -> 0 .. NINODES]
    BY <1>1, <1>2, <1>5 DEF DiskType
  <2>3. entry' \in [Inum -> [Names -> 0 .. NINODES]]
    BY <1>1, <1>2, <1>3 DEF DiskType
  <2> QED
    BY <1>1, <1>2, <2>1, <2>2, <2>3 DEF DiskType
<1>7. busy' \in [Inum -> BOOLEAN] /\ valid' \in [Inum -> BOOLEAN]
  BY <1>1, <1>2 DEF CacheType
<1>8. <<d>> \in Seq(Inum) /\ Len(<<d>>) = 1 /\ <<d>> # <<>>
  BY <1>2
<1>9. CallType'
  BY <1>1, <1>2, <1>4, <1>8 DEF CallType, Steps
<1>10. Others(p) /\ pc'[p] = "made" /\ put'[p] = <<d>> /\ cur'[p] = 0 /\ tgt'[p] = tgt[p]
  BY <1>1, <1>2, <1>4 DEF CallType, Others
<1>11. Phase(p)'
  BY <1>1, <1>2, <1>3, <1>5, <1>8, <1>10 DEF Phase
<1>12. ASSUME NEW j \in Inum
       PROVE  One(cur'[p] = j) + One(tgt'[p] = j) + Slots(put'[p], j) = One(cur[p] = j) + One(tgt[p] = j)
  <2>1. Slots(put'[p], j) = One(d = j)
    <3>1. \A a : Slots(<<a>>, j) = One(a = j)
      BY SlotsOf
    <3>2. put'[p] = <<d>>
      BY <1>10
    <3> QED
      BY <3>1, <3>2
  <2>2. One(0 = j) = 0
    BY <1>2 DEF One
  <2>3. One(d = j) \in Int /\ One(tgt[p] = j) \in Int
    BY DEF One
  <2> QED
    BY <1>5, <1>10, <2>1, <2>2, <2>3
<1> QED
  BY <1>1, <1>6, <1>7, <1>9, <1>10, <1>11, <1>12, Moves

LEMMA UnlinkLookupKeeps ==
    ASSUME Inv, NEW p \in Proc, UnlinkLookup(p)
    PROVE  Inv'
<1> DEFINE d == cur[p]
           i == Lookup(d, Head(rest[p]))
<1>1. /\ put[p] = <<>> /\ pc[p] = "parent" /\ op[p] = "unlink" /\ valid' = [valid EXCEPT ![d] = TRUE]
      /\ UNCHANGED <<diskVars, lost, free, cwd, fd>>
  BY DEF UnlinkLookup, AtParent, At, history
<1>2. /\ DiskType /\ CacheType /\ CallType /\ Phase(p) /\ d \in Inum /\ 0 \notin Inum /\ 0 \in 0 .. NINODES
      /\ \A j \in Inum : j \in 0 .. NINODES
  BY <1>1, Facts
<1>3. rest[p] # <<>> /\ Head(rest[p]) \in Names \cup {".."} /\ tgt[p] = 0
  BY <1>1, <1>2, Facts DEF Phase
<1>4. DiskType'
  BY <1>1, <1>2 DEF DiskType, diskVars
<1>5. valid' \in [Inum -> BOOLEAN]
  BY <1>1, <1>2 DEF CacheType
<1>6. CASE Return(p, <<d>>) /\ UNCHANGED <<ref, busy>>
  <2>1. busy' \in [Inum -> BOOLEAN]
    BY <1>2, <1>6 DEF CacheType
  <2> QED
    BY <1>1, <1>2, <1>3, <1>4, <1>5, <1>6, <2>1, PutsOne
<1>7. CASE /\ ~Refused(p) /\ Get(i) /\ busy' = [busy EXCEPT ![d] = TRUE] /\ tgt' = [tgt EXCEPT ![p] = i]
           /\ pc' = [pc EXCEPT ![p] = "remove"] /\ UNCHANGED <<op, rest, cur, put>>
  <2>1. i \in Inum
    BY <1>2, <1>3, <1>7, LookupType DEF Refused
  <2> HIDE DEF i
  <2>2. busy' \in [Inum -> BOOLEAN]
    BY <1>2, <1>7 DEF CacheType
  <2>3. CallType'
    BY <1>1, <1>2, <1>7, <2>1 DEF CallType, Steps
  <2>4. Others(p) /\ pc'[p] = "remove" /\ put'[p] = <<>> /\ cur'[p] = cur[p] /\ tgt'[p] = i
    BY <1>1, <1>2, <1>7 DEF CallType, Others
  <2>5. Phase(p)'
    BY <1>1, <1>2, <1>3, <1>7, <2>1, <2>4 DEF Phase
  <2>6. ASSUME NEW j \in Inum
        PROVE  One(cur'[p] = j) + One(tgt'[p] = j) + Slots(put'[p], j)
                 = One(cur[p] = j) + One(tgt[p] = j) + One(i = j)
    <3>1. Slots(put'[p], j) = 0
      BY <2>4, SlotsOf
    <3>2. One(0 = j) = 0
      BY <1>2 DEF One
    <3>3. One(cur[p] = j) \in Int /\ One(i = j) \in Int
      BY DEF One
    <3> QED
      BY <1>3, <2>4, <3>1, <3>2, <3>3
  <2> QED
    BY <1>1, <1>4, <1>5, <1>7, <2>1, <2>2, <2>3, <2>4, <2>5, <2>6, GetsOne
<1> QED
  BY <1>6, <1>7 DEF UnlinkLookup

LEMMA UnlinkRemoveKeeps ==
    ASSUME Inv, NEW p \in Proc, UnlinkRemove(p)
    PROVE  Inv'
<1> DEFINE i == tgt[p]
           d == cur[p]
<1>1. /\ put[p] = <<>> /\ pc[p] = "remove" /\ valid' = [valid EXCEPT ![i] = TRUE]
      /\ UNCHANGED <<type, dotdot, lost, ref, free, cwd, fd>>
  BY DEF UnlinkRemove, At, history
<1>2. /\ DiskType /\ CacheType /\ CallType /\ Phase(p) /\ d \in Inum /\ 0 \notin Inum /\ 0 \in 0 .. NINODES
      /\ (i # 0 => i \in Inum) /\ \A j \in Inum : j \in 0 .. NINODES
  BY <1>1, Facts
<1>3. i \in Inum
  BY <1>1, <1>2 DEF Phase
<1>4. valid' \in [Inum -> BOOLEAN]
  BY <1>1, <1>2 DEF CacheType
<1>5. CASE busy' = [busy EXCEPT ![d] = FALSE] /\ Return(p, <<i, d>>) /\ UNCHANGED <<nlink, entry>>
  <2>1. DiskType'
    BY <1>1, <1>2, <1>5 DEF DiskType
  <2>2. busy' \in [Inum -> BOOLEAN]
    BY <1>2, <1>5 DEF CacheType
  <2> QED
    BY <1>1, <1>2, <1>3, <1>4, <1>5, <2>1, <2>2, PutsTwo
<1>6. CASE /\ entry' = [entry EXCEPT ![d][Head(rest[p])] = 0]
           /\ nlink' = [nlink EXCEPT ![d] = IF type[i] = "dir" THEN @ - 1 ELSE @]
           /\ busy' = [busy EXCEPT ![d] = FALSE, ![i] = TRUE]
           /\ Then(p, "drop", <<d>>) /\ cur' = [cur EXCEPT ![p] = 0] /\ UNCHANGED <<op, rest, tgt>>
  <2>1. pc' = [pc EXCEPT ![p] = "drop"] /\ put' = [put EXCEPT ![p] = <<d>>] /\ d = cur[p] /\ i = tgt[p]
    BY <1>6 DEF Then
  <2> HIDE DEF i, d
  <2>2. DiskType'
    <3>1. nlink' \in [Inum -> Int]
      <4>1. (IF type[i] = "dir" THEN nlink[d] - 1 ELSE nlink[d]) \in Int
        BY <1>2 DEF DiskType
      <4> QED
        BY <1>2, <1>6, <4>1 DEF DiskType
    <3>2. entry' \in [Inum -> [Names -> 0 .. NINODES]]
      BY <1>2, <1>6 DEF DiskType
    <3> QED
      BY <1>1, <1>2, <3>1, <3>2 DEF DiskType
  <2>3. busy' \in [Inum -> BOOLEAN]
    BY <1>2, <1>6 DEF CacheType
  <2>4. <<d>> \in Seq(Inum) /\ Len(<<d>>) = 1 /\ <<d>> # <<>>
    BY <1>2
  <2>5. CallType'
    BY <1>1, <1>2, <1>6, <2>1, <2>4 DEF CallType, Steps
  <2>6. Others(p) /\ pc'[p] = "drop" /\ put'[p] = <<d>> /\ cur'[p] = 0 /\ tgt'[p] = tgt[p]
    BY <1>1, <1>2, <1>6, <2>1 DEF CallType, Others
  <2>7. Phase(p)'
    BY <1>1, <1>2, <1>3, <1>6, <2>1, <2>4, <2>6 DEF Phase
  <2>8. ASSUME NEW j \in Inum
        PROVE  One(cur'[p] = j) + One(tgt'[p] = j) + Slots(put'[p], j) = One(cur[p] = j) + One(tgt[p] = j)
    <3>1. Slots(put'[p], j) = One(d = j)
      BY <2>6, SlotsOne
    <3>2. One(0 = j) = 0
      BY <1>2 DEF One
    <3>3. One(d = j) \in Int /\ One(tgt[p] = j) \in Int
      BY DEF One
    <3> QED
      BY <2>1, <2>6, <3>1, <3>2, <3>3
  <2> QED
    BY <1>1, <1>4, <2>2, <2>3, <2>5, <2>6, <2>7, <2>8, Moves
<1> QED
  BY <1>5, <1>6 DEF UnlinkRemove

-----------------------------------------------------------------------------
(* The theorem *)

LEMMA InitInv == Init => Inv
<1> SUFFICES ASSUME Init PROVE Inv
  OBVIOUS
<1>1. Root \in Inum /\ 0 \in 0 .. NINODES /\ 0 \notin Inum /\ Cardinality(Proc) \in Nat
      /\ \A i \in Inum : i \in 0 .. NINODES
  BY InodeAssumption, FS_CardinalityType DEF Inum, Root
<1>2. DiskType
  <2>1. NoEntries \in [Names -> 0 .. NINODES]
    BY <1>1 DEF NoEntries
  <2> QED
    BY <1>1, <2>1 DEF Init, DiskType
<1>3. CacheType
  BY <1>1 DEF Init, CacheType
<1>4. CallType
  BY <1>1 DEF Init, CallType, Steps, Ops
<1>5. Phases
  BY DEF Init, Phases, Phase
<1>6. ASSUME NEW i \in Inum
      PROVE  /\ {p \in Proc : cwd[p] = i} = IF i = Root THEN Proc ELSE {}
             /\ {p \in Proc : fd[p] = i} = {} /\ {p \in Proc : cur[p] = i} = {}
             /\ {p \in Proc : tgt[p] = i} = {}
             /\ {p \in Proc : put[p] # <<>> /\ put[p][1] = i} = {}
             /\ {p \in Proc : Len(put[p]) = 2 /\ put[p][2] = i} = {}
  BY <1>1 DEF Init
<1>7. RefsExact
  <2> SUFFICES ASSUME NEW i \in Inum
               PROVE  ref[i] = Cardinality({p \in Proc : cwd[p] = i})
                               + Cardinality({p \in Proc : fd[p] = i})
                               + Cardinality({p \in Proc : cur[p] = i})
                               + Cardinality({p \in Proc : tgt[p] = i})
                               + Cardinality({p \in Proc : put[p] # <<>> /\ put[p][1] = i})
                               + Cardinality({p \in Proc : Len(put[p]) = 2 /\ put[p][2] = i})
    BY DEF RefsExact
  <2>1. Cardinality({}) = 0
    BY FS_EmptySet
  <2>2. ref[i] = IF i = Root THEN Cardinality(Proc) ELSE 0
    BY DEF Init
  <2> DEFINE c1 == {p \in Proc : cwd[p] = i}  c2 == {p \in Proc : fd[p] = i}
             c3 == {p \in Proc : cur[p] = i}  c4 == {p \in Proc : tgt[p] = i}
             c5 == {p \in Proc : put[p] # <<>> /\ put[p][1] = i}
             c6 == {p \in Proc : Len(put[p]) = 2 /\ put[p][2] = i}
  <2>3. c1 = (IF i = Root THEN Proc ELSE {}) /\ c2 = {} /\ c3 = {} /\ c4 = {} /\ c5 = {} /\ c6 = {}
    BY <1>6
  <2> HIDE DEF c1, c2, c3, c4, c5, c6
  <2>4. ref[i] = Cardinality(c1) /\ ref[i] \in Nat
    <3>1. CASE i = Root
      BY <1>1, <2>2, <2>3, <3>1
    <3>2. CASE i # Root
      BY <2>1, <2>2, <2>3, <3>2
    <3> QED
      BY <3>1, <3>2
  <2>5. ref[i] = Cardinality(c1) + Cardinality(c2) + Cardinality(c3) + Cardinality(c4) + Cardinality(c5) + Cardinality(c6)
    BY <2>1, <2>3, <2>4
  <2> QED
    BY <2>5 DEF c1, c2, c3, c4, c5, c6
<1> QED
  BY <1>2, <1>3, <1>4, <1>5, <1>7 DEF Inv

\* Nothing of the invariant changes.
LEMMA StutterKeeps ==
    ASSUME Inv, UNCHANGED <<type, nlink, entry, dotdot, lost>>, UNCHANGED <<ref, busy, valid>>,
           UNCHANGED <<pc, op, rest, cur, tgt, put, free, cwd, fd>>
    PROVE  Inv'
<1>1. DiskType'
  BY DEF Inv, DiskType
<1>2. CacheType'
  BY DEF Inv, CacheType
<1>3. CallType'
  BY DEF Inv, CallType
<1>4. Phases'
  BY DEF Inv, Phases, Phase
<1>5. RefsExact'
  BY DEF Inv, RefsExact
<1> QED
  BY <1>1, <1>2, <1>3, <1>4, <1>5 DEF Inv

LEMMA NextInv == Inv /\ [Next]_vars => Inv'
<1> SUFFICES ASSUME Inv, [Next]_vars PROVE Inv'
  OBVIOUS
<1>1. CASE UNCHANGED vars
  BY <1>1, StutterKeeps DEF vars, diskVars, cacheVars, callVars, history
<1>2. ASSUME NEW p \in Proc, Panic(p) PROVE Inv'
  BY <1>2, StutterKeeps DEF Panic, diskVars, cacheVars, callVars, history
<1>3. ASSUME NEW p \in Proc, NEW c \in Calls, c.op = "link_old", LinkCount(p, c.new) PROVE Inv'
  BY <1>3, LinkCountKeeps
<1>4. ASSUME NEW p \in Proc,
             \/ Iput(p) \/ IputDisk(p) \/ IputDone(p) \/ (\E c \in Calls : Call(p, c))
             \/ Walk(p) \/ Open(p) \/ Close(p) \/ Chdir(p)
      PROVE  Inv'
  BY <1>4, IputKeeps, IputDiskKeeps, IputDoneKeeps, CallKeeps, WalkKeeps, OpenKeeps, CloseKeeps, ChdirKeeps
<1>5. ASSUME NEW p \in Proc,
             \/ CreateExists(p) \/ OpenExisting(p) \/ CreateAlloc(p)
             \/ CreateLink(p) \/ CreateDone(p)
             \/ UnlinkLookup(p) \/ UnlinkRemove(p) \/ UnlinkDrop(p)
             \/ LinkEnter(p) \/ LinkUndo(p)
      PROVE  Inv'
  BY <1>5, CreateExistsKeeps, OpenExistingKeeps, CreateAllocKeeps, CreateLinkKeeps, CreateDoneKeeps,
     UnlinkLookupKeeps, UnlinkRemoveKeeps, UnlinkDropKeeps, LinkEnterKeeps, LinkUndoKeeps
<1> QED
  BY <1>1, <1>2, <1>3, <1>4, <1>5 DEF Next, Halted

\* The reference count of a cached inode is the number of pointers to it: the
\* current directories, the open files and what calls in progress have taken
\* with iget() and idup() and not yet given back with iput() (fs.c:121-126).
\* So iget() never recycles an entry that is in use, and iput() frees an inode
\* only when it has the last pointer.
THEOREM ReferencesAreExact == Spec => []RefsExact
<1>1. Inv => RefsExact
  BY DEF Inv
<1> QED
  BY <1>1, InitInv, NextInv, PTL DEF Spec
-----------------------------------------------------------------------------
(* The tree of names: its invariant *)

\* The list s of at most two inodes holds i.
In(s, i) == (s # <<>> /\ s[1] = i) \/ (Len(s) = 2 /\ s[2] = i)

\* Process p has a pointer to i.
Has(p, i) == cwd[p] = i \/ fd[p] = i \/ cur[p] = i \/ tgt[p] = i \/ In(put[p], i)

\* The inode that p is freeing.
Freed(p) == Head(put[p])

\* What p and q have is apart: no inode is locked twice, an inode that is being
\* freed has no other pointer, but once its type is 0 it may have been allocated
\* again, and a new inode without a name is only its creator's.
Apart(p, q) ==
    /\ Locked(p) \cap Locked(q) = {}
    /\ free[p] = "disk" => ~Has(q, Freed(p))
    /\ free[p] = "done" /\ Has(q, Freed(p)) => pc[q] = "fill" /\ tgt[q] = Freed(p)
    /\ pc[p] = "fill" /\ Has(q, tgt[p]) => free[q] = "done" /\ Freed(q) = tgt[p]
AllApart == \A p, q \in Proc : p # q => Apart(p, q)

\* I_BUSY is set where a process is between ilock() and iunlock().
LocksHeld == \A i \in Inum : busy[i] <=> \E p \in Proc : i \in Locked(p)

\* A directory entry that a process has found stays under the directory's lock.
EntryHeld(p) ==
    /\ type[cur[p]] = "dir" /\ Head(rest[p]) \in Names
    /\ entry[cur[p]][Head(rest[p])] = IF pc[p] = "fill" THEN 0 ELSE tgt[p]

\* An inode that ialloc() has found, before create() gives it its name.
NewInode(p) ==
    /\ type[tgt[p]] = IF op[p] = "mkdir" THEN "dir" ELSE "file"
    /\ nlink[tgt[p]] = 0 /\ entry[tgt[p]] = NoEntries /\ dotdot[tgt[p]] = 0
    /\ cur[p] # tgt[p]

\* What p has got is what it takes it for.
Sound(p) ==
    /\ pc[p] \in {"parent", "fill", "remove"} => put[p] = <<>>
    /\ type[cwd[p]] = "dir"
    /\ \A i \in Inum : Has(p, i) /\ type[i] = "free" => free[p] = "done" /\ i = Freed(p)
    /\ pc[p] = "parent" => type[cur[p]] = "dir"
    /\ pc[p] \in {"fill", "remove"} => EntryHeld(p)
    /\ pc[p] = "fill" => NewInode(p)
    /\ op[p] = "link" => pc[p] \in {"walk", "parent", "undo"} /\ type[tgt[p]] = "file"
    /\ pc[p] = "undo" => op[p] = "link"
    /\ free[p] # "no" => nlink[Freed(p)] = 0 /\ Own(p, Freed(p)) = 1
AllSound == \A p \in Proc : Sound(p)

\* The directories form a tree, in which "." and ".." count as they should.
RootGood == type[Root] = "dir" /\ dotdot[Root] = Root
InodeGood(i) ==
    /\ type[i] = "free" => nlink[i] = 0
    /\ type[i] # "dir" => entry[i] = NoEntries /\ dotdot[i] = 0
    /\ type[i] = "dir" => lost[i] = 0
    /\ type[i] = "dir" /\ dotdot[i] = 0 => \E p \in Proc : pc[p] = "fill" /\ tgt[p] = i
\* A directory has one name, in its parent, and is not its parent's parent.
NameGood(d, n, i) ==
    type[i] = "dir" /\ type[d] = "dir" /\ entry[d][n] = i =>
       /\ i # Root /\ dotdot[i] = d
       /\ \A m \in Names : (entry[d][m] = i => m = n) /\ entry[i][m] # d
DiskGood ==
    /\ RootGood
    /\ \A i \in Inum : InodeGood(i)
    /\ \A d, i \in Inum, n \in Names : NameGood(d, n, i)

\* The calls that have counted i for a name that it has not got yet, or not any more.
InFlight(i) == {p \in Proc : tgt[p] = i /\ (op[p] = "link" \/ pc[p] = "drop")}
Count(i) == Cardinality(Links(i)) + Cardinality(Subdirs(i)) + lost[i] + One(i = Root)
            + Cardinality(InFlight(i))
Counts == \A i \in Inum : nlink[i] = Count(i)

Tree == /\ LocksHeld /\ AllApart /\ AllSound /\ DiskGood /\ Counts
        /\ panic \in {"no", "ialloc: no inodes"}
TreeOK == strayed \/ Tree

-----------------------------------------------------------------------------
(* Pointers *)

LEMMA InOf ==
    ASSUME NEW i
    PROVE  /\ ~In(<<>>, i)
           /\ \A a : In(<<a>>, i) <=> a = i
           /\ \A a, b : In(<<a, b>>, i) <=> a = i \/ b = i
<1>1. ~In(<<>>, i)
  BY DEF In
<1>2. ASSUME NEW a PROVE In(<<a>>, i) <=> a = i
  <2>1. <<a>> # <<>> /\ <<a>>[1] = a /\ Len(<<a>>) = 1
    OBVIOUS
  <2> QED
    BY <2>1 DEF In
<1>3. ASSUME NEW a, NEW b PROVE In(<<a, b>>, i) <=> a = i \/ b = i
  <2>1. <<a, b>> # <<>> /\ <<a, b>>[1] = a /\ <<a, b>>[2] = b /\ Len(<<a, b>>) = 2
    OBVIOUS
  <2> QED
    BY <2>1 DEF In
<1> QED
  BY <1>1, <1>2, <1>3

LEMMA InTail ==
    ASSUME NEW s \in Seq(Inum), s # <<>>, Len(s) <= 2, NEW i
    PROVE  /\ In(Tail(s), i) => In(s, i)
           /\ In(s, Head(s))
           /\ In(s, i) => i = Head(s) \/ In(Tail(s), i)
<1> DEFINE t == Tail(s)
<1>1. Head(s) = s[1] /\ t \in Seq(Inum) /\ Len(s) \in Nat \ {0} /\ Len(t) = Len(s) - 1
  OBVIOUS
<1>2. Len(s) = 2 => t[1] = s[2]
  OBVIOUS
<1> HIDE DEF t
<1>3. t # <<>> => Len(t) # 0
  BY <1>1
<1>4. Len(t) = 1 \/ Len(t) = 0
  BY <1>1
<1>5. Len(s) = 2 => t # <<>>
  <2>1. Len(s) = 2 => Len(t) = 1
    BY <1>1
  <2>2. Len(<<>>) = 0
    OBVIOUS
  <2> QED
    BY <2>1, <2>2
<1>6. In(t, i) => In(s, i)
  <2>1. In(t, i) => t # <<>> /\ t[1] = i
    BY <1>3, <1>4 DEF In
  <2>2. t # <<>> => Len(s) = 2 /\ t[1] = s[2]
    BY <1>1, <1>2, <1>3, <1>4
  <2> QED
    BY <2>1, <2>2 DEF In
<1>7. In(s, Head(s))
  BY <1>1 DEF In
<1>8. In(s, i) => i = Head(s) \/ In(t, i)
  BY <1>1, <1>2, <1>5 DEF In
<1> QED
  BY <1>6, <1>7, <1>8 DEF t

LEMMA InSlots ==
    ASSUME NEW s, NEW i
    PROVE  Slots(s, i) \in Nat /\ (Slots(s, i) > 0 <=> In(s, i))
BY DEF Slots, One, In

\* A pointer is one that is counted.
LEMMA HasOwn ==
    ASSUME NEW p, NEW i
    PROVE  /\ Own(p, i) \in Nat
           /\ Own(p, i) > 0 <=> Has(p, i)
           /\ Own(p, i) = 1 /\ In(put[p], i) =>
                 cwd[p] # i /\ fd[p] # i /\ cur[p] # i /\ tgt[p] # i
<1> DEFINE a == One(cwd[p] = i)  b == One(fd[p] = i)  c == One(cur[p] = i)  d == One(tgt[p] = i)
           e == Slots(put[p], i)
<1>1. /\ a \in Nat /\ b \in Nat /\ c \in Nat /\ d \in Nat
      /\ (a > 0 <=> cwd[p] = i) /\ (b > 0 <=> fd[p] = i) /\ (c > 0 <=> cur[p] = i) /\ (d > 0 <=> tgt[p] = i)
  BY DEF One
<1>2. e \in Nat /\ (e > 0 <=> In(put[p], i))
  BY InSlots
<1>3. Own(p, i) = a + b + c + d + e
  BY DEF Own
<1> HIDE DEF a, b, c, d, e
<1> QED
  BY <1>1, <1>2, <1>3 DEF Has

\* A set of processes counts each of two, or one.
LEMMA CountTwo ==
    ASSUME NEW A \in SUBSET Proc, NEW p \in Proc, NEW q \in Proc
    PROVE  Cardinality(A) \in Nat /\ Cardinality(A) >= One(p \in A) + One(q # p /\ q \in A)
<1>1. IsFiniteSet(A) /\ Cardinality(A) \in Nat
  BY InodeAssumption, FS_Subset, FS_CardinalityType
<1>2. A \cap {p, q} \subseteq A /\ IsFiniteSet(A \cap {p, q})
  BY <1>1, FS_Subset
<1>3. Cardinality(A \cap {p, q}) <= Cardinality(A)
  BY <1>1, <1>2, FS_Subset
<1>4. CASE p \in A /\ q \in A /\ q # p
  <2>1. A \cap {p, q} = {p, q}
    BY <1>4
  <2>2. Cardinality({p, q}) = 2
    <3>1. Cardinality({p}) = 1 /\ IsFiniteSet({p})
      BY FS_Singleton
    <3>2. Cardinality({p} \cup {q}) = Cardinality({p}) + 1
      BY <3>1, <1>4, FS_AddElement
    <3>3. {p} \cup {q} = {p, q}
      OBVIOUS
    <3> QED
      BY <3>1, <3>2, <3>3
  <2> QED
    BY <1>1, <1>3, <1>4, <2>1, <2>2 DEF One
<1>5. CASE p \in A /\ ~(q \in A /\ q # p)
  <2>1. A \cap {p, q} = {p}
    BY <1>5
  <2> QED
    BY <1>1, <1>3, <1>5, <2>1, FS_Singleton DEF One
<1>6. CASE p \notin A /\ q \in A /\ q # p
  <2>1. A \cap {p, q} = {q}
    BY <1>6
  <2>2. Cardinality({q}) = 1
    BY FS_Singleton
  <2> QED
    BY <1>1, <1>3, <1>6, <2>1, <2>2 DEF One
<1>7. CASE p \notin A /\ ~(q \in A /\ q # p)
  BY <1>1, <1>7 DEF One
<1> QED
  BY <1>4, <1>5, <1>6, <1>7

\* The reference count covers the pointers of any two processes.
LEMMA RefCovers ==
    ASSUME Inv, NEW p \in Proc, NEW q \in Proc, NEW i \in Inum
    PROVE  ref[i] \in Nat /\ ref[i] >= Own(p, i) + (IF q # p THEN Own(q, i) ELSE 0)
<1> DEFINE W(f) == {r \in Proc : f[r] = i}
           F == {r \in Proc : put[r] # <<>> /\ put[r][1] = i}
           S == {r \in Proc : Len(put[r]) = 2 /\ put[r][2] = i}
<1>1. ref[i] = Cardinality(W(cwd)) + Cardinality(W(fd)) + Cardinality(W(cur)) + Cardinality(W(tgt)) + Cardinality(F) + Cardinality(S)
  BY DEF Inv, RefsExact
<1>2. \A f : /\ Cardinality(W(f)) \in Nat
             /\ Cardinality(W(f)) >= One(f[p] = i) + One(q # p /\ f[q] = i)
  <2> SUFFICES ASSUME NEW f PROVE /\ Cardinality(W(f)) \in Nat
                                  /\ Cardinality(W(f)) >= One(f[p] = i) + One(q # p /\ f[q] = i)
    OBVIOUS
  <2>1. W(f) \in SUBSET Proc /\ (p \in W(f) <=> f[p] = i) /\ (q \in W(f) <=> f[q] = i)
    OBVIOUS
  <2> HIDE DEF W
  <2> QED
    BY <2>1, CountTwo DEF One
<1>3. /\ Cardinality(F) \in Nat
      /\ Cardinality(F) >= One(put[p] # <<>> /\ put[p][1] = i) + One(q # p /\ put[q] # <<>> /\ put[q][1] = i)
  <2>1. F \in SUBSET Proc /\ (p \in F <=> put[p] # <<>> /\ put[p][1] = i) /\ (q \in F <=> put[q] # <<>> /\ put[q][1] = i)
    OBVIOUS
  <2> HIDE DEF F
  <2> QED
    BY <2>1, CountTwo DEF One
<1>4. /\ Cardinality(S) \in Nat
      /\ Cardinality(S) >= One(Len(put[p]) = 2 /\ put[p][2] = i) + One(q # p /\ Len(put[q]) = 2 /\ put[q][2] = i)
  <2>1. S \in SUBSET Proc /\ (p \in S <=> Len(put[p]) = 2 /\ put[p][2] = i) /\ (q \in S <=> Len(put[q]) = 2 /\ put[q][2] = i)
    OBVIOUS
  <2> HIDE DEF S
  <2> QED
    BY <2>1, CountTwo DEF One
<1> DEFINE a1 == One(cwd[p] = i)   b1 == One(q # p /\ cwd[q] = i)
           a2 == One(fd[p] = i)    b2 == One(q # p /\ fd[q] = i)
           a3 == One(cur[p] = i)   b3 == One(q # p /\ cur[q] = i)
           a4 == One(tgt[p] = i)   b4 == One(q # p /\ tgt[q] = i)
           a5 == One(put[p] # <<>> /\ put[p][1] = i)     b5 == One(q # p /\ put[q] # <<>> /\ put[q][1] = i)
           a6 == One(Len(put[p]) = 2 /\ put[p][2] = i)   b6 == One(q # p /\ Len(put[q]) = 2 /\ put[q][2] = i)
<1>5. Own(p, i) = a1 + a2 + a3 + a4 + (a5 + a6) /\ (IF q # p THEN Own(q, i) ELSE 0) = b1 + b2 + b3 + b4 + (b5 + b6)
  BY DEF Own, Slots, One
<1>6. /\ a1 \in Nat /\ a2 \in Nat /\ a3 \in Nat /\ a4 \in Nat /\ a5 \in Nat /\ a6 \in Nat
      /\ b1 \in Nat /\ b2 \in Nat /\ b3 \in Nat /\ b4 \in Nat /\ b5 \in Nat /\ b6 \in Nat
  BY DEF One
<1> HIDE DEF W, F, S
<1>7. /\ Cardinality(W(cwd)) \in Nat /\ Cardinality(W(fd)) \in Nat /\ Cardinality(W(cur)) \in Nat
      /\ Cardinality(W(tgt)) \in Nat /\ Cardinality(F) \in Nat /\ Cardinality(S) \in Nat
      /\ Cardinality(W(cwd)) >= a1 + b1 /\ Cardinality(W(fd)) >= a2 + b2 /\ Cardinality(W(cur)) >= a3 + b3
      /\ Cardinality(W(tgt)) >= a4 + b4 /\ Cardinality(F) >= a5 + b5 /\ Cardinality(S) >= a6 + b6
  BY <1>2, <1>3, <1>4
<1> HIDE DEF a1, a2, a3, a4, a5, a6, b1, b2, b3, b4, b5, b6
<1> QED
  BY <1>1, <1>5, <1>6, <1>7

\* The last pointer is the only one.
LEMMA LastPointer ==
    ASSUME Inv, NEW p \in Proc, NEW i \in Inum, ref[i] = 1, Has(p, i)
    PROVE  /\ \A q \in Proc : q # p => ~Has(q, i)
           /\ Own(p, i) = 1
<1>1. Own(p, i) \in Nat /\ Own(p, i) > 0
  BY HasOwn
<1>2. ASSUME NEW q \in Proc, q # p PROVE ~Has(q, i)
  <2>1. ref[i] >= Own(p, i) + Own(q, i) /\ Own(q, i) \in Nat
    BY <1>2, RefCovers, HasOwn
  <2>2. Own(q, i) = 0
    BY <1>1, <2>1
  <2> QED
    BY <2>2, HasOwn
<1>3. ref[i] >= Own(p, i)
  BY <1>1, RefCovers
<1> QED
  BY <1>1, <1>2, <1>3

-----------------------------------------------------------------------------
(* What the invariant says of one inode *)

\* No other process than p is freeing i, or has it as a new inode.
Usable(p, i) == \A q \in Proc : q # p => /\ free[q] # "no" => Freed(q) # i
                                         /\ pc[q] = "fill" => tgt[q] # i

\* The one that a process frees is one it has.
LEMMA FreedHas ==
    ASSUME Inv, NEW p \in Proc, free[p] # "no"
    PROVE  Freed(p) \in Inum /\ Has(p, Freed(p)) /\ put[p] # <<>> /\ In(put[p], Freed(p)) /\ Freed(p) \in Locked(p)
<1>1. Phase(p) /\ put[p] \in Seq(Inum)
  BY Facts
<1>2. put[p] # <<>> /\ Len(put[p]) <= 2
  BY <1>1 DEF Phase
<1>3. In(put[p], Head(put[p])) /\ Head(put[p]) \in Inum
  BY <1>1, <1>2, InTail, SlotsTail
<1> QED
  BY <1>2, <1>3 DEF Has, Freed, Locked

LEMMA FillHas ==
    ASSUME Inv, NEW p \in Proc, pc[p] = "fill"
    PROVE  tgt[p] \in Inum /\ Has(p, tgt[p])
<1>1. Phase(p) /\ (tgt[p] # 0 => tgt[p] \in Inum)
  BY Facts
<1> QED
  BY <1>1 DEF Phase, Has

\* A pointer other than to a new or a freed inode can be used.
LEMMA UsableHas ==
    ASSUME Inv, Tree, NEW p \in Proc, NEW i \in Inum, Has(p, i),
           ~(pc[p] = "fill" /\ tgt[p] = i), ~(free[p] = "done" /\ Freed(p) = i)
    PROVE  Usable(p, i) /\ type[i] # "free"
<1>1. ASSUME NEW q \in Proc, q # p
      PROVE  (free[q] # "no" => Freed(q) # i) /\ (pc[q] = "fill" => tgt[q] # i)
  <2>1. Apart(q, p) /\ free[q] \in {"no", "disk", "done"}
    BY <1>1, Facts DEF Tree, AllApart
  <2> QED
    BY <2>1 DEF Apart
<1>2. type[i] # "free"
  BY DEF Tree, AllSound, Sound
<1> QED
  BY <1>1, <1>2 DEF Usable

\* An inode with a link can be used.
LEMMA UsableLinked ==
    ASSUME Inv, Tree, NEW p \in Proc, NEW i \in Inum, nlink[i] # 0
    PROVE  Usable(p, i) /\ type[i] # "free"
<1>1. ASSUME NEW q \in Proc
      PROVE  (free[q] # "no" => Freed(q) # i) /\ (pc[q] = "fill" => tgt[q] # i)
  <2>1. Sound(q)
    BY DEF Tree, AllSound
  <2> QED
    BY <2>1 DEF Sound, NewInode
<1>2. type[i] # "free"
  BY DEF Tree, DiskGood, InodeGood
<1> QED
  BY <1>1, <1>2 DEF Usable

\* Names and processes are finite, so what is counted has a number.
LEMMA CountsFinite ==
    ASSUME Inv, NEW i \in Inum
    PROVE  /\ IsFiniteSet(Links(i)) /\ IsFiniteSet(Subdirs(i)) /\ IsFiniteSet(InFlight(i))
           /\ Cardinality(Links(i)) \in Nat /\ Cardinality(Subdirs(i)) \in Nat
           /\ Cardinality(InFlight(i)) \in Nat /\ lost[i] \in Nat
<1>1. IsFiniteSet(Inum)
  BY InodeAssumption, FS_Interval DEF Inum
<1>2. IsFiniteSet(Inum \X Names)
  BY <1>1, InodeAssumption, FS_Product
<1>3. Links(i) \subseteq Inum \X Names
  BY DEF Links
<1>4. Subdirs(i) \subseteq Inum
  BY DEF Subdirs
<1>5. InFlight(i) \subseteq Proc
  BY DEF InFlight
<1>6. IsFiniteSet(Links(i)) /\ IsFiniteSet(Subdirs(i)) /\ IsFiniteSet(InFlight(i))
  BY <1>1, <1>2, <1>3, <1>4, <1>5, FS_Subset, InodeAssumption
<1>7. lost[i] \in Nat
  BY DEF Inv, DiskType
<1> QED
  BY <1>6, <1>7, FS_CardinalityType

\* The members of a finite set are counted.
LEMMA CountMember ==
    ASSUME NEW S, NEW x \in S, IsFiniteSet(S)
    PROVE  Cardinality(S) \in Nat /\ Cardinality(S) >= 1
BY FS_EmptySet, FS_CardinalityType

\* The link count covers each of the names, the subdirectories and the calls.
LEMMA CountCovers ==
    ASSUME Inv, Tree, NEW i \in Inum
    PROVE  /\ nlink[i] \in Nat /\ nlink[i] >= Cardinality(Links(i))
           /\ (Links(i) # {} \/ Subdirs(i) # {} \/ InFlight(i) # {} \/ i = Root \/ lost[i] # 0) => nlink[i] >= 1
<1> DEFINE a == Cardinality(Links(i))  b == Cardinality(Subdirs(i))  c == Cardinality(InFlight(i))
           r == One(i = Root)  l == lost[i]
<1>1. nlink[i] = a + b + l + r + c
  BY DEF Tree, Counts, Count
<1>2. a \in Nat /\ b \in Nat /\ c \in Nat /\ l \in Nat /\ r \in Nat /\ (i = Root => r = 1)
  BY CountsFinite DEF One
<1>3. (Links(i) # {} => a >= 1) /\ (Subdirs(i) # {} => b >= 1) /\ (InFlight(i) # {} => c >= 1)
  BY CountsFinite, CountMember
<1>4. lost[i] # 0 => l >= 1
  BY <1>2
<1> HIDE DEF a, b, c, r, l
<1> QED
  BY <1>1, <1>2, <1>3, <1>4 DEF a

\* dirlookup() of a name gets an inode that is allocated and counted, and so
\* does that of ".." in a directory that has a name.
LEMMA Followed ==
    ASSUME Inv, Tree, NEW d \in Inum, type[d] = "dir", NEW n \in Names \cup {".."},
           Lookup(d, n) # 0, ~(n = ".." /\ Removed(d))
    PROVE  Lookup(d, n) \in Inum /\ nlink[Lookup(d, n)] >= 1
<1> DEFINE i == Lookup(d, n)
<1>1. DiskType /\ Root \in Inum
  BY InodeAssumption DEF Inv, Inum, Root
<1>2. i \in Inum
  BY <1>1, LookupType
<1>3. CASE n # ".."
  <2>1. n \in Names /\ i = entry[d][n]
    BY <1>3 DEF Lookup
  <2>2. <<d, n>> \in Links(i)
    BY <2>1 DEF Links
  <2>3. nlink[i] >= 1
    BY <1>2, <2>2, CountCovers
  <2> QED
    BY <1>2, <2>3
<1>4. CASE n = ".." /\ d = Root
  <2>1. i = Root
    BY <1>4 DEF Lookup, Tree, DiskGood, RootGood
  <2>2. nlink[Root] >= 1
    BY <1>1, CountCovers
  <2> QED
    BY <1>1, <2>1, <2>2
<1>5. CASE n = ".." /\ d # Root
  <2>1. i = dotdot[d]
    BY <1>5 DEF Lookup
  <2>2. PICK e \in Links(d) : TRUE
    BY <1>5 DEF Removed
  <2>3. e[1] \in Inum /\ e[2] \in Names /\ type[e[1]] = "dir" /\ entry[e[1]][e[2]] = d
    BY <2>2 DEF Links
  <2>4. dotdot[d] = e[1]
    <3>1. NameGood(e[1], e[2], d)
      BY <2>3 DEF Tree, DiskGood
    <3> QED
      BY <2>3, <3>1 DEF NameGood
  <2>5. d \in Subdirs(i)
    BY <1>5, <2>1, <2>2 DEF Subdirs
  <2>6. nlink[i] >= 1
    BY <1>2, <2>5, CountCovers
  <2> QED
    BY <1>2, <2>6
<1> QED
  BY <1>3, <1>4, <1>5

-----------------------------------------------------------------------------
(* A step of one process *)

\* The step locks only inodes that are not locked, and unlocks only its own.
LockMoves(p) ==
    /\ \A i \in Inum : busy'[i] <=> i \in Locked(p)' \/ (busy[i] /\ i \notin Locked(p))
    /\ \A i \in Locked(p)' : i \in Locked(p) \/ ~busy[i]

\* The step changes only inodes that it may use, and entries only under a lock.
DiskMoves(p) ==
    \A i \in Inum :
       /\ type'[i] # type[i] => type[i] = "free" \/ \A q \in Proc : q # p => ~Has(q, i)
       /\ (nlink'[i] # nlink[i] \/ entry'[i] # entry[i] \/ dotdot'[i] # dotdot[i]) => Usable(p, i)
       /\ entry'[i] # entry[i] => i \in Locked(p) \/ ~busy[i]

\* What the other processes have stays.
LEMMA OthersStay ==
    ASSUME NEW p \in Proc, Others(p), NEW q \in Proc, q # p
    PROVE  /\ \A i : (Has(q, i)' <=> Has(q, i)) /\ Own(q, i)' = Own(q, i)
           /\ Freed(q)' = Freed(q) /\ Locked(q)' = Locked(q)
           /\ pc'[q] = pc[q] /\ op'[q] = op[q] /\ tgt'[q] = tgt[q] /\ cur'[q] = cur[q]
           /\ free'[q] = free[q] /\ cwd'[q] = cwd[q] /\ put'[q] = put[q] /\ rest'[q] = rest[q]
<1>1. /\ pc'[q] = pc[q] /\ op'[q] = op[q] /\ rest'[q] = rest[q]
      /\ cur'[q] = cur[q] /\ tgt'[q] = tgt[q] /\ put'[q] = put[q]
      /\ free'[q] = free[q] /\ cwd'[q] = cwd[q] /\ fd'[q] = fd[q]
  BY DEF Others
<1>2. \A i : (Has(q, i)' <=> Has(q, i)) /\ Own(q, i)' = Own(q, i)
  BY <1>1 DEF Has, In, Own, Slots
<1>3. Freed(q)' = Freed(q)
  BY <1>1 DEF Freed
<1>4. Locked(q)' = Locked(q)
  BY <1>1 DEF Locked
<1> QED
  BY <1>1, <1>2, <1>3, <1>4

LEMMA LocksStay ==
    ASSUME Inv, Tree, NEW p \in Proc, Others(p), LockMoves(p)
    PROVE  LocksHeld' /\ \A q \in Proc : q # p => Locked(p)' \cap Locked(q)' = {}
<1>1. \A q \in Proc : q # p => Locked(q)' = Locked(q)
  BY OthersStay
<1>2. \A q \in Proc : Locked(q) \subseteq Inum /\ \A i \in Locked(q) : busy[i]
  BY DEF Tree, LocksHeld, Locked
<1>3. \A q \in Proc : q # p => Locked(p) \cap Locked(q) = {}
  BY DEF Tree, AllApart, Apart
<1>4. \A i \in Inum : (busy'[i] <=> i \in Locked(p)' \/ (busy[i] /\ i \notin Locked(p)))
  BY DEF LockMoves
<1>5. \A i \in Locked(p)' : i \in Locked(p) \/ ~busy[i]
  BY DEF LockMoves
<1>6. ASSUME NEW q \in Proc, q # p PROVE Locked(p)' \cap Locked(q)' = {}
  BY <1>1, <1>2, <1>3, <1>5, <1>6
<1>7. ASSUME NEW i \in Inum PROVE busy'[i] <=> \E q \in Proc : i \in Locked(q)'
  <2>1. CASE busy'[i]
    <3>1. i \in Locked(p)' \/ (busy[i] /\ i \notin Locked(p))
      BY <1>4, <2>1
    <3>2. busy[i] => \E q \in Proc : i \in Locked(q)
      BY DEF Tree, LocksHeld
    <3> QED
      BY <1>1, <2>1, <3>1, <3>2
  <2>2. ASSUME NEW q \in Proc, i \in Locked(q)' PROVE busy'[i]
    <3>1. CASE q = p
      BY <1>4, <2>2, <3>1
    <3>2. CASE q # p
      <4>1. busy[i] /\ i \notin Locked(p)
        BY <1>1, <1>2, <1>3, <2>2, <3>2
      <4> QED
        BY <1>4, <4>1
    <3> QED
      BY <3>1, <3>2
  <2> QED
    BY <2>1, <2>2
<1> QED
  BY <1>6, <1>7 DEF LocksHeld

\* What another process has stays sound.
LEMMA SoundStays ==
    ASSUME Inv, Tree, NEW p \in Proc, Others(p), DiskMoves(p), NEW q \in Proc, q # p
    PROVE  Sound(q)'
<1>1. /\ \A i : (Has(q, i)' <=> Has(q, i)) /\ Own(q, i)' = Own(q, i)
      /\ Freed(q)' = Freed(q) /\ Locked(q)' = Locked(q)
      /\ pc'[q] = pc[q] /\ op'[q] = op[q] /\ tgt'[q] = tgt[q] /\ cur'[q] = cur[q]
      /\ free'[q] = free[q] /\ cwd'[q] = cwd[q] /\ put'[q] = put[q] /\ rest'[q] = rest[q]
  BY OthersStay
<1>2. Sound(q)
  BY DEF Tree, AllSound
<1>3. ASSUME NEW i \in Inum, Has(q, i), type[i] # "free" PROVE type'[i] = type[i]
  BY <1>3 DEF DiskMoves
<1>4. /\ cwd[q] \in Inum /\ Has(q, cwd[q])
      /\ pc[q] \in {"parent", "fill", "remove"} => cur[q] \in Inum /\ Has(q, cur[q])
      /\ tgt[q] # 0 => tgt[q] \in Inum /\ Has(q, tgt[q])
      /\ pc[q] = "fill" \/ (op[q] = "link" /\ pc[q] \in {"walk", "parent", "undo"}) => tgt[q] # 0
  BY Facts DEF Has, Phase
<1>5. pc'[q] \in {"parent", "fill", "remove"} => put'[q] = <<>>
  BY <1>1, <1>2 DEF Sound
<1>6. type'[cwd'[q]] = "dir"
  BY <1>1, <1>2, <1>3, <1>4 DEF Sound
<1>7. ASSUME NEW i \in Inum, Has(q, i)', type'[i] = "free" PROVE free'[q] = "done" /\ i = Freed(q)'
  <2>1. type[i] = "free"
    BY <1>1, <1>3, <1>7
  <2> QED
    BY <1>1, <1>2, <1>7, <2>1 DEF Sound
<1>8. pc'[q] = "parent" => type'[cur'[q]] = "dir"
  BY <1>1, <1>2, <1>3, <1>4 DEF Sound
<1>9. ASSUME pc'[q] \in {"fill", "remove"} PROVE EntryHeld(q)'
  <2>1. EntryHeld(q) /\ cur[q] \in Locked(q) /\ cur[q] \in Inum /\ type[cur[q]] = "dir"
    BY <1>1, <1>2, <1>4, <1>9 DEF Sound, EntryHeld, Locked
  <2>2. busy[cur[q]] /\ cur[q] \notin Locked(p)
    BY <2>1 DEF Tree, LocksHeld, AllApart, Apart
  <2>3. entry'[cur[q]] = entry[cur[q]]
    BY <2>1, <2>2 DEF DiskMoves
  <2>4. type'[cur[q]] = "dir"
    BY <1>1, <1>3, <1>4, <1>9, <2>1
  <2> QED
    BY <1>1, <2>1, <2>3, <2>4 DEF EntryHeld
<1>10. ASSUME pc'[q] = "fill" PROVE NewInode(q)'
  <2>1. NewInode(q) /\ tgt[q] \in Inum /\ Has(q, tgt[q]) /\ pc[q] = "fill"
    BY <1>1, <1>2, <1>4, <1>10 DEF Sound
  <2>2. ~Usable(p, tgt[q])
    BY <2>1 DEF Usable
  <2>3. nlink'[tgt[q]] = nlink[tgt[q]] /\ entry'[tgt[q]] = entry[tgt[q]] /\ dotdot'[tgt[q]] = dotdot[tgt[q]]
    BY <2>1, <2>2 DEF DiskMoves
  <2>4. type'[tgt[q]] = type[tgt[q]]
    BY <1>3, <2>1 DEF NewInode
  <2> QED
    BY <1>1, <2>1, <2>3, <2>4 DEF NewInode
<1>11. op'[q] = "link" => pc'[q] \in {"walk", "parent", "undo"} /\ type'[tgt'[q]] = "file"
  BY <1>1, <1>2, <1>3, <1>4 DEF Sound
<1>12. ASSUME free'[q] # "no" PROVE nlink'[Freed(q)'] = 0 /\ Own(q, Freed(q))' = 1
  <2>1. free[q] # "no" /\ Freed(q) \in Inum
    BY <1>1, <1>12, FreedHas
  <2>2. ~Usable(p, Freed(q))
    BY <2>1 DEF Usable
  <2>3. nlink'[Freed(q)] = nlink[Freed(q)]
    BY <2>1, <2>2 DEF DiskMoves
  <2>4. Own(q, Freed(q))' = Own(q, Freed(q))
    BY <1>1
  <2> QED
    BY <1>1, <1>2, <2>1, <2>3, <2>4 DEF Sound
<1>13. pc'[q] = "undo" => op'[q] = "link"
  BY <1>1, <1>2 DEF Sound
<1> QED
  BY <1>5, <1>6, <1>7, <1>8, <1>9, <1>10, <1>11, <1>12, <1>13 DEF Sound

\* A step that keeps the disk good and leaves p sound and apart from the others
\* keeps the invariant.
LEMMA StepTree ==
    ASSUME Inv, Tree, NEW p \in Proc, Others(p), LockMoves(p), DiskMoves(p),
           \A q \in Proc : q # p => Apart(p, q)' /\ Apart(q, p)',
           Sound(p)', DiskGood', Counts', panic' = panic
    PROVE  Tree'
<1>1. LocksHeld'
  BY LocksStay
<1>2. ASSUME NEW q \in Proc, NEW r \in Proc, q # r PROVE Apart(q, r)'
  <2>1. CASE q # p /\ r # p
    <3>1. Apart(q, r)
      BY <1>2 DEF Tree, AllApart
    <3>2. /\ \A i : Has(r, i)' <=> Has(r, i)
          /\ Freed(q)' = Freed(q) /\ Locked(q)' = Locked(q) /\ free'[q] = free[q] /\ pc'[q] = pc[q] /\ tgt'[q] = tgt[q]
          /\ Freed(r)' = Freed(r) /\ Locked(r)' = Locked(r) /\ free'[r] = free[r] /\ pc'[r] = pc[r] /\ tgt'[r] = tgt[r]
      BY <2>1, OthersStay
    <3>3. Locked(q)' \cap Locked(r)' = {}
      BY <3>1, <3>2 DEF Apart
    <3>4. free'[q] = "disk" => ~Has(r, Freed(q))'
      BY <3>1, <3>2 DEF Apart
    <3>5. free'[q] = "done" /\ Has(r, Freed(q))' => pc'[r] = "fill" /\ tgt'[r] = Freed(q)'
      BY <3>1, <3>2 DEF Apart
    <3>6. pc'[q] = "fill" /\ Has(r, tgt[q])' => free'[r] = "done" /\ Freed(r)' = tgt'[q]
      BY <3>1, <3>2 DEF Apart
    <3> QED
      BY <3>3, <3>4, <3>5, <3>6 DEF Apart
  <2> QED
    BY <1>2, <2>1
<1>3. ASSUME NEW q \in Proc PROVE Sound(q)'
  BY SoundStays
<1>4. panic' \in {"no", "ialloc: no inodes"}
  BY DEF Tree
<1> QED
  BY <1>1, <1>2, <1>3, <1>4 DEF Tree, AllApart, AllSound

\* A step after which p has only what it may use, none of it new or to be freed.
LEMMA UsingStep ==
    ASSUME Inv, Tree, NEW p \in Proc, Others(p), Inv', LockMoves(p), DiskMoves(p),
           pc'[p] # "fill", free'[p] = "no",
           \A i \in Inum : Has(p, i)' => Usable(p, i),
           Sound(p)', DiskGood', Counts', panic' = panic
    PROVE  Tree'
<1>1. ASSUME NEW q \in Proc, q # p PROVE Apart(p, q)' /\ Apart(q, p)'
  <2>1. /\ \A i : Has(q, i)' <=> Has(q, i)
        /\ Freed(q)' = Freed(q) /\ Locked(q)' = Locked(q) /\ free'[q] = free[q] /\ pc'[q] = pc[q] /\ tgt'[q] = tgt[q]
    BY <1>1, OthersStay
  <2>2. Locked(p)' \cap Locked(q)' = {}
    BY <1>1, LocksStay
  <2>3. Apart(p, q)'
    BY <2>2 DEF Apart
  <2>4. free[q] # "no" => Freed(q) \in Inum
    BY FreedHas
  <2>5. pc[q] = "fill" => tgt[q] \in Inum
    BY FillHas
  <2>6. \A i \in Inum : (free[q] # "no" /\ Freed(q) = i) \/ (pc[q] = "fill" /\ tgt[q] = i) => ~Has(p, i)'
    BY <1>1 DEF Usable
  <2>7. (free[q] # "no" => ~Has(p, Freed(q))') /\ (pc[q] = "fill" => ~Has(p, tgt[q])')
    BY <2>1, <2>4, <2>5, <2>6
  <2>8. Apart(q, p)'
    <3>1. Locked(q)' \cap Locked(p)' = {}
      BY <2>2
    <3>2. free[q] # "no" <=> free'[q] # "no"
      BY <2>1
    <3>3. pc[q] = "fill" <=> pc'[q] = "fill"
      BY <2>1
    <3> QED
      BY <2>7, <3>1, <3>2, <3>3 DEF Apart
  <2> QED
    BY <2>3, <2>8
<1> QED
  BY <1>1, StepTree

\* A step that leaves the disk alone.
LEMMA QuietDisk ==
    ASSUME Inv, Tree, NEW p \in Proc, Others(p), UNCHANGED <<diskVars, lost>>,
           pc[p] = "fill" => pc'[p] = "fill" /\ tgt'[p] = tgt[p],
           \A i \in Inum : p \in InFlight(i)' <=> p \in InFlight(i)
    PROVE  DiskMoves(p) /\ DiskGood' /\ Counts'
<1>1. UNCHANGED <<type, nlink, entry, dotdot, lost>>
  BY DEF diskVars
<1>2. DiskMoves(p)
  BY <1>1 DEF DiskMoves
<1>3. RootGood'
  BY <1>1 DEF RootGood, Tree, DiskGood
<1>4. ASSUME NEW i \in Inum PROVE InodeGood(i)'
  <2>1. InodeGood(i)
    BY DEF Tree, DiskGood
  <2>2. ASSUME NEW q \in Proc, pc[q] = "fill", tgt[q] = i PROVE pc'[q] = "fill" /\ tgt'[q] = i
    BY <2>2 DEF Others
  <2> QED
    BY <1>1, <2>1, <2>2 DEF InodeGood
<1>5. ASSUME NEW d \in Inum, NEW i \in Inum, NEW n \in Names PROVE NameGood(d, n, i)'
  <2>1. NameGood(d, n, i)
    BY DEF Tree, DiskGood
  <2> QED
    BY <1>1, <2>1 DEF NameGood
<1>6. ASSUME NEW i \in Inum PROVE nlink'[i] = Count(i)'
  <2>1. Links(i)' = Links(i) /\ Subdirs(i)' = Subdirs(i)
    <3>1. \A j : Links(j)' = Links(j)
      BY <1>1 DEF Links
    <3> QED
      BY <1>1, <3>1 DEF Subdirs
  <2>2. InFlight(i)' = InFlight(i)
    <3>1. \A q \in Proc : q # p => (q \in InFlight(i)' <=> q \in InFlight(i))
      BY OthersStay DEF InFlight
    <3>2. InFlight(i) \subseteq Proc /\ InFlight(i)' \subseteq Proc
      BY DEF InFlight
    <3> QED
      BY <3>1, <3>2
  <2>3. nlink[i] = Count(i)
    BY DEF Tree, Counts
  <2> QED
    BY <1>1, <2>1, <2>2, <2>3 DEF Count
<1> QED
  BY <1>2, <1>3, <1>4, <1>5, <1>6 DEF DiskGood, Counts

\* Locks are held between two steps only in these places.
LEMMA NoLocks ==
    \A p \in Proc : pc[p] \notin {"fill", "remove", "made", "drop"} /\ free[p] = "no" => Locked(p) = {}
BY DEF Locked

LEMMA NoLocksNext ==
    \A p \in Proc : pc'[p] \notin {"fill", "remove", "made", "drop"} /\ free'[p] = "no" => Locked(p)' = {}
BY DEF Locked

\* After most steps nothing but the pointers has to be sound.
LEMMA SimplySound ==
    ASSUME NEW p \in Proc, pc'[p] \notin {"parent", "fill", "remove", "undo"}, op'[p] # "link", free'[p] = "no",
           type'[cwd'[p]] = "dir", \A i \in Inum : Has(p, i)' => type'[i] # "free"
    PROVE  Sound(p)'
BY DEF Sound

\* A step that leaves the disk alone and after which p has only what it may use.
LEMMA QuietStep ==
    ASSUME Inv, Tree, NEW p \in Proc, Others(p), Inv', UNCHANGED <<diskVars, lost, panic>>,
           pc[p] # "fill", pc'[p] # "fill", free'[p] = "no", LockMoves(p),
           \A i \in Inum : p \in InFlight(i)' <=> p \in InFlight(i),
           \A i \in Inum : Has(p, i)' => Usable(p, i), Sound(p)'
    PROVE  Tree'
<1>1. DiskMoves(p) /\ DiskGood' /\ Counts'
  BY QuietDisk
<1> QED
  BY <1>1, UsingStep

\* What a process has that is neither making a name nor freeing an inode.
LEMMA Plain ==
    ASSUME Inv, Tree, NEW p \in Proc, put[p] = <<>>
    PROVE  /\ free[p] = "no"
           /\ pc[p] # "fill" => \A i \in Inum : Has(p, i) => Usable(p, i) /\ type[i] # "free"
           /\ type[cwd[p]] = "dir" /\ cwd[p] \in Inum /\ Has(p, cwd[p])
<1>1. free[p] = "no"
  BY Facts DEF Phase
<1>2. cwd[p] \in Inum /\ Has(p, cwd[p])
  BY Facts DEF Has
<1>3. type[cwd[p]] = "dir"
  BY DEF Tree, AllSound, Sound
<1> QED
  BY <1>1, <1>2, <1>3, UsableHas

\* The end of a call that keeps of its inodes what the list s, the descriptor
\* and the current directory hold.
LEMMA ReturnTree ==
    ASSUME Inv, Tree, NEW p \in Proc, Inv', NEW s, Return(p, s), put[p] = <<>>,
           UNCHANGED <<diskVars, lost, panic, free>>,
           pc[p] \notin {"fill", "drop"}, op[p] # "link",
           \A q \in Proc : q # p => cwd'[q] = cwd[q] /\ fd'[q] = fd[q],
           type[cwd'[p]] = "dir",
           \A i \in Inum : cwd'[p] = i \/ fd'[p] = i \/ In(s, i) => Has(p, i),
           \A i \in Inum : busy'[i] <=> busy[i] /\ i \notin Locked(p)
    PROVE  Tree'
<1>1. /\ pc' = [pc EXCEPT ![p] = "user"] /\ put' = [put EXCEPT ![p] = s]
      /\ op' = [op EXCEPT ![p] = "none"] /\ rest' = [rest EXCEPT ![p] = <<>>]
      /\ cur' = [cur EXCEPT ![p] = 0] /\ tgt' = [tgt EXCEPT ![p] = 0]
  BY DEF Return, Then
<1>2. CallType /\ 0 \notin Inum
  BY Facts
<1>3. Others(p)
  BY <1>1, <1>2 DEF Others, CallType
<1>4. /\ pc'[p] = "user" /\ put'[p] = s /\ cur'[p] = 0 /\ tgt'[p] = 0 /\ op'[p] = "none" /\ free'[p] = "no"
  BY <1>1, <1>2, Plain DEF CallType
<1>5. ASSUME NEW i \in Inum, Has(p, i)' PROVE Usable(p, i) /\ type[i] # "free"
  <2>1. cwd'[p] = i \/ fd'[p] = i \/ In(s, i)
    BY <1>2, <1>4, <1>5 DEF Has
  <2>2. Has(p, i)
    BY <2>1
  <2> QED
    BY <2>2, Plain
<1>6. Locked(p)' = {}
  BY <1>4, NoLocksNext
<1>7. LockMoves(p)
  BY <1>6 DEF LockMoves
<1>8. Sound(p)'
  <2>1. type' = type
    BY DEF diskVars
  <2>2. type'[cwd'[p]] = "dir"
    BY <2>1
  <2>3. \A i \in Inum : Has(p, i)' => type'[i] # "free"
    BY <1>5, <2>1
  <2> QED
    BY <1>4, <2>2, <2>3, SimplySound
<1>9. ASSUME NEW i \in Inum PROVE p \in InFlight(i)' <=> p \in InFlight(i)
  BY <1>4 DEF InFlight
<1>10. pc'[p] # "fill" /\ pc[p] # "fill"
  BY <1>4
<1> QED
  BY <1>3, <1>4, <1>5, <1>7, <1>8, <1>9, <1>10, QuietStep

\* The step locks and unlocks nothing.
LEMMA BusyStays ==
    ASSUME NEW p \in Proc, busy' = busy, pc[p] \notin {"fill", "remove", "made", "drop"}, free[p] = "no"
    PROVE  \A i \in Inum : busy'[i] <=> busy[i] /\ i \notin Locked(p)
BY NoLocks

LEMMA OpenTree ==
    ASSUME Inv, Tree, Inv', NEW p \in Proc, Open(p)
    PROVE  Tree'
<1>1. /\ put[p] = <<>> /\ pc[p] = "walk" /\ op[p] = "open"
      /\ UNCHANGED <<diskVars, lost, panic, busy, free, cwd>>
  BY DEF Open, Found, At, history
<1>2. CallType /\ cur[p] \in Inum /\ Phase(p)
  BY <1>1, Facts
<1>3. Has(p, cur[p]) /\ fd[p] = 0 /\ 0 \notin Inum
  BY <1>1, <1>2, Facts DEF Has, Phase
<1>4. \A i \in Inum : busy'[i] <=> busy[i] /\ i \notin Locked(p)
  BY <1>1, BusyStays, Plain
<1>5. type[cwd'[p]] = "dir" /\ \A i \in Inum : cwd'[p] = i => Has(p, i)
  BY <1>1, Plain
<1>6. CASE Return(p, <<cur[p]>>) /\ UNCHANGED fd
  <2>1. \A i \in Inum : cwd'[p] = i \/ fd'[p] = i \/ In(<<cur[p]>>, i) => Has(p, i)
    BY <1>3, <1>5, <1>6, InOf
  <2> QED
    BY <1>1, <1>4, <1>5, <1>6, <2>1, ReturnTree
<1>7. CASE Return(p, <<>>) /\ fd' = [fd EXCEPT ![p] = cur[p]]
  <2>1. fd'[p] = cur[p] /\ \A q \in Proc : q # p => fd'[q] = fd[q]
    BY <1>2, <1>7 DEF CallType
  <2>2. \A i \in Inum : cwd'[p] = i \/ fd'[p] = i \/ In(<<>>, i) => Has(p, i)
    BY <1>3, <1>5, <2>1, InOf
  <2> QED
    BY <1>1, <1>4, <1>5, <1>7, <2>1, <2>2, ReturnTree
<1> QED
  BY <1>6, <1>7 DEF Open

LEMMA OpenExistingTree ==
    ASSUME Inv, Tree, Inv', NEW p \in Proc, OpenExisting(p)
    PROVE  Tree'
<1>1. /\ put[p] = <<>> /\ pc[p] = "exists"
      /\ UNCHANGED <<diskVars, lost, panic, busy, free, cwd>>
  BY DEF OpenExisting, At, history
<1>2. CallType /\ Phase(p) /\ (tgt[p] # 0 => tgt[p] \in Inum)
  BY <1>1, Facts
<1>3. Has(p, tgt[p]) /\ op[p] \in {"create", "mkdir"} /\ \A i \in Inum : fd[p] = i => Has(p, i)
  BY <1>1, <1>2 DEF Has, Phase
<1>4. \A i \in Inum : busy'[i] <=> busy[i] /\ i \notin Locked(p)
  BY <1>1, BusyStays, Plain
<1>5. type[cwd'[p]] = "dir" /\ \A i \in Inum : cwd'[p] = i => Has(p, i)
  BY <1>1, Plain
<1>6. CASE Return(p, <<tgt[p]>>) /\ UNCHANGED fd
  <2>1. \A i \in Inum : cwd'[p] = i \/ fd'[p] = i \/ In(<<tgt[p]>>, i) => Has(p, i)
    BY <1>3, <1>5, <1>6, InOf
  <2> QED
    BY <1>1, <1>3, <1>4, <1>5, <1>6, <2>1, ReturnTree
<1>7. CASE Return(p, <<>>) /\ fd' = [fd EXCEPT ![p] = tgt[p]]
  <2>1. fd'[p] = tgt[p] /\ \A q \in Proc : q # p => fd'[q] = fd[q]
    BY <1>2, <1>7 DEF CallType
  <2>2. \A i \in Inum : cwd'[p] = i \/ fd'[p] = i \/ In(<<>>, i) => Has(p, i)
    BY <1>3, <1>5, <2>1, InOf
  <2> QED
    BY <1>1, <1>3, <1>4, <1>5, <1>7, <2>1, <2>2, ReturnTree
<1> QED
  BY <1>6, <1>7 DEF OpenExisting

LEMMA CreateDoneTree ==
    ASSUME Inv, Tree, Inv', NEW p \in Proc, CreateDone(p)
    PROVE  Tree'
<1>1. /\ put[p] = <<>> /\ pc[p] = "made" /\ busy' = [busy EXCEPT ![tgt[p]] = FALSE]
      /\ UNCHANGED <<diskVars, lost, panic, free, cwd>>
  BY DEF CreateDone, At, history
<1>2. CallType /\ CacheType /\ Phase(p) /\ (tgt[p] # 0 => tgt[p] \in Inum) /\ free[p] = "no"
  BY <1>1, Facts, Plain
<1>3. Has(p, tgt[p]) /\ tgt[p] \in Inum /\ \A i \in Inum : fd[p] = i => Has(p, i)
  BY <1>1, <1>2 DEF Has, Phase
<1>4. \A i \in Inum : busy'[i] <=> busy[i] /\ i \notin Locked(p)
  <2>1. Locked(p) = {tgt[p]}
    BY <1>1, <1>2, <1>3 DEF Locked
  <2> QED
    BY <1>1, <1>2, <2>1 DEF CacheType
<1>5. type[cwd'[p]] = "dir" /\ \A i \in Inum : cwd'[p] = i => Has(p, i)
  BY <1>1, Plain
<1>6. op[p] # "link"
  <2>1. Sound(p)
    BY DEF Tree, AllSound
  <2> QED
    BY <1>1, <2>1 DEF Sound
<1>7. CASE Return(p, <<tgt[p]>>) /\ UNCHANGED fd
  <2>1. \A i \in Inum : cwd'[p] = i \/ fd'[p] = i \/ In(<<tgt[p]>>, i) => Has(p, i)
    BY <1>3, <1>5, <1>7, InOf
  <2> QED
    BY <1>1, <1>4, <1>5, <1>6, <1>7, <2>1, ReturnTree
<1>8. CASE Return(p, <<>>) /\ fd' = [fd EXCEPT ![p] = tgt[p]]
  <2>1. fd'[p] = tgt[p] /\ \A q \in Proc : q # p => fd'[q] = fd[q]
    BY <1>2, <1>8 DEF CallType
  <2>2. \A i \in Inum : cwd'[p] = i \/ fd'[p] = i \/ In(<<>>, i) => Has(p, i)
    BY <1>3, <1>5, <2>1, InOf
  <2> QED
    BY <1>1, <1>4, <1>5, <1>6, <1>8, <2>1, <2>2, ReturnTree
<1> QED
  BY <1>7, <1>8 DEF CreateDone

LEMMA ChdirTree ==
    ASSUME Inv, Tree, Inv', NEW p \in Proc, Chdir(p)
    PROVE  Tree'
<1>1. /\ put[p] = <<>> /\ pc[p] = "walk" /\ op[p] = "chdir"
      /\ UNCHANGED <<diskVars, lost, panic, busy, free, fd>>
  BY DEF Chdir, Found, At, history
<1>2. CallType /\ cur[p] \in Inum
  BY <1>1, Facts
<1>3. Has(p, cur[p]) /\ \A i \in Inum : fd[p] = i => Has(p, i)
  BY DEF Has
<1>4. \A i \in Inum : busy'[i] <=> busy[i] /\ i \notin Locked(p)
  BY <1>1, BusyStays, Plain
<1>5. type[cwd[p]] = "dir" /\ \A i \in Inum : cwd[p] = i => Has(p, i)
  BY <1>1, Plain
<1>6. CASE Return(p, <<cur[p]>>) /\ UNCHANGED cwd
  <2>1. \A i \in Inum : cwd'[p] = i \/ fd'[p] = i \/ In(<<cur[p]>>, i) => Has(p, i)
    BY <1>1, <1>3, <1>5, <1>6, InOf
  <2> QED
    BY <1>1, <1>4, <1>5, <1>6, <2>1, ReturnTree
<1>7. CASE type[cur[p]] = "dir" /\ Return(p, <<cwd[p]>>) /\ cwd' = [cwd EXCEPT ![p] = cur[p]]
  <2>1. cwd'[p] = cur[p] /\ \A q \in Proc : q # p => cwd'[q] = cwd[q]
    BY <1>2, <1>7 DEF CallType
  <2>2. \A i \in Inum : cwd'[p] = i \/ fd'[p] = i \/ In(<<cwd[p]>>, i) => Has(p, i)
    BY <1>1, <1>3, <1>5, <2>1, InOf
  <2> QED
    BY <1>1, <1>4, <1>7, <2>1, <2>2, ReturnTree
<1> QED
  BY <1>6, <1>7 DEF Chdir

LEMMA CloseTree ==
    ASSUME Inv, Tree, Inv', NEW p \in Proc, Close(p)
    PROVE  Tree'
<1>1. /\ put[p] = <<>> /\ pc[p] = "user" /\ put' = [put EXCEPT ![p] = <<fd[p]>>]
      /\ fd' = [fd EXCEPT ![p] = 0]
      /\ UNCHANGED <<diskVars, lost, panic, busy, pc, op, rest, cur, tgt, free, cwd>>
  BY DEF Close, At, cacheVars, history
<1>2. CallType /\ 0 \notin Inum /\ free[p] = "no"
  BY <1>1, Facts, Plain
<1>3. Others(p) /\ put'[p] = <<fd[p]>> /\ fd'[p] = 0
  BY <1>1, <1>2 DEF CallType, Others
<1>4. ASSUME NEW i \in Inum, Has(p, i)' PROVE Usable(p, i) /\ type[i] # "free"
  <2>1. cwd[p] = i \/ cur[p] = i \/ tgt[p] = i \/ fd[p] = i
    BY <1>1, <1>2, <1>3, <1>4, InOf DEF Has
  <2> QED
    BY <1>1, <2>1, Plain DEF Has
<1>5. LockMoves(p)
  <2>1. Locked(p)' = {} /\ Locked(p) = {}
    BY <1>1, <1>2, NoLocks, NoLocksNext
  <2> QED
    BY <1>1, <2>1 DEF LockMoves
<1>6. Sound(p)'
  <2>1. type' = type
    BY <1>1 DEF diskVars
  <2>2. type'[cwd'[p]] = "dir"
    BY <1>1, <2>1, Plain
  <2>3. \A i \in Inum : Has(p, i)' => type'[i] # "free"
    BY <1>4, <2>1
  <2>4. op'[p] # "link"
    <3>1. Sound(p)
      BY DEF Tree, AllSound
    <3> QED
      BY <1>1, <3>1 DEF Sound
  <2> QED
    BY <1>1, <1>2, <2>2, <2>3, <2>4, SimplySound
<1>7. ASSUME NEW i \in Inum PROVE p \in InFlight(i)' <=> p \in InFlight(i)
  BY <1>1 DEF InFlight
<1> QED
  BY <1>1, <1>2, <1>3, <1>4, <1>5, <1>6, <1>7, QuietStep

\* iput() that only drops a reference.
LEMMA IputTree ==
    ASSUME Inv, Tree, Inv', NEW p \in Proc, Iput(p), ~Freeing(Head(put[p]))
    PROVE  Tree'
<1>1. /\ put[p] # <<>> /\ free[p] = "no" /\ put' = [put EXCEPT ![p] = Tail(@)]
      /\ UNCHANGED <<diskVars, lost, panic, busy, pc, op, rest, cur, tgt, free, cwd, fd>>
  BY DEF Iput, history
<1>2. CallType /\ put[p] \in Seq(Inum) /\ Len(put[p]) <= 2 /\ Sound(p)
  BY Facts DEF Phase, Tree, AllSound
<1>3. Others(p) /\ put'[p] = Tail(put[p])
  BY <1>1, <1>2 DEF CallType, Others
<1>4. pc[p] \notin {"fill", "parent", "remove"}
  BY <1>1, <1>2 DEF Sound
<1>5. ASSUME NEW i \in Inum, Has(p, i)' PROVE Usable(p, i) /\ type[i] # "free"
  <2>1. Has(p, i)
    BY <1>1, <1>2, <1>3, <1>5, InTail DEF Has
  <2> QED
    BY <1>1, <1>4, <2>1, UsableHas
<1>6. LockMoves(p)
  <2>1. Locked(p)' = Locked(p)
    BY <1>1 DEF Locked
  <2>2. \A i \in Locked(p) : busy[i]
    BY DEF Tree, LocksHeld, Locked
  <2> QED
    BY <1>1, <2>1, <2>2 DEF LockMoves
<1>7. Sound(p)'
  <2>1. type' = type
    BY <1>1 DEF diskVars
  <2>2. \A i \in Inum : Has(p, i)' => type'[i] # "free"
    BY <1>5, <2>1
  <2> QED
    BY <1>1, <1>2, <1>4, <2>1, <2>2 DEF Sound
<1>8. ASSUME NEW i \in Inum PROVE p \in InFlight(i)' <=> p \in InFlight(i)
  BY <1>1 DEF InFlight
<1> QED
  BY <1>1, <1>3, <1>4, <1>5, <1>6, <1>7, <1>8, QuietStep

\* iput() of the last pointer to an inode without links begins to free it.
LEMMA IputFreeTree ==
    ASSUME Inv, Tree, Inv', NEW p \in Proc, Iput(p), Freeing(Head(put[p]))
    PROVE  Tree'
<1> DEFINE i == Head(put[p])
<1>1. /\ put[p] # <<>> /\ free[p] = "no" /\ ~busy[i] /\ busy' = [busy EXCEPT ![i] = TRUE]
      /\ free' = [free EXCEPT ![p] = "disk"]
      /\ UNCHANGED <<diskVars, lost, panic, pc, op, rest, cur, tgt, put, cwd, fd>>
  BY DEF Iput, history
<1>2. CallType /\ CacheType /\ put[p] \in Seq(Inum) /\ Len(put[p]) <= 2 /\ Sound(p)
  BY Facts DEF Phase, Tree, AllSound
<1>3. i \in Inum /\ Has(p, i) /\ i = Freed(p)
  BY <1>1, <1>2, InTail, SlotsTail DEF Has, Freed
<1>4. ref[i] = 1 /\ nlink[i] = 0
  BY DEF Freeing
<1> HIDE DEF i
<1>5. (\A q \in Proc : q # p => ~Has(q, i)) /\ Own(p, i) = 1
  BY <1>3, <1>4, LastPointer
<1>6. Others(p) /\ free'[p] = "disk"
  BY <1>1, <1>2 DEF CallType, Others
<1>7. pc[p] \notin {"fill", "parent", "remove"} /\ pc'[p] = pc[p] /\ op'[p] = op[p] /\ tgt'[p] = tgt[p]
  BY <1>1, <1>2 DEF Sound
<1>8. Freed(p)' = i
  BY <1>1, <1>3 DEF Freed
<1>9. Locked(p)' = Locked(p) \cup {i}
  BY <1>1, <1>3, <1>6, <1>8 DEF Locked, Freed
<1>10. LockMoves(p)
  <2>1. \A j \in Locked(p) : busy[j]
    BY DEF Tree, LocksHeld, Locked
  <2>2. \A j \in Inum : busy'[j] <=> busy[j] \/ j = i
    BY <1>1, <1>2, <1>3 DEF CacheType
  <2> QED
    BY <1>1, <1>9, <2>1, <2>2 DEF LockMoves
<1>11. \A j : Has(p, j)' <=> Has(p, j)
  BY <1>1 DEF Has, In
<1>12. ASSUME NEW j \in Inum PROVE p \in InFlight(j)' <=> p \in InFlight(j)
  BY <1>1 DEF InFlight
<1>13. DiskMoves(p) /\ DiskGood' /\ Counts'
  BY <1>1, <1>6, <1>7, <1>12, QuietDisk
<1>14. ASSUME NEW q \in Proc, q # p PROVE Apart(p, q)' /\ Apart(q, p)'
  <2>1. /\ \A j : Has(q, j)' <=> Has(q, j)
        /\ Freed(q)' = Freed(q) /\ Locked(q)' = Locked(q) /\ free'[q] = free[q] /\ pc'[q] = pc[q] /\ tgt'[q] = tgt[q]
    BY <1>6, <1>14, OthersStay
  <2>2. Locked(p)' \cap Locked(q)' = {} /\ Apart(q, p)
    BY <1>6, <1>10, <1>14, LocksStay DEF Tree, AllApart
  <2>3. Apart(p, q)'
    BY <1>5, <1>6, <1>7, <1>8, <1>14, <2>1, <2>2 DEF Apart
  <2>4. free[q] = "disk" => ~Has(p, Freed(q))
    BY <2>2 DEF Apart
  <2>5. free[q] = "done" => ~Has(p, Freed(q))
    BY <1>7, <2>2 DEF Apart
  <2>6. pc[q] = "fill" => ~Has(p, tgt[q])
    BY <1>1, <2>2 DEF Apart
  <2>7. Apart(q, p)'
    BY <1>11, <2>1, <2>2, <2>4, <2>5, <2>6 DEF Apart
  <2> QED
    BY <2>3, <2>7
<1>15. Sound(p)'
  <2>1. type' = type /\ nlink' = nlink
    BY <1>1 DEF diskVars
  <2>2. \A j \in Inum : Has(p, j)' => type'[j] # "free"
    BY <1>1, <1>2, <1>11, <2>1 DEF Sound
  <2>3. Own(p, Freed(p))' = 1
    <3>1. \A j : Own(p, j)' = Own(p, j)
      BY <1>1 DEF Own, Slots
    <3> QED
      BY <1>5, <1>8, <3>1
  <2>4. nlink'[Freed(p)'] = 0
    BY <1>4, <1>8, <2>1
  <2>5. cwd'[p] = cwd[p] /\ type'[cwd[p]] = "dir"
    BY <1>1, <1>2, <2>1 DEF Sound
  <2>6. op[p] = "link" => pc[p] \in {"walk", "parent", "undo"} /\ type'[tgt'[p]] = "file"
    BY <1>1, <1>2, <2>1 DEF Sound
  <2>7. pc[p] = "undo" => op[p] = "link"
    BY <1>2 DEF Sound
  <2> QED
    BY <1>6, <1>7, <2>2, <2>3, <2>4, <2>5, <2>6, <2>7 DEF Sound
<1> QED
  BY <1>1, <1>6, <1>10, <1>13, <1>14, <1>15, StepTree

\* The one pointer to the freed inode is the first of the list, and goes.
LEMMA FreedOnce ==
    ASSUME Inv, Tree, NEW p \in Proc, free[p] # "no"
    PROVE  /\ cwd[p] # Freed(p) /\ fd[p] # Freed(p) /\ cur[p] # Freed(p) /\ tgt[p] # Freed(p)
           /\ ~In(Tail(put[p]), Freed(p))
<1> DEFINE i == Freed(p)
           s == put[p]
<1>1. i \in Inum /\ s # <<>> /\ In(s, i) /\ s \in Seq(Inum) /\ Len(s) <= 2 /\ i = Head(s)
  BY FreedHas, Facts DEF Phase, Freed
<1>2. Own(p, i) = 1
  BY DEF Tree, AllSound, Sound
<1>3. cwd[p] # i /\ fd[p] # i /\ cur[p] # i /\ tgt[p] # i
  BY <1>1, <1>2, HasOwn
<1>4. Slots(s, i) = 1
  <2>1. One(cwd[p] = i) = 0 /\ One(fd[p] = i) = 0 /\ One(cur[p] = i) = 0 /\ One(tgt[p] = i) = 0
    BY <1>3 DEF One
  <2>2. Slots(s, i) \in Nat
    BY DEF Slots, One
  <2>3. Own(p, i) = 0 + 0 + 0 + 0 + Slots(s, i)
    BY <2>1 DEF Own
  <2> QED
    BY <1>2, <2>2, <2>3
<1>5. Slots(Tail(s), i) = Slots(s, i) - One(Head(s) = i)
  <2> HIDE DEF i, s
  <2> QED
    BY <1>1, SlotsTail
<1>6. Slots(Tail(s), i) = 0
  BY <1>1, <1>4, <1>5 DEF One
<1>7. ~In(Tail(s), i)
  BY <1>6, InSlots
<1> QED
  BY <1>3, <1>7

LEMMA IputDoneTree ==
    ASSUME Inv, Tree, Inv', NEW p \in Proc, IputDone(p)
    PROVE  Tree'
<1> DEFINE i == Freed(p)
<1>1. /\ free[p] = "done" /\ busy' = [busy EXCEPT ![i] = FALSE]
      /\ put' = [put EXCEPT ![p] = Tail(@)] /\ free' = [free EXCEPT ![p] = "no"]
      /\ UNCHANGED <<diskVars, lost, panic, pc, op, rest, cur, tgt, cwd, fd>>
  BY DEF IputDone, Freed, history
<1>2. CallType /\ CacheType /\ put[p] \in Seq(Inum) /\ Len(put[p]) <= 2 /\ put[p] # <<>> /\ Sound(p)
  BY <1>1, Facts DEF Phase, Tree, AllSound
<1>3. Others(p) /\ put'[p] = Tail(put[p]) /\ free'[p] = "no"
  BY <1>1, <1>2 DEF CallType, Others
<1>4. pc[p] \notin {"fill", "parent", "remove"}
  BY <1>2 DEF Sound
<1>5. /\ cwd[p] # i /\ fd[p] # i /\ cur[p] # i /\ tgt[p] # i
      /\ ~In(Tail(put[p]), i) /\ i \in Inum
  BY <1>1, FreedOnce, FreedHas
<1>6. ASSUME NEW j \in Inum, Has(p, j)' PROVE Usable(p, j) /\ type[j] # "free"
  <2>1. j # i
    BY <1>1, <1>3, <1>5, <1>6 DEF Has
  <2>2. Has(p, j)
    BY <1>1, <1>2, <1>3, <1>6, InTail DEF Has
  <2> QED
    BY <1>4, <2>1, <2>2, UsableHas
<1>7. Locked(p)' = Locked(p) \ {i}
  BY <1>1, <1>3, <1>4, <1>5 DEF Locked, Freed
<1>8. LockMoves(p)
  <2>1. \A j \in Locked(p) : busy[j]
    BY DEF Tree, LocksHeld, Locked
  <2>2. \A j \in Inum : busy'[j] <=> busy[j] /\ j # i
    BY <1>1, <1>2, <1>5 DEF CacheType
  <2>3. i \in Locked(p)
    BY <1>1, FreedHas
  <2> HIDE DEF i
  <2> QED
    BY <1>7, <2>1, <2>2, <2>3 DEF LockMoves
<1>9. Sound(p)'
  <2>1. type' = type
    BY <1>1 DEF diskVars
  <2>2. \A j \in Inum : Has(p, j)' => type'[j] # "free"
    BY <1>6, <2>1
  <2> QED
    BY <1>1, <1>2, <1>3, <1>4, <2>1, <2>2 DEF Sound
<1>10. ASSUME NEW j \in Inum PROVE p \in InFlight(j)' <=> p \in InFlight(j)
  BY <1>1 DEF InFlight
<1> QED
  BY <1>1, <1>3, <1>4, <1>6, <1>8, <1>9, <1>10, QuietStep

-----------------------------------------------------------------------------
(* Counting names *)

\* One member comes or goes.
LEMMA OneIn ==
    ASSUME NEW S, IsFiniteSet(S), NEW x, x \notin S
    PROVE  Cardinality(S) \in Nat /\ Cardinality(S \cup {x}) = Cardinality(S) + 1
BY FS_AddElement, FS_CardinalityType

LEMMA OneOut ==
    ASSUME NEW S, IsFiniteSet(S), NEW x \in S
    PROVE  Cardinality(S) \in Nat /\ Cardinality(S \ {x}) = Cardinality(S) - 1
BY FS_RemoveElement, FS_CardinalityType

\* The names of k in the one directory i.
LEMMA NamesIn ==
    ASSUME Inv, NEW i \in Inum, NEW k \in Inum
    PROVE  LET N == {n \in Names : entry[i][n] = k}
               L == {e \in Links(k) : e[1] = i}
           IN  /\ Cardinality(N) \in Nat
               /\ type[i] = "dir" => Cardinality(L) = Cardinality(N)
               /\ Cardinality(Links(k) \ L) = Cardinality(Links(k)) - Cardinality(L)
<1> DEFINE N == {n \in Names : entry[i][n] = k}
           L == {e \in Links(k) : e[1] = i}
<1>1. IsFiniteSet(N) /\ Cardinality(N) \in Nat
  BY InodeAssumption, FS_Subset, FS_CardinalityType
<1>2. ASSUME type[i] = "dir" PROVE Cardinality(L) = Cardinality(N)
  <2>1. L = {i} \X N
    <3>1. ASSUME NEW e \in L PROVE e \in {i} \X N
      BY <3>1 DEF Links
    <3>2. ASSUME NEW e \in {i} \X N PROVE e \in L
      BY <1>2, <3>2 DEF Links
    <3> QED
      BY <3>1, <3>2
  <2>2. Cardinality({i}) = 1 /\ IsFiniteSet({i})
    BY FS_Singleton
  <2> HIDE DEF N, L
  <2>3. Cardinality({i} \X N) = Cardinality({i}) * Cardinality(N)
    BY <1>1, <2>2, FS_Product
  <2> QED
    BY <1>1, <2>1, <2>2, <2>3
<1>3. Cardinality(Links(k) \ L) = Cardinality(Links(k)) - Cardinality(L)
  <2>1. IsFiniteSet(Links(k)) /\ L \subseteq Links(k)
    BY CountsFinite
  <2>2. IsFiniteSet(L) /\ IsFiniteSet(Links(k) \ L)
    BY <2>1, FS_Subset
  <2> HIDE DEF L
  <2>3. Cardinality(L \cup (Links(k) \ L)) = Cardinality(L) + Cardinality(Links(k) \ L) - Cardinality(L \cap (Links(k) \ L))
    BY <2>2, FS_Union
  <2>4. L \cup (Links(k) \ L) = Links(k) /\ L \cap (Links(k) \ L) = {}
    BY <2>1
  <2>5. Cardinality({}) = 0
    BY FS_EmptySet
  <2>6. Cardinality(L) \in Nat /\ Cardinality(Links(k) \ L) \in Nat /\ Cardinality(Links(k)) \in Nat
    BY <2>1, <2>2, FS_CardinalityType
  <2> DEFINE a == Cardinality(L)  b == Cardinality(Links(k) \ L)  c == Cardinality(Links(k))
  <2>7. c = a + b - 0 /\ a \in Nat /\ b \in Nat /\ c \in Nat
    BY <2>3, <2>4, <2>5, <2>6
  <2> HIDE DEF a, b, c
  <2>8. b = c - a
    BY <2>7
  <2> QED
    BY <2>8 DEF a, b, c
<1> QED
  BY <1>1, <1>2, <1>3

\* An inode is freed without names, subdirectories or calls that count it.
LEMMA FreedBare ==
    ASSUME Inv, Tree, NEW p \in Proc, free[p] = "disk", NEW i, i = Freed(p)
    PROVE  /\ i \in Inum /\ i # Root /\ Links(i) = {} /\ type[i] # "free" /\ nlink[i] = 0
           /\ \A q \in Proc : q # p => ~Has(q, i)
           /\ \A k \in Inum, n \in Names : entry[i][n] = k => type[i] = "dir" /\ type[k] # "dir"
<1>1. i \in Inum /\ Has(p, i) /\ Sound(p)
  BY FreedHas DEF Tree, AllSound
<1>2. nlink[i] = 0 /\ type[i] # "free"
  BY <1>1 DEF Sound
<1>3. Links(i) = {} /\ Subdirs(i) = {} /\ i # Root
  BY <1>1, <1>2, CountCovers
<1>4. \A q \in Proc : q # p => ~Has(q, i)
  BY DEF Tree, AllApart, Apart
<1>5. ASSUME NEW k \in Inum, NEW n \in Names, entry[i][n] = k PROVE type[i] = "dir" /\ type[k] # "dir"
  <2>1. type[i] = "dir"
    <3>1. InodeGood(i) /\ k # 0
      BY <1>1, Facts DEF Tree, DiskGood
    <3> QED
      BY <1>5, <3>1 DEF InodeGood, NoEntries
  <2>2. type[k] # "dir"
    <3>1. NameGood(i, n, k)
      BY <1>1 DEF Tree, DiskGood
    <3>2. <<i, n>> \in Links(k)
      BY <1>1, <1>5, <2>1 DEF Links
    <3>3. type[k] = "dir" => k \in Subdirs(i)
      BY <1>5, <2>1, <3>1, <3>2 DEF NameGood, Subdirs
    <3> QED
      BY <1>3, <3>3
  <2> QED
    BY <2>1, <2>2
<1> QED
  BY <1>1, <1>2, <1>3, <1>4, <1>5

LEMMA IputDiskTree ==
    ASSUME Inv, Tree, Inv', NEW p \in Proc, IputDisk(p)
    PROVE  Tree'
<1> DEFINE i == Freed(p)
           N(k) == {n \in Names : entry[i][n] = k}
           L(k) == {e \in Links(k) : e[1] = i}
<1>1. /\ free[p] = "disk" /\ type' = [type EXCEPT ![i] = "free"]
      /\ entry' = [entry EXCEPT ![i] = NoEntries] /\ dotdot' = [dotdot EXCEPT ![i] = 0]
      /\ lost' = [k \in Inum |-> lost[k] + Cardinality(N(k))]
      /\ free' = [free EXCEPT ![p] = "done"]
      /\ UNCHANGED <<nlink, busy, pc, op, rest, cur, tgt, put, cwd, fd, panic>>
  BY DEF IputDisk, Freed, cacheVars
<1>2. DiskType /\ CallType /\ Sound(p) /\ put[p] # <<>>
  BY <1>1, Facts DEF Phase, Tree, AllSound
<1>3. /\ i \in Inum /\ i # Root /\ Links(i) = {} /\ type[i] # "free" /\ nlink[i] = 0
      /\ \A q \in Proc : q # p => ~Has(q, i)
      /\ \A k \in Inum, n \in Names : entry[i][n] = k => type[i] = "dir" /\ type[k] # "dir"
  BY <1>1, FreedBare
<1>4. pc[p] \notin {"parent", "fill", "remove"}
  BY <1>2 DEF Sound
<1>5. Has(p, i) /\ i \in Locked(p) /\ cwd[p] # i /\ tgt[p] # i
  BY <1>1, FreedHas, FreedOnce
<1>6. Usable(p, i)
  BY <1>1, <1>3, <1>4, <1>5, UsableHas
<1>7. \A k \in Inum : N(k) # {} => type[i] = "dir" /\ type[k] # "dir"
  BY <1>3
<1>8. i = Head(put[p]) /\ i' = i
  BY <1>1 DEF Freed
<1> HIDE DEF i
<1>9. \A j \in Inum : j # i => type'[j] = type[j] /\ entry'[j] = entry[j] /\ dotdot'[j] = dotdot[j]
  BY <1>1, <1>2 DEF DiskType
<1>10. type'[i] = "free" /\ entry'[i] = NoEntries /\ dotdot'[i] = 0
  BY <1>1, <1>2, <1>3 DEF DiskType
<1>11. DiskMoves(p)
  BY <1>1, <1>3, <1>5, <1>6, <1>9 DEF DiskMoves
<1>12. ASSUME NEW k \in Inum PROVE Links(k)' = Links(k) \ L(k)
  <2>1. \A e \in Inum \X Names : e \in Links(k)' <=> e \in Links(k) /\ e[1] # i
    BY <1>9, <1>10 DEF Links
  <2>2. Links(k) \subseteq Inum \X Names /\ Links(k)' \subseteq Inum \X Names
    BY DEF Links
  <2> QED
    BY <2>1, <2>2
<1>13. ASSUME NEW k \in Inum, type[k] = "dir" PROVE Links(k)' = Links(k)
  <2>1. L(k) = {}
    BY <1>3, <1>13 DEF Links
  <2> QED
    BY <1>12, <2>1
<1>14. ASSUME NEW k \in Inum PROVE Subdirs(k)' = Subdirs(k)
  <2>1. ASSUME NEW j \in Inum PROVE j \in Subdirs(k)' <=> j \in Subdirs(k)
    <3>1. CASE j = i
      BY <1>3, <1>10, <3>1 DEF Subdirs
    <3>2. CASE j # i
      BY <1>9, <1>13, <3>2 DEF Subdirs
    <3> QED
      BY <3>1, <3>2
  <2>2. Subdirs(k) \subseteq Inum /\ Subdirs(k)' \subseteq Inum
    BY DEF Subdirs
  <2> QED
    BY <2>1, <2>2
<1>15. \A k \in Inum : InFlight(k)' = InFlight(k)
  BY <1>1 DEF InFlight
<1>16. ASSUME NEW k \in Inum PROVE nlink'[k] = Count(k)'
  <2>1. /\ Cardinality(N(k)) \in Nat /\ (type[i] = "dir" => Cardinality(L(k)) = Cardinality(N(k)))
        /\ Cardinality(Links(k) \ L(k)) = Cardinality(Links(k)) - Cardinality(L(k))
    BY <1>3, NamesIn
  <2>2. Cardinality(L(k)) = Cardinality(N(k))
    <3>1. CASE type[i] = "dir"
      BY <2>1, <3>1
    <3>2. CASE type[i] # "dir"
      <4>1. N(k) = {} /\ L(k) = {}
        BY <1>7, <3>2 DEF Links
      <4> QED
        BY <4>1
    <3> QED
      BY <3>1, <3>2
  <2>3. lost'[k] = lost[k] + Cardinality(N(k))
    BY <1>1
  <2> DEFINE a == Cardinality(Links(k))  b == Cardinality(Subdirs(k))  c == Cardinality(InFlight(k))
             l == lost[k]  m == Cardinality(N(k))  r == One(k = Root)
  <2>4. nlink[k] = a + b + l + r + c
    BY DEF Tree, Counts, Count
  <2>5. a \in Nat /\ b \in Nat /\ c \in Nat /\ l \in Nat /\ m \in Nat /\ r \in Nat
    BY <2>1, CountsFinite DEF One
  <2>6. Cardinality(Links(k)') = a - m
    BY <1>12, <2>1, <2>2
  <2>7. Count(k)' = (a - m) + b + (l + m) + r + c
    BY <1>14, <1>15, <2>3, <2>6 DEF Count, One
  <2> HIDE DEF a, b, c, l, m, r
  <2> QED
    BY <1>1, <2>4, <2>5, <2>7
<1>17. RootGood'
  BY <1>3, <1>9, Facts DEF RootGood, Tree, DiskGood
<1>18. ASSUME NEW j \in Inum PROVE InodeGood(j)'
  <2>1. CASE j = i
    BY <1>1, <1>3, <1>10, <2>1 DEF InodeGood
  <2>2. CASE j # i
    <3>1. InodeGood(j) /\ lost[j] \in Nat
      BY <1>2 DEF Tree, DiskGood, DiskType
    <3>2. type[j] = "dir" => lost'[j] = lost[j]
      <4>1. type[j] = "dir" => N(j) = {}
        BY <1>7
      <4> QED
        BY <1>1, <3>1, <4>1, FS_EmptySet
    <3> QED
      BY <1>1, <1>9, <2>2, <3>1, <3>2 DEF InodeGood
  <2> QED
    BY <2>1, <2>2
<1>19. ASSUME NEW d \in Inum, NEW j \in Inum, NEW n \in Names PROVE NameGood(d, n, j)'
  <2>1. NameGood(d, n, j)
    BY DEF Tree, DiskGood
  <2>2. type'[j] = "dir" /\ type'[d] = "dir" => j # i /\ d # i
    BY <1>10
  <2> QED
    BY <1>9, <2>1, <2>2 DEF NameGood
<1>20. DiskGood' /\ Counts'
  BY <1>16, <1>17, <1>18, <1>19 DEF DiskGood, Counts
<1>21. Others(p) /\ free'[p] = "done"
  BY <1>1, <1>2 DEF CallType, Others
<1>22. LockMoves(p)
  <2>1. Locked(p)' = Locked(p)
    BY <1>1, <1>21 DEF Locked
  <2>2. \A j \in Locked(p) : busy[j]
    BY DEF Tree, LocksHeld, Locked
  <2> QED
    BY <1>1, <2>1, <2>2 DEF LockMoves
<1>23. \A j : (Has(p, j)' <=> Has(p, j)) /\ Own(p, j)' = Own(p, j)
  BY <1>1 DEF Has, In, Own, Slots
<1>24. Freed(p)' = Freed(p) /\ Freed(p) = i
  BY <1>1, <1>8 DEF Freed
<1>25. ASSUME NEW q \in Proc, q # p PROVE Apart(p, q)' /\ Apart(q, p)'
  <2>1. /\ \A j : Has(q, j)' <=> Has(q, j)
        /\ Freed(q)' = Freed(q) /\ Locked(q)' = Locked(q) /\ free'[q] = free[q] /\ pc'[q] = pc[q] /\ tgt'[q] = tgt[q]
    BY <1>21, <1>25, OthersStay
  <2>2. Locked(p)' \cap Locked(q)' = {} /\ Apart(q, p)
    BY <1>21, <1>22, <1>25, LocksStay DEF Tree, AllApart
  <2>3. Apart(p, q)'
    BY <1>1, <1>3, <1>4, <1>21, <1>24, <1>25, <2>1, <2>2 DEF Apart
  <2>4. free[q] = "disk" => ~Has(p, Freed(q))
    BY <2>2 DEF Apart
  <2>5. free[q] = "done" => ~Has(p, Freed(q))
    BY <1>4, <2>2 DEF Apart
  <2>6. pc[q] = "fill" => ~Has(p, tgt[q])
    BY <1>1, <2>2 DEF Apart
  <2>7. Apart(q, p)'
    BY <1>23, <2>1, <2>2, <2>4, <2>5, <2>6 DEF Apart
  <2> QED
    BY <2>3, <2>7
<1>26. Sound(p)'
  <2>1. \A j \in Inum : Has(p, j)' /\ type'[j] = "free" => j = i
    BY <1>1, <1>2, <1>9, <1>23 DEF Sound
  <2>2. cwd'[p] = cwd[p] /\ type'[cwd[p]] = "dir"
    <3>1. cwd[p] \in Inum /\ type[cwd[p]] = "dir"
      BY <1>2, Facts DEF Sound
    <3> QED
      BY <1>1, <1>5, <1>9, <3>1
  <2>3. op[p] = "link" => pc[p] \in {"walk", "parent", "undo"} /\ type'[tgt[p]] = "file"
    <3>1. op[p] = "link" => pc[p] \in {"walk", "parent", "undo"} /\ type[tgt[p]] = "file"
      BY <1>2 DEF Sound
    <3>2. op[p] = "link" /\ pc[p] \in {"walk", "parent", "undo"} => tgt[p] \in Inum
      BY Facts DEF Phase
    <3> QED
      BY <1>5, <1>9, <3>1, <3>2
  <2>4. nlink'[Freed(p)'] = 0
    BY <1>1, <1>3, <1>24
  <2>5. Own(p, Freed(p))' = 1
    <3>1. Own(p, Freed(p)) = 1
      BY <1>1, <1>2 DEF Sound
    <3>2. \A j : Own(p, j)' = Own(p, j)
      BY <1>23
    <3> QED
      BY <1>24, <3>1, <3>2
  <2>6. pc[p] = "undo" => op[p] = "link"
    BY <1>2 DEF Sound
  <2>7. \A j \in Inum : Has(p, j)' /\ type'[j] = "free" => free'[p] = "done" /\ j = Freed(p)'
    BY <1>21, <1>24, <2>1
  <2> QED
    BY <1>1, <1>4, <1>21, <2>2, <2>3, <2>4, <2>5, <2>6, <2>7 DEF Sound
<1> QED
  BY <1>1, <1>11, <1>20, <1>21, <1>22, <1>25, <1>26, StepTree

-----------------------------------------------------------------------------
(* Steps that look names up *)

\* A step to a phase without locks, after which p has what it had and inodes
\* that have a link.
LEMMA MoveTree ==
    ASSUME Inv, Tree, Inv', NEW p \in Proc, put[p] = <<>>, Others(p),
           UNCHANGED <<diskVars, lost, panic, busy, free, cwd>>,
           pc[p] \in {"user", "walk", "parent"}, pc'[p] \in {"walk", "parent", "exists", "undo"},
           op'[p] = "link" <=> op[p] = "link",
           op[p] = "link" => tgt'[p] = tgt[p] /\ pc'[p] # "exists", pc'[p] = "undo" => op[p] = "link",
           pc'[p] = "parent" => put'[p] = <<>> /\ type[cur'[p]] = "dir",
           \A i \in Inum : Has(p, i)' => Has(p, i) \/ nlink[i] # 0
    PROVE  Tree'
<1>1. free[p] = "no" /\ type' = type /\ Sound(p) /\ cwd' = cwd
  BY Plain DEF diskVars, Tree, AllSound
<1>2. ASSUME NEW i \in Inum, Has(p, i)' PROVE Usable(p, i) /\ type[i] # "free"
  BY <1>2, Plain, UsableLinked
<1>3. LockMoves(p)
  <2>1. Locked(p)' = {} /\ Locked(p) = {}
    BY <1>1, NoLocks, NoLocksNext
  <2> QED
    BY <2>1 DEF LockMoves
<1>4. Sound(p)'
  <2>1. type'[cwd'[p]] = "dir"
    BY <1>1 DEF Sound
  <2>2. \A i \in Inum : Has(p, i)' => type'[i] # "free"
    BY <1>1, <1>2
  <2>3. op[p] = "link" => type[tgt[p]] = "file"
    BY <1>1 DEF Sound
  <2>4. op'[p] = "link" => pc'[p] \in {"walk", "parent", "undo"} /\ type'[tgt'[p]] = "file"
    BY <1>1, <2>3
  <2>5. pc'[p] = "parent" => type'[cur'[p]] = "dir"
    BY <1>1
  <2> QED
    BY <1>1, <2>1, <2>2, <2>4, <2>5 DEF Sound
<1>5. ASSUME NEW i \in Inum PROVE p \in InFlight(i)' <=> p \in InFlight(i)
  BY DEF InFlight
<1> QED
  BY <1>1, <1>2, <1>3, <1>4, <1>5, QuietStep

LEMMA CallTree ==
    ASSUME Inv, Tree, Inv', NEW p \in Proc, NEW c \in Calls, Call(p, c)
    PROVE  Tree'
<1> DEFINE i == IF c.path.abs THEN Root ELSE cwd[p]
<1>1. /\ put[p] = <<>> /\ pc[p] = "user"
      /\ op' = [op EXCEPT ![p] = c.op] /\ rest' = [rest EXCEPT ![p] = c.path.names]
      /\ cur' = [cur EXCEPT ![p] = i] /\ pc' = [pc EXCEPT ![p] = "walk"]
      /\ UNCHANGED <<diskVars, lost, panic, busy, free, cwd, fd, tgt, put>>
  BY DEF Call, At, Start, history
<1>2. CallType /\ Root \in Inum /\ 0 \notin Inum
  BY Facts
<1>3. c.op # "link" /\ op[p] # "link"
  <2>1. Sound(p)
    BY DEF Tree, AllSound
  <2> QED
    BY <1>1, <2>1, InodeAssumption DEF Sound
<1>4. nlink[Root] # 0
  BY <1>2, CountCovers
<1>5. Has(p, i) \/ i = Root
  BY DEF Has
<1> HIDE DEF i
<1>6. Others(p)
  BY <1>1, <1>2 DEF CallType, Others
<1>7. pc'[p] = "walk" /\ op'[p] = c.op /\ cur'[p] = i
  BY <1>1, <1>2 DEF CallType
<1>8. ASSUME NEW j \in Inum, Has(p, j)' PROVE Has(p, j) \/ nlink[j] # 0
  <2>1. Has(p, j) \/ j = i
    BY <1>1, <1>7, <1>8 DEF Has, In
  <2> QED
    BY <1>4, <1>5, <2>1
<1> QED
  BY <1>1, <1>3, <1>6, <1>7, <1>8, MoveTree

\* link() goes on to undo the count.
LEMMA UndoTree ==
    ASSUME Inv, Tree, Inv', NEW p \in Proc, put[p] = <<>>, pc[p] \in {"walk", "parent"}, op[p] = "link",
           Fail(p), UNCHANGED <<diskVars, lost, panic, busy, free, cwd, fd>>
    PROVE  Tree'
<1>1. /\ pc' = [pc EXCEPT ![p] = "undo"] /\ put' = [put EXCEPT ![p] = <<cur[p]>>]
      /\ cur' = [cur EXCEPT ![p] = 0] /\ UNCHANGED <<op, rest, tgt>>
  BY DEF Fail, Then
<1>2. CallType /\ 0 \notin Inum
  BY Facts
<1>3. Others(p) /\ pc'[p] = "undo" /\ cur'[p] = 0 /\ put'[p] = <<cur[p]>>
  BY <1>1, <1>2 DEF CallType, Others
<1>4. ASSUME NEW j \in Inum, Has(p, j)' PROVE Has(p, j)
  BY <1>1, <1>2, <1>3, <1>4, InOf DEF Has
<1> QED
  BY <1>1, <1>3, <1>4, MoveTree

\* Any other call ends.
LEMMA EndTree ==
    ASSUME Inv, Tree, Inv', NEW p \in Proc, put[p] = <<>>, pc[p] \in {"walk", "parent"}, op[p] # "link",
           Return(p, <<cur[p]>>), UNCHANGED <<diskVars, lost, panic, busy, free, cwd, fd>>
    PROVE  Tree'
<1>1. cur[p] \in Inum /\ Has(p, cur[p])
  BY Facts DEF Has
<1>2. \A i \in Inum : cwd'[p] = i \/ fd'[p] = i \/ In(<<cur[p]>>, i) => Has(p, i)
  BY <1>1, InOf DEF Has
<1>3. \A i \in Inum : busy'[i] <=> busy[i] /\ i \notin Locked(p)
  BY BusyStays, Plain
<1>4. type[cwd'[p]] = "dir"
  BY Plain
<1> QED
  BY <1>2, <1>3, <1>4, ReturnTree

LEMMA WalkTree ==
    ASSUME Inv, Tree, Inv', NEW p \in Proc, Walk(p), ~strayed'
    PROVE  Tree'
<1> DEFINE i == cur[p]
           n == Head(rest[p])
           next == Lookup(i, n)
<1>1. /\ put[p] = <<>> /\ pc[p] = "walk" /\ rest[p] # <<>>
      /\ UNCHANGED <<diskVars, lost, panic, busy, free, cwd, fd>>
  BY DEF Walk, At
<1>2. CallType /\ i \in Inum /\ n \in Names \cup {".."} /\ 0 \notin Inum
  BY <1>1, Facts
<1>3. CASE Then(p, "parent", <<>>) /\ UNCHANGED <<op, rest, cur, tgt>> /\ type[i] = "dir"
  <2>1. Others(p) /\ pc'[p] = "parent" /\ put'[p] = <<>> /\ cur'[p] = cur[p]
    BY <1>1, <1>2, <1>3 DEF CallType, Others, Then
  <2>2. ASSUME NEW j \in Inum, Has(p, j)' PROVE Has(p, j)
    BY <1>1, <1>3, <2>1, <2>2 DEF Has, In
  <2> QED
    BY <1>1, <1>3, <2>1, <2>2, MoveTree
<1>4. CASE Fail(p)
  <2>1. CASE op[p] = "link"
    BY <1>1, <1>4, <2>1, UndoTree
  <2>2. CASE op[p] # "link"
    <3>1. Return(p, <<cur[p]>>)
      BY <1>4, <2>2 DEF Fail
    <3> QED
      BY <1>1, <2>2, <3>1, EndTree
  <2> QED
    BY <2>1, <2>2
<1>5. CASE /\ Follow(i, n) /\ Then(p, "walk", <<i>>) /\ cur' = [cur EXCEPT ![p] = next]
           /\ rest' = [rest EXCEPT ![p] = Tail(@)] /\ UNCHANGED <<op, tgt>>
           /\ type[i] = "dir" /\ next # 0
  <2>1. next \in Inum /\ nlink[next] >= 1
    BY <1>2, <1>5, Followed DEF Follow
  <2>2. nlink[next] # 0
    BY <2>1
  <2> HIDE DEF next
  <2>3. Others(p) /\ pc'[p] = "walk" /\ put'[p] = <<i>> /\ cur'[p] = next
    BY <1>1, <1>2, <1>5 DEF CallType, Others, Then
  <2>4. ASSUME NEW j \in Inum, Has(p, j)' PROVE Has(p, j) \/ j = next
    BY <1>1, <1>5, <2>3, <2>4, InOf DEF Has
  <2>5. \A j \in Inum : Has(p, j)' => Has(p, j) \/ nlink[j] # 0
    BY <2>2, <2>4
  <2> QED
    BY <1>1, <1>5, <2>3, <2>5, MoveTree
<1> QED
  BY <1>3, <1>4, <1>5 DEF Walk

LEMMA CreateExistsTree ==
    ASSUME Inv, Tree, Inv', NEW p \in Proc, CreateExists(p), ~strayed'
    PROVE  Tree'
<1> DEFINE d == cur[p]
           n == Head(rest[p])
           i == Lookup(d, n)
<1>1. /\ put[p] = <<>> /\ pc[p] = "parent" /\ op[p] \in {"create", "mkdir"} /\ i # 0
      /\ Follow(d, n) /\ Then(p, "exists", <<d>>)
      /\ cur' = [cur EXCEPT ![p] = 0] /\ tgt' = [tgt EXCEPT ![p] = i]
      /\ UNCHANGED <<diskVars, lost, panic, busy, free, cwd, fd, op, rest>>
  BY DEF CreateExists, AtParent, At
<1>2. /\ CallType /\ d \in Inum /\ n \in Names \cup {".."} /\ 0 \notin Inum
      /\ Sound(p)
  BY <1>1, Facts DEF Phase, Tree, AllSound
<1>3. type[d] = "dir"
  BY <1>1, <1>2 DEF Sound
<1>4. i \in Inum /\ nlink[i] >= 1
  BY <1>1, <1>2, <1>3, Followed DEF Follow
<1>5. nlink[i] # 0
  BY <1>4
<1> HIDE DEF i
<1>6. Others(p) /\ pc'[p] = "exists" /\ put'[p] = <<d>> /\ cur'[p] = 0 /\ tgt'[p] = i
  BY <1>1, <1>2 DEF CallType, Others, Then
<1>7. ASSUME NEW j \in Inum, Has(p, j)' PROVE Has(p, j) \/ j = i
  BY <1>1, <1>2, <1>6, <1>7, InOf DEF Has
<1>8. \A j \in Inum : Has(p, j)' => Has(p, j) \/ nlink[j] # 0
  BY <1>5, <1>7
<1> QED
  BY <1>1, <1>6, <1>8, MoveTree

LEMMA UnlinkLookupTree ==
    ASSUME Inv, Tree, Inv', NEW p \in Proc, UnlinkLookup(p)
    PROVE  Tree'
<1> DEFINE d == cur[p]
           n == Head(rest[p])
           i == Lookup(d, n)
<1>1. /\ put[p] = <<>> /\ pc[p] = "parent" /\ op[p] = "unlink" /\ ~busy[d]
      /\ UNCHANGED <<diskVars, lost, panic, free, cwd, fd>>
  BY DEF UnlinkLookup, AtParent, At, Lock, history
<1>2. /\ CallType /\ CacheType /\ d \in Inum /\ n \in Names \cup {".."} /\ 0 \notin Inum
      /\ Sound(p) /\ free[p] = "no" /\ rest[p] # <<>>
  BY <1>1, Facts, Plain DEF Phase, Tree, AllSound
<1>3. type[d] = "dir" /\ type[cwd[p]] = "dir"
  BY <1>1, <1>2 DEF Sound
<1>4. CASE Refused(p)
  <2>1. Return(p, <<d>>) /\ busy' = busy
    BY <1>4 DEF UnlinkLookup
  <2> QED
    BY <1>1, <2>1, EndTree
<1>5. CASE ~Refused(p)
  <2>1. /\ busy' = [busy EXCEPT ![d] = TRUE] /\ tgt' = [tgt EXCEPT ![p] = i]
        /\ pc' = [pc EXCEPT ![p] = "remove"] /\ UNCHANGED <<op, rest, cur, put>>
    BY <1>5 DEF UnlinkLookup
  <2>2. n \in Names /\ i # 0 /\ i = entry[d][n]
    BY <1>2, <1>5 DEF Refused, Lookup
  <2>3. i \in Inum /\ nlink[i] >= 1
    BY <1>2, <1>3, <2>2, InodeAssumption, Followed
  <2>4. nlink[i] # 0
    BY <2>3
  <2> HIDE DEF i
  <2>5. Others(p) /\ pc'[p] = "remove" /\ tgt'[p] = i
    BY <1>1, <1>2, <2>1 DEF CallType, Others
  <2>6. ASSUME NEW j \in Inum, Has(p, j)' PROVE Has(p, j) \/ j = i
    BY <1>1, <2>1, <2>5, <2>6 DEF Has, In
  <2>7. ASSUME NEW j \in Inum, Has(p, j)' PROVE Usable(p, j) /\ type[j] # "free"
    BY <1>1, <2>4, <2>6, <2>7, Plain, UsableLinked
  <2>8. LockMoves(p)
    <3>1. Locked(p) = {}
      BY <1>1, <1>2, NoLocks
    <3>2. Locked(p)' = {d}
      BY <1>1, <1>2, <2>1, <2>5 DEF Locked
    <3>3. \A j \in Inum : busy'[j] <=> busy[j] \/ j = d
      BY <1>2, <2>1 DEF CacheType
    <3> QED
      BY <1>1, <3>1, <3>2, <3>3 DEF LockMoves
  <2>9. Sound(p)'
    <3>1. type' = type /\ entry' = entry
      BY <1>1 DEF diskVars
    <3>2. EntryHeld(p)'
      BY <1>3, <2>1, <2>2, <2>5, <3>1 DEF EntryHeld
    <3>3. \A j \in Inum : Has(p, j)' => type'[j] # "free"
      BY <2>7, <3>1
    <3> QED
      BY <1>1, <1>2, <1>3, <2>1, <2>5, <3>1, <3>2, <3>3 DEF Sound
  <2>10. ASSUME NEW j \in Inum PROVE p \in InFlight(j)' <=> p \in InFlight(j)
    BY <1>1, <2>1, <2>5 DEF InFlight
  <2> QED
    BY <1>1, <1>2, <2>5, <2>7, <2>8, <2>9, <2>10, QuietStep
<1> QED
  BY <1>4, <1>5

-----------------------------------------------------------------------------
(* Steps that make and remove names *)

\* The count follows its parts.
LEMMA CountFollows ==
    ASSUME Inv, Tree, NEW k \in Inum, NEW a \in Int, NEW b \in Int, NEW c \in Int, lost' = lost,
           Cardinality(Links(k)') = Cardinality(Links(k)) + a,
           Cardinality(Subdirs(k)') = Cardinality(Subdirs(k)) + b,
           Cardinality(InFlight(k)') = Cardinality(InFlight(k)) + c,
           nlink'[k] = nlink[k] + a + b + c
    PROVE  nlink'[k] = Count(k)'
<1> DEFINE x == Cardinality(Links(k))  y == Cardinality(Subdirs(k))  z == Cardinality(InFlight(k))
           l == lost[k]  r == One(k = Root)
<1>1. nlink[k] = x + y + l + r + z
  BY DEF Tree, Counts, Count
<1>2. x \in Nat /\ y \in Nat /\ z \in Nat /\ l \in Nat /\ r \in Nat
  BY CountsFinite DEF One
<1>3. Count(k)' = (x + a) + (y + b) + l + r + (z + c)
  BY DEF Count
<1> HIDE DEF x, y, z, l, r
<1> QED
  BY <1>1, <1>2, <1>3

\* The calls in progress that count k.
LEMMA InFlightFollows ==
    ASSUME Inv, NEW p \in Proc, Others(p), NEW k \in Inum
    PROVE  Cardinality(InFlight(k)') =
              Cardinality(InFlight(k)) + (One((p \in InFlight(k))') - One(p \in InFlight(k)))
<1>1. \A q \in Proc : q # p => (q \in InFlight(k)' <=> q \in InFlight(k))
  BY OthersStay DEF InFlight
<1>2. InFlight(k) \in SUBSET Proc /\ InFlight(k)' \in SUBSET Proc
  BY DEF InFlight
<1> DEFINE A == InFlight(k)  B == InFlight(k)'
<1>3. /\ Cardinality(A) \in Nat /\ Cardinality(B) \in Nat
      /\ Cardinality(B) = (Cardinality(A) - One(p \in A)) + One(p \in B)
  <2>1. A \in SUBSET Proc /\ B \in SUBSET Proc /\ \A q \in Proc : q # p => (q \in A <=> q \in B)
    BY <1>1, <1>2
  <2> HIDE DEF A, B
  <2> QED
    BY <2>1, CountOne
<1>4. One(p \in A) \in Int /\ One(p \in B) \in Int
  BY DEF One
<1> QED
  BY <1>3, <1>4

\* Entry n of directory d leads to i.
Entered(d, n, i) == entry' = [entry EXCEPT ![d][n] = i]

\* One entry of a directory changes.
LEMMA EntryFollows ==
    ASSUME Inv, Inv', type' = type, NEW d \in Inum, type[d] = "dir", NEW n \in Names, NEW i,
           Entered(d, n, i), NEW k \in Inum
    PROVE  /\ Links(k)' = IF k = i THEN Links(k) \cup {<<d, n>>} ELSE Links(k) \ {<<d, n>>}
           /\ Cardinality(Links(k)') = Cardinality(Links(k)) + (One(k = i) - One(k = entry[d][n]))
<1>1. DiskType
  BY DEF Inv
<1>2. /\ entry'[d][n] = i
      /\ \A e \in Inum, m \in Names : <<e, m>> # <<d, n>> => entry'[e][m] = entry[e][m]
  BY <1>1 DEF DiskType, Entered
<1>3. \A e \in Inum, m \in Names : /\ <<e, m>> \in Links(k) <=> type[e] = "dir" /\ entry[e][m] = k
                                   /\ <<e, m>> \in Links(k)' <=> type[e] = "dir" /\ entry'[e][m] = k
  BY DEF Links
<1>4. Links(k) \subseteq Inum \X Names /\ Links(k)' \subseteq Inum \X Names
  BY DEF Links
<1> DEFINE A == Links(k)  B == Links(k)'  x == <<d, n>>
<1>5. /\ x \in A <=> entry[d][n] = k
      /\ x \in B <=> i = k
      /\ \A y : y # x => (y \in A <=> y \in B)
  <2>1. x \in A <=> entry[d][n] = k
    BY <1>3
  <2>2. x \in B <=> i = k
    BY <1>2, <1>3
  <2>3. ASSUME NEW y, y # x, y \in A \/ y \in B PROVE y \in A <=> y \in B
    <3>1. PICK e \in Inum, m \in Names : y = <<e, m>>
      BY <1>4, <2>3
    <3> QED
      BY <1>2, <1>3, <2>3, <3>1
  <2> QED
    BY <2>1, <2>2, <2>3
<1>6. IsFiniteSet(A)
  BY CountsFinite
<1> HIDE DEF A, B, x
<1>7. B = IF k = i THEN A \cup {x} ELSE A \ {x}
  BY <1>5
<1>8. Cardinality(A) \in Nat
  BY <1>6, FS_CardinalityType
<1>9. Cardinality(B) = Cardinality(A) + (One(k = i) - One(k = entry[d][n]))
  <2>1. CASE x \in A /\ x \in B
    <3>1. B = A
      BY <1>5, <2>1
    <3> QED
      BY <1>5, <1>8, <2>1, <3>1 DEF One
  <2>2. CASE x \in A /\ x \notin B
    <3>1. B = A \ {x}
      BY <1>5, <2>2
    <3>2. Cardinality(B) = Cardinality(A) - 1
      BY <1>6, <2>2, <3>1, OneOut
    <3> QED
      BY <1>5, <1>8, <2>2, <3>2 DEF One
  <2>3. CASE x \notin A /\ x \in B
    <3>1. B = A \cup {x}
      BY <1>5, <2>3
    <3>2. Cardinality(B) = Cardinality(A) + 1
      BY <1>6, <2>3, <3>1, OneIn
    <3> QED
      BY <1>5, <1>8, <2>3, <3>2 DEF One
  <2>4. CASE x \notin A /\ x \notin B
    <3>1. B = A
      BY <1>5, <2>4
    <3> QED
      BY <1>5, <1>8, <2>4, <3>1 DEF One
  <2> QED
    BY <2>1, <2>2, <2>3, <2>4
<1> QED
  BY <1>7, <1>9 DEF A, B, x

\* Nothing but the entries of regular files changes, so no directory comes or goes.
LEMMA SubdirsStay ==
    ASSUME type' = type, dotdot' = dotdot,
           \A j \in Inum : type[j] = "dir" => (Links(j)' # {} <=> Links(j) # {})
    PROVE  \A k \in Inum : Subdirs(k)' = Subdirs(k)
BY DEF Subdirs

\* A step that counts an inode up or down for a name that is to be made, or is
\* gone.
LEMMA CountTree ==
    ASSUME Inv, Tree, Inv', NEW p \in Proc, Others(p), LockMoves(p), put[p] = <<>>, pc[p] # "fill",
           NEW i \in Inum, Has(p, i), NEW x \in Int, nlink' = [nlink EXCEPT ![i] = @ + x],
           UNCHANGED <<type, entry, dotdot, lost, panic, free>>, pc'[p] # "fill",
           \A k \in Inum : One((p \in InFlight(k))') - One(p \in InFlight(k)) = IF k = i THEN x ELSE 0,
           \A j \in Inum : Has(p, j)' => Has(p, j) \/ nlink[j] # 0,
           Sound(p)'
    PROVE  Tree'
<1>1. DiskType /\ free[p] = "no" /\ Usable(p, i) /\ type[i] # "free"
  BY Facts, Plain
<1>2. \A k \in Inum : nlink'[k] = nlink[k] + (IF k = i THEN x ELSE 0) /\ nlink[k] \in Int
  BY <1>1 DEF DiskType
<1>3. DiskMoves(p)
  BY <1>1, <1>2 DEF DiskMoves
<1>4. \A k : Links(k)' = Links(k)
  BY DEF Links
<1>5. \A k : Subdirs(k)' = Subdirs(k)
  BY <1>4 DEF Subdirs
<1>6. ASSUME NEW k \in Inum PROVE nlink'[k] = Count(k)'
  <2> DEFINE c == One((p \in InFlight(k))') - One(p \in InFlight(k))
  <2>1. Cardinality(InFlight(k)') = Cardinality(InFlight(k)) + c
    BY InFlightFollows
  <2>2. c = (IF k = i THEN x ELSE 0) /\ c \in Int
    BY DEF One
  <2> HIDE DEF c
  <2>3. /\ Cardinality(Links(k)') = Cardinality(Links(k)) + 0
        /\ Cardinality(Subdirs(k)') = Cardinality(Subdirs(k)) + 0
    BY <1>4, <1>5, CountsFinite
  <2>4. nlink'[k] = nlink[k] + 0 + 0 + c
    BY <1>2, <2>2
  <2> QED
    BY <2>1, <2>2, <2>3, <2>4, CountFollows
<1>7. RootGood'
  BY DEF RootGood, Tree, DiskGood
<1>8. ASSUME NEW j \in Inum PROVE InodeGood(j)'
  <2>1. InodeGood(j)
    BY DEF Tree, DiskGood
  <2>2. ASSUME NEW q \in Proc, pc[q] = "fill", tgt[q] = j PROVE pc'[q] = "fill" /\ tgt'[q] = j
    BY <2>2 DEF Others
  <2>3. type[j] = "free" => nlink'[j] = 0
    BY <1>1, <1>2, <2>1 DEF InodeGood
  <2> QED
    BY <2>1, <2>2, <2>3 DEF InodeGood
<1>9. ASSUME NEW d \in Inum, NEW j \in Inum, NEW n \in Names PROVE NameGood(d, n, j)'
  <2>1. NameGood(d, n, j)
    BY DEF Tree, DiskGood
  <2> QED
    BY <2>1 DEF NameGood
<1>10. DiskGood' /\ Counts'
  BY <1>6, <1>7, <1>8, <1>9 DEF DiskGood, Counts
<1>11. \A j \in Inum : Has(p, j)' => Usable(p, j)
  BY Plain, UsableLinked
<1>12. free'[p] = "no"
  BY <1>1
<1> QED
  BY <1>3, <1>10, <1>11, <1>12, UsingStep

\* The end of unlink(), and of a link() that failed: the count of tgt goes down.
LEMMA UncountTree ==
    ASSUME Inv, Tree, Inv', NEW p \in Proc, put[p] = <<>>, pc[p] = "drop" \/ (pc[p] = "undo" /\ op[p] = "link"),
           nlink' = [nlink EXCEPT ![tgt[p]] = @ - 1], Return(p, <<tgt[p]>>),
           \A j \in Inum : busy'[j] <=> busy[j] /\ j \notin Locked(p),
           UNCHANGED <<type, entry, dotdot, lost, panic, free, cwd, fd>>
    PROVE  Tree'
<1> DEFINE i == tgt[p]
<1>1. /\ pc' = [pc EXCEPT ![p] = "user"] /\ put' = [put EXCEPT ![p] = <<i>>]
      /\ op' = [op EXCEPT ![p] = "none"] /\ rest' = [rest EXCEPT ![p] = <<>>]
      /\ cur' = [cur EXCEPT ![p] = 0] /\ tgt' = [tgt EXCEPT ![p] = 0]
  BY DEF Return, Then
<1>2. DiskType /\ CallType /\ 0 \notin Inum /\ i \in Inum /\ free[p] = "no" /\ type[cwd[p]] = "dir"
  BY Facts, Plain DEF Phase
<1>3. Others(p)
  BY <1>1, <1>2 DEF Others, CallType
<1>4. /\ pc'[p] = "user" /\ put'[p] = <<i>> /\ cur'[p] = 0 /\ tgt'[p] = 0 /\ op'[p] = "none" /\ free'[p] = "no"
  BY <1>1, <1>2 DEF CallType
<1>5. Has(p, i)
  BY DEF Has
<1>6. ASSUME NEW j \in Inum, Has(p, j)' PROVE Has(p, j)
  BY <1>2, <1>4, <1>6, InOf DEF Has
<1>7. LockMoves(p)
  <2>1. Locked(p)' = {}
    BY <1>4, NoLocksNext
  <2> QED
    BY <2>1 DEF LockMoves
<1>8. Sound(p)'
  <2>1. \A j \in Inum : Has(p, j)' => type'[j] # "free"
    BY <1>6, Plain
  <2> QED
    BY <1>2, <1>4, <2>1, SimplySound
<1>9. -1 \in Int /\ nlink' = [nlink EXCEPT ![i] = @ + (-1)]
  <2>1. nlink[i] \in Int /\ -1 \in Int
    BY <1>2 DEF DiskType
  <2>2. nlink[i] - 1 = nlink[i] + (-1)
    BY <2>1
  <2>3. nlink' = [nlink EXCEPT ![i] = nlink[i] + (-1)]
    BY <2>2, Zenon
  <2> QED
    BY <2>1, <2>3, Zenon
<1>10. \A k \in Inum : One((p \in InFlight(k))') - One(p \in InFlight(k)) = IF k = i THEN -1 ELSE 0
  <2>1. \A k \in Inum : ~(p \in InFlight(k))' /\ (p \in InFlight(k) <=> k = i)
    BY <1>4 DEF InFlight
  <2> QED
    BY <2>1 DEF One
<1>11. pc[p] # "fill" /\ pc'[p] # "fill"
  BY <1>4
<1> HIDE DEF i
<1> QED
  BY <1>2, <1>3, <1>5, <1>6, <1>7, <1>8, <1>9, <1>10, <1>11, CountTree

LEMMA UnlinkDropTree ==
    ASSUME Inv, Tree, Inv', NEW p \in Proc, UnlinkDrop(p)
    PROVE  Tree'
<1>1. /\ put[p] = <<>> /\ pc[p] = "drop" /\ busy' = [busy EXCEPT ![tgt[p]] = FALSE]
      /\ nlink' = [nlink EXCEPT ![tgt[p]] = @ - 1] /\ Return(p, <<tgt[p]>>)
      /\ UNCHANGED <<type, entry, dotdot, lost, panic, free, cwd, fd>>
  BY DEF UnlinkDrop, At, history
<1>2. CacheType /\ tgt[p] \in Inum /\ free[p] = "no"
  BY <1>1, Facts, Plain DEF Phase
<1>3. Locked(p) = {tgt[p]}
  BY <1>1, <1>2 DEF Locked
<1>4. \A j \in Inum : busy'[j] <=> busy[j] /\ j \notin Locked(p)
  BY <1>1, <1>2, <1>3 DEF CacheType
<1> QED
  BY <1>1, <1>4, UncountTree

LEMMA LinkUndoTree ==
    ASSUME Inv, Tree, Inv', NEW p \in Proc, LinkUndo(p)
    PROVE  Tree'
<1>1. /\ put[p] = <<>> /\ pc[p] = "undo" /\ busy' = busy
      /\ nlink' = [nlink EXCEPT ![tgt[p]] = @ - 1] /\ Return(p, <<tgt[p]>>)
      /\ UNCHANGED <<type, entry, dotdot, lost, panic, free, cwd, fd>>
  BY DEF LinkUndo, At, history
<1>2. op[p] = "link"
  <2>1. Sound(p)
    BY DEF Tree, AllSound
  <2> QED
    BY <1>1, <2>1 DEF Sound
<1>3. \A j \in Inum : busy'[j] <=> busy[j] /\ j \notin Locked(p)
  BY <1>1, BusyStays, Plain
<1> QED
  BY <1>1, <1>2, <1>3, UncountTree

LEMMA LinkCountTree ==
    ASSUME Inv, Tree, Inv', NEW p \in Proc, NEW c \in Calls, c.op = "link_old", LinkCount(p, c.new)
    PROVE  Tree'
<1> DEFINE i == cur[p]
           s == IF c.new.abs THEN Root ELSE cwd[p]
<1>1. /\ put[p] = <<>> /\ pc[p] = "walk" /\ op[p] = "link_old"
      /\ UNCHANGED <<type, entry, dotdot, lost, panic, busy, free, cwd, fd>>
  BY DEF LinkCount, Found, At, history
<1>2. /\ DiskType /\ CallType /\ 0 \notin Inum /\ i \in Inum /\ Root \in Inum
      /\ free[p] = "no" /\ type[cwd[p]] = "dir"
  BY <1>1, Facts, Plain
<1>3. Has(p, i)
  BY DEF Has
<1>4. CASE Return(p, <<i>>) /\ UNCHANGED <<nlink, ref>>
  BY <1>1, <1>4, EndTree DEF diskVars
<1>5. CASE type[i] # "dir" /\ nlink' = [nlink EXCEPT ![i] = Counted(@)] /\ tgt' = [tgt EXCEPT ![p] = i]
           /\ Start(p, "link", c.new) /\ UNCHANGED put
  <2>1. /\ op' = [op EXCEPT ![p] = "link"] /\ rest' = [rest EXCEPT ![p] = c.new.names]
        /\ cur' = [cur EXCEPT ![p] = s] /\ pc' = [pc EXCEPT ![p] = "walk"]
    BY <1>5 DEF Start
  <2>2. Has(p, s) \/ s = Root
    BY DEF Has
  <2> HIDE DEF s
  <2>3. Others(p) /\ op'[p] = "link" /\ pc'[p] = "walk" /\ cur'[p] = s /\ tgt'[p] = i /\ put'[p] = <<>>
    BY <1>1, <1>2, <1>5, <2>1 DEF CallType, Others
  <2>4. nlink[Root] # 0
    BY <1>2, CountCovers
  <2>5. ASSUME NEW j \in Inum, Has(p, j)' PROVE Has(p, j) \/ nlink[j] # 0
    <3>1. Has(p, j) \/ j = s
      BY <1>1, <1>3, <2>3, <2>5 DEF Has, In
    <3> QED
      BY <2>2, <2>4, <3>1
  <2>6. LockMoves(p)
    <3>1. Locked(p) = {} /\ Locked(p)' = {}
      BY <1>1, <1>2, <2>3, NoLocks, NoLocksNext
    <3> QED
      BY <1>1, <3>1 DEF LockMoves
  <2>7. Sound(p)'
    <3>1. type'[i] = "file"
      <4>1. type[i] # "free" /\ type[i] \in {"free", "file", "dir"}
        BY <1>1, <1>2, <1>3, Plain DEF DiskType
      <4> QED
        BY <1>1, <1>5, <4>1
    <3>2. \A j \in Inum : Has(p, j)' => type'[j] # "free"
      BY <1>1, <2>5, Plain, UsableLinked
    <3>3. type'[cwd'[p]] = "dir" /\ free'[p] = "no"
      BY <1>1, <1>2
    <3> QED
      BY <2>3, <3>1, <3>2, <3>3 DEF Sound
  <2>8. nlink' = [nlink EXCEPT ![i] = @ + 1] /\ 1 \in Int
    BY <1>5 DEF Counted
  <2>9. \A k \in Inum : One((p \in InFlight(k))') - One(p \in InFlight(k)) = IF k = i THEN 1 ELSE 0
    <3>1. \A k \in Inum : ((p \in InFlight(k))' <=> k = i) /\ ~(p \in InFlight(k))
      BY <1>1, <2>3 DEF InFlight
    <3> QED
      BY <3>1 DEF One
  <2>10. pc[p] # "fill" /\ pc'[p] # "fill"
    BY <1>1, <2>3
  <2> HIDE DEF i
  <2> QED
    BY <1>1, <1>2, <1>3, <2>3, <2>5, <2>6, <2>7, <2>8, <2>9, <2>10, CountTree
<1> QED
  BY <1>4, <1>5 DEF LinkCount

\* A name that is not in the directory is not "..".
LEMMA NewName ==
    ASSUME Inv, Tree, NEW p \in Proc, put[p] = <<>>, pc[p] = "parent", Lookup(cur[p], Head(rest[p])) = 0
    PROVE  /\ cur[p] \in Inum /\ type[cur[p]] = "dir" /\ Head(rest[p]) \in Names
           /\ entry[cur[p]][Head(rest[p])] = 0
<1> DEFINE d == cur[p]
           n == Head(rest[p])
<1>1. /\ d \in Inum /\ n \in Names \cup {".."} /\ Has(p, d) /\ Sound(p) /\ free[p] = "no"
  BY Facts, Plain DEF Phase, Has, Tree, AllSound
<1>2. type[d] = "dir"
  BY <1>1 DEF Sound
<1>3. n # ".."
  <2>1. SUFFICES ASSUME n = ".." PROVE FALSE
    OBVIOUS
  <2>2. dotdot[d] = 0
    BY <2>1 DEF Lookup
  <2>3. PICK q \in Proc : pc[q] = "fill" /\ tgt[q] = d
    BY <1>1, <1>2, <2>2 DEF Tree, DiskGood, InodeGood
  <2>4. Apart(q, p)
    BY <2>3 DEF Tree, AllApart
  <2> QED
    BY <1>1, <2>3, <2>4 DEF Apart
<1> QED
  BY <1>1, <1>2, <1>3 DEF Lookup

LEMMA LinkEnterTree ==
    ASSUME Inv, Tree, Inv', NEW p \in Proc, LinkEnter(p)
    PROVE  Tree'
<1> DEFINE d == cur[p]
           n == Head(rest[p])
           t == tgt[p]
<1>1. /\ put[p] = <<>> /\ pc[p] = "parent" /\ op[p] = "link" /\ ~busy[d]
      /\ UNCHANGED <<type, nlink, dotdot, lost, panic, busy, free, cwd, fd>>
  BY DEF LinkEnter, AtParent, At, Lock, history
<1>2. CASE Fail(p) /\ UNCHANGED entry
  BY <1>1, <1>2, UndoTree DEF diskVars
<1>3. CASE /\ Lookup(d, n) = 0 /\ entry' = [entry EXCEPT ![d][n] = t]
           /\ Return(p, <<d, t>>)
  <2>1. /\ pc' = [pc EXCEPT ![p] = "user"] /\ put' = [put EXCEPT ![p] = <<d, t>>]
        /\ op' = [op EXCEPT ![p] = "none"] /\ rest' = [rest EXCEPT ![p] = <<>>]
        /\ cur' = [cur EXCEPT ![p] = 0] /\ tgt' = [tgt EXCEPT ![p] = 0]
    BY <1>3 DEF Return, Then
  <2>2. /\ DiskType /\ CallType /\ 0 \notin Inum /\ t \in Inum /\ free[p] = "no" /\ type[cwd[p]] = "dir"
        /\ Sound(p)
    BY <1>1, Facts, Plain DEF Phase, Tree, AllSound
  <2>3. d \in Inum /\ type[d] = "dir" /\ n \in Names /\ entry[d][n] = 0
    BY <1>1, <1>3, NewName
  <2>4. type[t] = "file" /\ Has(p, d) /\ Has(p, t)
    BY <1>1, <2>2 DEF Sound, Has
  <2>5. Others(p)
    BY <1>1, <2>1, <2>2 DEF Others, CallType
  <2>6. /\ pc'[p] = "user" /\ put'[p] = <<d, t>> /\ cur'[p] = 0 /\ tgt'[p] = 0 /\ op'[p] = "none" /\ free'[p] = "no"
    BY <1>1, <2>1, <2>2 DEF CallType
  <2>7. ASSUME NEW j \in Inum, Has(p, j)' PROVE Has(p, j)
    BY <1>1, <2>2, <2>6, <2>7, InOf DEF Has
  <2>8. \A j \in Inum : Has(p, j)' => Usable(p, j) /\ type'[j] # "free"
    BY <1>1, <2>7, Plain
  <2>9. Usable(p, d)
    BY <1>1, <2>3, <2>4, Plain
  <2> HIDE DEF d, n, t
  <2>10. /\ \A m \in Names : <<d, n>> # <<d, m>> => entry'[d][m] = entry[d][m]
         /\ \A e \in Inum : e # d => entry'[e] = entry[e]
         /\ entry'[d][n] = t
    BY <1>3, <2>2, <2>3 DEF DiskType
  <2>11. DiskMoves(p)
    BY <1>1, <2>9, <2>10 DEF DiskMoves, d
  <2>12. LockMoves(p)
    <3>1. Locked(p)' = {} /\ Locked(p) = {}
      BY <1>1, <2>2, <2>6, NoLocks, NoLocksNext
    <3> QED
      BY <1>1, <3>1 DEF LockMoves
  <2>13. Sound(p)'
    <3>1. type'[cwd'[p]] = "dir"
      BY <1>1, <2>2
    <3> QED
      BY <2>6, <2>8, <3>1, SimplySound
  <2>14. ASSUME NEW k \in Inum
         PROVE  /\ Links(k)' = IF k = t THEN Links(k) \cup {<<d, n>>} ELSE Links(k) \ {<<d, n>>}
                /\ Cardinality(Links(k)') = Cardinality(Links(k)) + (One(k = t) - One(k = entry[d][n]))
    <3>1. type' = type /\ Entered(d, n, t)
      BY <1>1, <1>3 DEF Entered
    <3> QED
      BY <2>3, <3>1, EntryFollows
  <2>15. ASSUME NEW k \in Inum, k # t PROVE Links(k)' = Links(k)
    <3>1. <<d, n>> \notin Links(k)
      BY <2>2, <2>3 DEF Links
    <3> QED
      BY <2>14, <2>15, <3>1
  <2>16. \A k \in Inum : Subdirs(k)' = Subdirs(k)
    <3>1. \A j \in Inum : type[j] = "dir" => (Links(j)' # {} <=> Links(j) # {})
      BY <2>4, <2>15
    <3> QED
      BY <1>1, <3>1, SubdirsStay
  <2>17. ASSUME NEW k \in Inum PROVE nlink'[k] = Count(k)'
    <3> DEFINE c == One((p \in InFlight(k))') - One(p \in InFlight(k))
               a == One(k = t) - One(k = entry[d][n])
    <3>1. /\ Cardinality(InFlight(k)') = Cardinality(InFlight(k)) + c
          /\ Cardinality(Links(k)') = Cardinality(Links(k)) + a
          /\ Cardinality(Subdirs(k)') = Cardinality(Subdirs(k)) + 0
      BY <2>5, <2>14, <2>16, InFlightFollows, CountsFinite
    <3>2. ~(p \in InFlight(k))' /\ (p \in InFlight(k) <=> k = t)
      BY <1>1, <2>6 DEF InFlight, t
    <3>3. a \in Int /\ c \in Int /\ a + 0 + c = 0
      <4>1. k # entry[d][n]
        BY <2>2, <2>3
      <4> QED
        BY <3>2, <4>1 DEF One
    <3>4. nlink'[k] = nlink[k] /\ nlink[k] \in Int
      BY <1>1, <2>2 DEF DiskType
    <3> HIDE DEF a, c
    <3>5. nlink'[k] = nlink[k] + a + 0 + c
      BY <3>3, <3>4
    <3>6. lost' = lost /\ 0 \in Int
      BY <1>1
    <3> QED
      BY <3>1, <3>3, <3>5, <3>6, CountFollows
  <2>18. RootGood'
    BY <1>1 DEF RootGood, Tree, DiskGood
  <2>19. ASSUME NEW j \in Inum PROVE InodeGood(j)'
    <3>1. InodeGood(j)
      BY DEF Tree, DiskGood
    <3>2. ASSUME NEW q \in Proc, pc[q] = "fill", tgt[q] = j PROVE pc'[q] = "fill" /\ tgt'[q] = j
      BY <1>1, <2>5, <3>2 DEF Others
    <3>3. type[j] # "dir" => entry'[j] = entry[j]
      BY <2>3, <2>10
    <3> QED
      BY <1>1, <3>1, <3>2, <3>3 DEF InodeGood
  <2>20. ASSUME NEW e \in Inum, NEW j \in Inum, NEW m \in Names PROVE NameGood(e, m, j)'
    <3> SUFFICES ASSUME type[j] = "dir", type[e] = "dir", entry'[e][m] = j
                 PROVE  /\ j # Root /\ dotdot[j] = e
                        /\ \A k \in Names : (entry'[e][k] = j => k = m) /\ entry'[j][k] # e
      BY <1>1 DEF NameGood
    <3>1. j # t /\ e # t
      BY <2>4
    <3>2. \A k \in Names, f \in Inum : entry'[f][k] = entry[f][k] \/ entry'[f][k] = t
      BY <2>10
    <3>3. entry[e][m] = j
      BY <3>1, <3>2
    <3>4. NameGood(e, m, j)
      BY DEF Tree, DiskGood
    <3> QED
      BY <3>1, <3>2, <3>3, <3>4 DEF NameGood
  <2>21. DiskGood' /\ Counts'
    BY <2>17, <2>18, <2>19, <2>20 DEF DiskGood, Counts
  <2>22. pc'[p] # "fill"
    BY <2>6
  <2> QED
    BY <1>1, <2>5, <2>6, <2>8, <2>11, <2>12, <2>13, <2>21, <2>22, UsingStep
<1> QED
  BY <1>2, <1>3 DEF LinkEnter

\* unlink() removes the name under the directory's lock.
LEMMA UnlinkRemoveTree ==
    ASSUME Inv, Tree, Inv', NEW p \in Proc, UnlinkRemove(p)
    PROVE  Tree'
<1> DEFINE d == cur[p]
           n == Head(rest[p])
           i == tgt[p]
<1>1. /\ put[p] = <<>> /\ pc[p] = "remove" /\ ~busy[i]
      /\ UNCHANGED <<type, dotdot, lost, panic, free, cwd, fd>>
  BY DEF UnlinkRemove, At, Lock, history
<1>2. /\ DiskType /\ CacheType /\ CallType /\ 0 \notin Inum /\ i \in Inum /\ d \in Inum
      /\ free[p] = "no" /\ type[cwd[p]] = "dir" /\ Sound(p)
  BY <1>1, Facts, Plain DEF Phase, Tree, AllSound
<1>3. /\ type[d] = "dir" /\ n \in Names /\ entry[d][n] = i /\ op[p] # "link"
  BY <1>1, <1>2 DEF Sound, EntryHeld
<1>4. Has(p, d) /\ Has(p, i)
  BY DEF Has
<1>5. Locked(p) = {d}
  BY <1>1, <1>2 DEF Locked
<1>6. type[i] = "dir" => dotdot[i] = d /\ i # Root /\ i # d /\ Links(i) = {<<d, n>>}
  <2>1. ASSUME type[i] = "dir" PROVE dotdot[i] = d /\ i # Root /\ i # d /\ Links(i) = {<<d, n>>}
    <3>1. NameGood(d, n, i)
      BY <1>2, <1>3 DEF Tree, DiskGood
    <3>2. dotdot[i] = d /\ i # Root /\ \A m \in Names : (entry[d][m] = i => m = n) /\ entry[i][m] # d
      BY <1>3, <2>1, <3>1 DEF NameGood
    <3>3. i # d
      BY <1>3, <3>2
    <3>4. ASSUME NEW e \in Inum, NEW m \in Names, type[e] = "dir", entry[e][m] = i PROVE e = d /\ m = n
      <4>1. NameGood(e, m, i)
        BY <1>2 DEF Tree, DiskGood
      <4>2. e = d
        BY <2>1, <3>2, <3>4, <4>1 DEF NameGood
      <4> QED
        BY <3>2, <3>4, <4>2
    <3>5. \A e \in Inum, m \in Names : <<e, m>> \in Links(i) <=> e = d /\ m = n
      BY <1>2, <1>3, <3>4 DEF Links
    <3>6. Links(i) \subseteq Inum \X Names
      BY DEF Links
    <3> QED
      BY <1>2, <1>3, <3>2, <3>3, <3>5, <3>6
  <2> QED
    BY <2>1
<1>7. i # d
  BY <1>3, <1>6
<1>8. CASE Return(p, <<i, d>>) /\ busy' = [busy EXCEPT ![d] = FALSE] /\ UNCHANGED <<nlink, entry>>
  <2>1. \A j \in Inum : busy'[j] <=> busy[j] /\ j \notin Locked(p)
    BY <1>2, <1>5, <1>8 DEF CacheType
  <2>2. \A j \in Inum : cwd'[p] = j \/ fd'[p] = j \/ In(<<i, d>>, j) => Has(p, j)
    BY <1>1, <1>4, InOf DEF Has
  <2>3. type[cwd'[p]] = "dir" /\ \A q \in Proc : q # p => cwd'[q] = cwd[q] /\ fd'[q] = fd[q]
    BY <1>1, <1>2
  <2>4. UNCHANGED <<diskVars, lost, panic, free>> /\ pc[p] \notin {"fill", "drop"}
    BY <1>1, <1>8 DEF diskVars
  <2> QED
    BY <1>1, <1>3, <1>8, <2>1, <2>2, <2>3, <2>4, ReturnTree
<1>9. CASE /\ entry' = [entry EXCEPT ![d][n] = 0]
           /\ nlink' = [nlink EXCEPT ![d] = IF type[i] = "dir" THEN @ - 1 ELSE @]
           /\ busy' = [busy EXCEPT ![d] = FALSE, ![i] = TRUE]
           /\ Then(p, "drop", <<d>>) /\ cur' = [cur EXCEPT ![p] = 0] /\ UNCHANGED <<op, rest, tgt>>
  <2>1. Others(p)
    BY <1>1, <1>2, <1>9 DEF Others, CallType, Then
  <2>2. /\ pc'[p] = "drop" /\ put'[p] = <<d>> /\ cur'[p] = 0 /\ tgt'[p] = i /\ op'[p] = op[p] /\ free'[p] = "no"
    BY <1>1, <1>2, <1>9 DEF CallType, Then
  <2>3. ASSUME NEW j \in Inum, Has(p, j)' PROVE Has(p, j)
    BY <1>1, <1>2, <1>4, <2>2, <2>3, InOf DEF Has
  <2>4. \A j \in Inum : Has(p, j)' => Usable(p, j) /\ type'[j] # "free"
    BY <1>1, <2>3, Plain
  <2>5. Usable(p, d) /\ d \in Locked(p)
    BY <1>1, <1>2, <1>4, <1>5, Plain
  <2>6. Entered(d, n, 0)
    BY <1>9 DEF Entered
  <2>7. Locked(p)' = {i}
    BY <1>1, <1>2, <2>2 DEF Locked
  <2>8. \A j \in Inum : busy'[j] <=> (busy[j] \/ j = i) /\ j # d
    BY <1>2, <1>7, <1>9 DEF CacheType
  <2> HIDE DEF d, n, i
  <2>9. LockMoves(p)
    <3>1. ASSUME NEW j \in Inum PROVE busy'[j] <=> j = i \/ (busy[j] /\ j # d)
      BY <1>7, <2>8
    <3> QED
      BY <1>1, <1>5, <2>7, <3>1 DEF LockMoves
  <2>10. /\ \A m \in Names : <<d, n>> # <<d, m>> => entry'[d][m] = entry[d][m]
         /\ \A e \in Inum : e # d => entry'[e] = entry[e]
         /\ entry'[d][n] = 0
         /\ \A k \in Inum : nlink'[k] = nlink[k] + (IF k = d /\ type[i] = "dir" THEN -1 ELSE 0) /\ nlink[k] \in Int
    BY <1>2, <1>3, <1>9 DEF DiskType
  <2>11. DiskMoves(p)
    BY <1>1, <2>5, <2>10 DEF DiskMoves
  <2>12. Sound(p)'
    <3>1. type'[cwd'[p]] = "dir"
      BY <1>1, <1>2
    <3> QED
      BY <1>3, <2>2, <2>4, <3>1, SimplySound
  <2>13. ASSUME NEW k \in Inum
         PROVE  /\ Links(k)' = Links(k) \ {<<d, n>>}
                /\ Cardinality(Links(k)') = Cardinality(Links(k)) + (One(k = 0) - One(k = entry[d][n]))
    <3>1. /\ Links(k)' = IF k = 0 THEN Links(k) \cup {<<d, n>>} ELSE Links(k) \ {<<d, n>>}
          /\ Cardinality(Links(k)') = Cardinality(Links(k)) + (One(k = 0) - One(k = entry[d][n]))
      BY <1>1, <1>2, <1>3, <2>6, EntryFollows
    <3>2. k # 0
      BY <1>2
    <3> QED
      BY <3>1, <3>2
  <2>14. ASSUME NEW k \in Inum, k # i PROVE Links(k)' = Links(k)
    <3>1. <<d, n>> \notin Links(k)
      BY <1>3, <2>14 DEF Links
    <3> QED
      BY <2>13, <3>1
  <2>15. ASSUME NEW k \in Inum PROVE /\ Cardinality(Subdirs(k)') = Cardinality(Subdirs(k)) + (IF k = d /\ type[i] = "dir" THEN -1 ELSE 0)
    <3>1. \A j \in Inum : j # i => (j \in Subdirs(k)' <=> j \in Subdirs(k))
      BY <1>1, <2>14 DEF Subdirs
    <3>2. Subdirs(k) \subseteq Inum /\ Subdirs(k)' \subseteq Inum
      BY DEF Subdirs
    <3>3. IsFiniteSet(Subdirs(k)) /\ Cardinality(Subdirs(k)) \in Nat
      BY CountsFinite
    <3>4. CASE k = d /\ type[i] = "dir"
      <4>1. \A j \in Inum : j = i => Links(j)' = {}
        BY <1>6, <2>13, <3>4
      <4>2. \A j \in Inum : j = i => j \notin Subdirs(k)'
        BY <4>1 DEF Subdirs
      <4>3. i \in Subdirs(k)
        BY <1>2, <1>6, <3>4 DEF Subdirs
      <4>4. Subdirs(k)' = Subdirs(k) \ {i}
        BY <3>1, <3>2, <4>2, <4>3
      <4>5. Cardinality(Subdirs(k) \ {i}) = Cardinality(Subdirs(k)) - 1
        BY <3>3, <4>3, OneOut
      <4> QED
        BY <3>3, <3>4, <4>4, <4>5
    <3>5. CASE ~(k = d /\ type[i] = "dir")
      <4>1. i \notin Subdirs(k) /\ \A j \in Inum : j = i => j \notin Subdirs(k)'
        BY <1>1, <1>6, <3>5 DEF Subdirs
      <4>2. Subdirs(k)' = Subdirs(k)
        BY <1>2, <3>1, <3>2, <4>1
      <4> QED
        BY <3>3, <3>5, <4>2
    <3> QED
      BY <3>4, <3>5
  <2>16. ASSUME NEW k \in Inum PROVE nlink'[k] = Count(k)'
    <3> DEFINE c == One((p \in InFlight(k))') - One(p \in InFlight(k))
               a == One(k = 0) - One(k = entry[d][n])
               b == IF k = d /\ type[i] = "dir" THEN -1 ELSE 0
    <3>1. /\ Cardinality(InFlight(k)') = Cardinality(InFlight(k)) + c
          /\ Cardinality(Links(k)') = Cardinality(Links(k)) + a
          /\ Cardinality(Subdirs(k)') = Cardinality(Subdirs(k)) + b
      BY <2>1, <2>13, <2>15, InFlightFollows
    <3>2. ((p \in InFlight(k))' <=> k = i) /\ ~(p \in InFlight(k))
      BY <1>1, <1>3, <2>2 DEF InFlight, i
    <3>3. a \in Int /\ b \in Int /\ c \in Int /\ a + b + c = b
      <4>1. k # 0 /\ (k = entry[d][n] <=> k = i)
        BY <1>2, <1>3
      <4>2. a = 0 - One(k = i) /\ c = One(k = i) - 0
        BY <3>2, <4>1 DEF One
      <4>3. One(k = i) \in Int /\ b \in Int
        BY DEF One
      <4> HIDE DEF a, b, c
      <4> QED
        BY <4>2, <4>3
    <3>4. nlink'[k] = nlink[k] + b /\ nlink[k] \in Int
      BY <2>10
    <3>5. lost' = lost
      BY <1>1
    <3> HIDE DEF a, b, c
    <3>6. nlink'[k] = nlink[k] + a + b + c
      BY <3>3, <3>4
    <3> QED
      BY <3>1, <3>3, <3>5, <3>6, CountFollows
  <2>17. RootGood'
    BY <1>1 DEF RootGood, Tree, DiskGood
  <2>18. ASSUME NEW j \in Inum PROVE InodeGood(j)'
    <3>1. InodeGood(j)
      BY DEF Tree, DiskGood
    <3>2. ASSUME NEW q \in Proc, pc[q] = "fill", tgt[q] = j PROVE pc'[q] = "fill" /\ tgt'[q] = j
      BY <1>1, <2>1, <3>2 DEF Others
    <3>3. type[j] # "dir" => entry'[j] = entry[j] /\ nlink'[j] = nlink[j]
      BY <1>3, <2>10
    <3> QED
      BY <1>1, <3>1, <3>2, <3>3 DEF InodeGood
  <2>19. ASSUME NEW e \in Inum, NEW j \in Inum, NEW m \in Names PROVE NameGood(e, m, j)'
    <3> SUFFICES ASSUME type[j] = "dir", type[e] = "dir", entry'[e][m] = j
                 PROVE  /\ j # Root /\ dotdot[j] = e
                        /\ \A k \in Names : (entry'[e][k] = j => k = m) /\ entry'[j][k] # e
      BY <1>1 DEF NameGood
    <3>1. j # 0 /\ e # 0
      BY <1>2
    <3>2. \A k \in Names, f \in Inum : entry'[f][k] = entry[f][k] \/ entry'[f][k] = 0
      BY <2>10
    <3>3. entry[e][m] = j
      BY <3>1, <3>2
    <3>4. NameGood(e, m, j)
      BY DEF Tree, DiskGood
    <3> QED
      BY <3>1, <3>2, <3>3, <3>4 DEF NameGood
  <2>20. DiskGood' /\ Counts'
    BY <2>16, <2>17, <2>18, <2>19 DEF DiskGood, Counts
  <2>21. pc'[p] # "fill"
    BY <2>2
  <2> QED
    BY <1>1, <2>1, <2>2, <2>4, <2>9, <2>11, <2>12, <2>20, <2>21, UsingStep
<1> QED
  BY <1>8, <1>9 DEF UnlinkRemove

\* create() gives the new inode its name.
LEMMA CreateLinkTree ==
    ASSUME Inv, Tree, Inv', NEW p \in Proc, CreateLink(p)
    PROVE  Tree'
<1> DEFINE d == cur[p]
           n == Head(rest[p])
           i == tgt[p]
           dir == op[p] = "mkdir"
<1>1. /\ put[p] = <<>> /\ pc[p] = "fill" /\ ~busy[i]
      /\ nlink' = [nlink EXCEPT ![i] = 1, ![d] = IF dir THEN @ + 1 ELSE @]
      /\ dotdot' = [dotdot EXCEPT ![i] = IF dir THEN d ELSE 0]
      /\ entry' = [entry EXCEPT ![d][n] = i] /\ busy' = [busy EXCEPT ![i] = TRUE, ![d] = FALSE]
      /\ Then(p, "made", <<d>>) /\ cur' = [cur EXCEPT ![p] = 0]
      /\ UNCHANGED <<type, op, rest, tgt, free, cwd, fd, panic, lost>>
  BY DEF CreateLink, At, Lock, history
<1>2. /\ DiskType /\ CacheType /\ CallType /\ 0 \notin Inum /\ i \in Inum /\ d \in Inum
      /\ free[p] = "no" /\ type[cwd[p]] = "dir" /\ Sound(p) /\ op[p] \in {"create", "mkdir"}
  BY <1>1, Facts, Plain DEF Phase, Tree, AllSound
<1>3. type[d] = "dir" /\ n \in Names /\ entry[d][n] = 0
  BY <1>1, <1>2 DEF Sound, EntryHeld
<1>4. /\ type[i] = (IF dir THEN "dir" ELSE "file") /\ nlink[i] = 0 /\ entry[i] = NoEntries /\ dotdot[i] = 0
      /\ i # d
  BY <1>1, <1>2 DEF Sound, NewInode
<1>5. Has(p, d) /\ Has(p, i) /\ Locked(p) = {d}
  BY <1>1, <1>2 DEF Has, Locked
<1>6. Links(i) = {} /\ Subdirs(i) = {} /\ InFlight(i) = {} /\ i # Root
  BY <1>2, <1>4, CountCovers
<1>7. Usable(p, i)
  <2>1. ASSUME NEW q \in Proc, q # p PROVE (free[q] # "no" => Freed(q) # i) /\ (pc[q] = "fill" => tgt[q] # i)
    <3>1. Apart(p, q) /\ i \notin Locked(q)
      BY <1>1, <1>2, <2>1 DEF Tree, AllApart, LocksHeld
    <3>2. free[q] # "no" => Freed(q) # i
      BY <3>1, FreedHas
    <3>3. pc[q] = "fill" => ~(tgt[q] = i)
      <4>1. pc[q] = "fill" /\ tgt[q] = i => Has(q, i)
        BY DEF Has
      <4>2. Has(q, i) => free[q] = "done" /\ Freed(q) = i
        BY <1>1, <3>1 DEF Apart
      <4> QED
        BY <3>2, <4>1, <4>2
    <3> QED
      BY <3>2, <3>3
  <2> QED
    BY <2>1 DEF Usable
<1>8. Usable(p, d) /\ d \in Locked(p)
  BY <1>2, <1>4, <1>5, UsableHas
<1>9. Others(p)
  BY <1>1, <1>2 DEF Others, CallType, Then
<1>10. /\ pc'[p] = "made" /\ put'[p] = <<d>> /\ cur'[p] = 0 /\ tgt'[p] = i /\ op'[p] = op[p] /\ free'[p] = "no"
  BY <1>1, <1>2 DEF CallType, Then
<1>11. ASSUME NEW j \in Inum, Has(p, j)' PROVE Has(p, j)
  BY <1>1, <1>2, <1>5, <1>10, <1>11, InOf DEF Has
<1>12. \A j \in Inum : Has(p, j)' => Usable(p, j)
  BY <1>2, <1>7, <1>11, UsableHas
<1>13. ASSUME NEW j \in Inum, Has(p, j)' PROVE type'[j] # "free"
  <2>1. free[p] # "done"
    BY <1>2
  <2> QED
    BY <1>1, <1>2, <1>11, <1>13, <2>1 DEF Sound
<1>14. Entered(d, n, i)
  BY <1>1 DEF Entered
<1>15. Locked(p)' = {i}
  BY <1>1, <1>2, <1>10 DEF Locked
<1>16. \A j \in Inum : busy'[j] <=> (busy[j] \/ j = i) /\ j # d
  BY <1>1, <1>2, <1>4 DEF CacheType
<1>17. /\ \A m \in Names : <<d, n>> # <<d, m>> => entry'[d][m] = entry[d][m]
       /\ \A e \in Inum : e # d => entry'[e] = entry[e]
       /\ entry'[d][n] = i
       /\ \A k \in Inum : k # i => dotdot'[k] = dotdot[k]
       /\ dotdot'[i] = IF dir THEN d ELSE 0
  BY <1>1, <1>2, <1>3 DEF DiskType
<1>18. /\ \A k \in Inum : k # i /\ k # d => nlink'[k] = nlink[k]
       /\ nlink'[i] = 1 /\ nlink'[d] = nlink[d] + (IF dir THEN 1 ELSE 0)
       /\ \A k \in Inum : nlink[k] \in Int
  BY <1>1, <1>2, <1>4 DEF DiskType
<1> HIDE DEF d, n, i, dir
<1>19. LockMoves(p)
  <2>1. ASSUME NEW j \in Inum PROVE busy'[j] <=> j = i \/ (busy[j] /\ j # d)
    BY <1>4, <1>16
  <2> QED
    BY <1>1, <1>5, <1>15, <2>1 DEF LockMoves
<1>20. DiskMoves(p)
  <2>1. ASSUME NEW k \in Inum, k # i, k # d
        PROVE  nlink'[k] = nlink[k] /\ entry'[k] = entry[k] /\ dotdot'[k] = dotdot[k]
    BY <1>17, <1>18, <2>1
  <2>2. entry'[i] = entry[i]
    BY <1>2, <1>4, <1>17
  <2> QED
    BY <1>1, <1>7, <1>8, <2>1, <2>2 DEF DiskMoves
<1>21. Sound(p)'
  <2>1. type'[cwd'[p]] = "dir" /\ op'[p] # "link"
    BY <1>1, <1>2, <1>10
  <2> QED
    BY <1>10, <1>13, <2>1, SimplySound
<1>22. ASSUME NEW k \in Inum
       PROVE  /\ Links(k)' = IF k = i THEN Links(k) \cup {<<d, n>>} ELSE Links(k) \ {<<d, n>>}
              /\ Cardinality(Links(k)') = Cardinality(Links(k)) + (One(k = i) - One(k = entry[d][n]))
  BY <1>1, <1>2, <1>3, <1>14, EntryFollows
<1>23. ASSUME NEW k \in Inum, k # i PROVE Links(k)' = Links(k)
  <2>1. <<d, n>> \notin Links(k)
    BY <1>2, <1>3 DEF Links
  <2> QED
    BY <1>22, <1>23, <2>1
<1>24. ASSUME NEW k \in Inum
       PROVE  Cardinality(Subdirs(k)') = Cardinality(Subdirs(k)) + (IF k = d /\ dir THEN 1 ELSE 0)
  <2>1. \A j \in Inum : j # i => (j \in Subdirs(k)' <=> j \in Subdirs(k))
    BY <1>1, <1>17, <1>23 DEF Subdirs
  <2>2. Subdirs(k) \subseteq Inum /\ Subdirs(k)' \subseteq Inum
    BY DEF Subdirs
  <2>3. IsFiniteSet(Subdirs(k)) /\ Cardinality(Subdirs(k)) \in Nat
    BY CountsFinite
  <2>4. i \notin Subdirs(k)
    BY <1>6 DEF Subdirs
  <2>5. \A j \in Inum : j = i => (j \in Subdirs(k)' <=> k = d /\ dir)
    <3>1. \A j \in Inum : j = i => Links(j)' # {}
      BY <1>22
    <3>2. type'[i] = "dir" <=> dir
      BY <1>1, <1>4
    <3>3. dir => (dotdot'[i] = k <=> k = d)
      BY <1>17
    <3> QED
      BY <1>6, <3>1, <3>2, <3>3 DEF Subdirs
  <2>6. CASE k = d /\ dir
    <3>1. Subdirs(k)' = Subdirs(k) \cup {i}
      BY <1>2, <2>1, <2>2, <2>5, <2>6
    <3>2. Cardinality(Subdirs(k) \cup {i}) = Cardinality(Subdirs(k)) + 1
      BY <2>3, <2>4, OneIn
    <3> QED
      BY <2>6, <3>1, <3>2
  <2>7. CASE ~(k = d /\ dir)
    <3>1. Subdirs(k)' = Subdirs(k)
      BY <1>2, <2>1, <2>2, <2>4, <2>5, <2>7
    <3> QED
      BY <2>3, <2>7, <3>1
  <2> QED
    BY <2>6, <2>7
<1>25. ASSUME NEW k \in Inum PROVE nlink'[k] = Count(k)'
  <2> DEFINE a == One(k = i) - One(k = entry[d][n])
             b == IF k = d /\ dir THEN 1 ELSE 0
             c == One((p \in InFlight(k))') - One(p \in InFlight(k))
  <2>1. /\ Cardinality(InFlight(k)') = Cardinality(InFlight(k)) + c
        /\ Cardinality(Links(k)') = Cardinality(Links(k)) + a
        /\ Cardinality(Subdirs(k)') = Cardinality(Subdirs(k)) + b
    BY <1>9, <1>22, <1>24, InFlightFollows
  <2>2. ~(p \in InFlight(k))' /\ ~(p \in InFlight(k))
    BY <1>1, <1>2, <1>10 DEF InFlight
  <2>3. a = (IF k = i THEN 1 ELSE 0) /\ c = 0
    BY <1>2, <1>3, <2>2 DEF One
  <2>4. b \in Int /\ b = IF k = d /\ dir THEN 1 ELSE 0
    OBVIOUS
  <2>5. lost' = lost
    BY <1>1
  <2> HIDE DEF a, b, c
  <2>6. nlink'[k] = nlink[k] + a + b + c /\ a \in Int /\ c \in Int
    BY <1>4, <1>18, <2>3, <2>4
  <2> QED
    BY <2>1, <2>4, <2>5, <2>6, CountFollows
<1>26. RootGood'
  BY <1>1, <1>6, <1>17, Facts DEF RootGood, Tree, DiskGood
<1>27. ASSUME NEW j \in Inum PROVE InodeGood(j)'
  <2>1. InodeGood(j)
    BY DEF Tree, DiskGood
  <2>2. CASE j = i
    <3>1. entry'[j] = NoEntries /\ type'[j] # "free"
      BY <1>1, <1>2, <1>4, <1>17, <2>2
    <3>2. type'[j] = "dir" => dotdot'[j] # 0
      BY <1>1, <1>2, <1>4, <1>17, <2>2
    <3>3. type'[j] # "dir" => dotdot'[j] = 0
      BY <1>1, <1>4, <1>17, <2>2
    <3> QED
      BY <1>1, <2>1, <3>1, <3>2, <3>3 DEF InodeGood
  <2>3. CASE j # i
    <3>1. ASSUME NEW q \in Proc, pc[q] = "fill", tgt[q] = j PROVE pc'[q] = "fill" /\ tgt'[q] = j
      BY <1>9, <2>3, <3>1 DEF Others, i
    <3>2. type[j] # "dir" => entry'[j] = entry[j] /\ nlink'[j] = nlink[j]
      BY <1>3, <1>17, <1>18, <2>3
    <3>3. dotdot'[j] = dotdot[j]
      BY <1>17, <2>3
    <3> QED
      BY <1>1, <2>1, <3>1, <3>2, <3>3 DEF InodeGood
  <2> QED
    BY <2>2, <2>3
<1>28. ASSUME NEW e \in Inum, NEW j \in Inum, NEW m \in Names PROVE NameGood(e, m, j)'
  <2> SUFFICES ASSUME type[j] = "dir", type[e] = "dir", entry'[e][m] = j
               PROVE  /\ j # Root /\ dotdot'[j] = e
                      /\ \A k \in Names : (entry'[e][k] = j => k = m) /\ entry'[j][k] # e
    BY <1>1 DEF NameGood
  <2>1. \A f \in Inum, k \in Names : <<f, k>> # <<d, n>> => entry'[f][k] = entry[f][k]
    BY <1>17
  <2>2. \A f \in Inum, k \in Names : type[f] = "dir" => entry[f][k] # i
    <3> SUFFICES ASSUME NEW f \in Inum, NEW k \in Names, type[f] = "dir", entry[f][k] = i PROVE FALSE
      OBVIOUS
    <3>1. <<f, k>> \in Links(i)
      BY DEF Links
    <3> QED
      BY <1>6, <3>1
  <2>3. \A k \in Names : entry[i][k] = 0
    BY <1>4 DEF NoEntries
  <2>4. CASE j = i
    <3>1. e = d /\ m = n
      BY <2>1, <2>2, <2>4
    <3>2. dir
      BY <1>4, <2>4
    <3>3. dotdot'[j] = e
      BY <1>17, <2>4, <3>1, <3>2
    <3>4. \A k \in Names : entry'[e][k] = j => k = m
      BY <2>1, <2>2, <2>4, <3>1
    <3>5. \A k \in Names : entry'[j][k] # e
      BY <1>2, <1>4, <1>17, <2>3, <2>4
    <3> QED
      BY <1>6, <2>4, <3>3, <3>4, <3>5
  <2>5. CASE j # i
    <3>1. entry[e][m] = j /\ <<e, m>> # <<d, n>>
      BY <1>17, <2>1, <2>5
    <3>2. j # Root /\ dotdot[j] = e /\ \A k \in Names : (entry[e][k] = j => k = m) /\ entry[j][k] # e
      <4>1. NameGood(e, m, j)
        BY DEF Tree, DiskGood
      <4> QED
        BY <3>1, <4>1 DEF NameGood
    <3>3. e # i
      BY <1>2, <2>3, <3>1
    <3>4. \A k \in Names : entry'[e][k] = j => k = m
      BY <1>17, <2>1, <2>5, <3>2
    <3>5. \A k \in Names : entry'[j][k] # e
      BY <1>17, <2>1, <3>2, <3>3
    <3> QED
      BY <1>17, <2>5, <3>2, <3>4, <3>5
  <2> QED
    BY <2>4, <2>5
<1>29. DiskGood' /\ Counts'
  BY <1>25, <1>26, <1>27, <1>28 DEF DiskGood, Counts
<1>30. pc'[p] # "fill" /\ panic' = panic
  BY <1>1, <1>10
<1> QED
  BY <1>9, <1>10, <1>12, <1>19, <1>20, <1>21, <1>29, <1>30, UsingStep

\* ialloc() takes a free inode, which iput() of another process may not have
\* unlocked yet.
LEMMA CreateAllocTree ==
    ASSUME Inv, Tree, Inv', NEW p \in Proc, CreateAlloc(p)
    PROVE  Tree'
<1> DEFINE d == cur[p]
           n == Head(rest[p])
           i == Min(FreeInodes)
           t == IF op[p] = "mkdir" THEN "dir" ELSE "file"
<1>1. /\ put[p] = <<>> /\ pc[p] = "parent" /\ op[p] \in {"create", "mkdir"} /\ ~busy[d] /\ Lookup(d, n) = 0
      /\ i \in Inum /\ type[i] = "free"
      /\ type' = [type EXCEPT ![i] = t] /\ nlink' = [nlink EXCEPT ![i] = 0]
      /\ tgt' = [tgt EXCEPT ![p] = i] /\ busy' = [busy EXCEPT ![d] = TRUE] /\ pc' = [pc EXCEPT ![p] = "fill"]
      /\ UNCHANGED <<entry, dotdot, op, rest, cur, put, free, cwd, fd, panic, lost>>
  <2>1. FreeInodes # {}
    BY DEF CreateAlloc
  <2>2. i \in FreeInodes
    BY <2>1, MinFree
  <2>3. i \in Inum /\ type[i] = "free"
    BY <2>2 DEF FreeInodes
  <2> QED
    BY <2>3 DEF CreateAlloc, AtParent, At, Lock, history
<1> HIDE DEF i
<1>2. /\ DiskType /\ CacheType /\ CallType /\ 0 \notin Inum /\ tgt[p] = 0 /\ Root \in Inum
      /\ free[p] = "no" /\ type[cwd[p]] = "dir" /\ cwd[p] \in Inum /\ Sound(p)
  BY <1>1, Facts, Plain DEF Phase, Tree, AllSound
<1>3. d \in Inum /\ type[d] = "dir" /\ n \in Names /\ entry[d][n] = 0
  BY <1>1, NewName
<1>4. nlink[i] = 0 /\ entry[i] = NoEntries /\ dotdot[i] = 0
  <2>1. InodeGood(i)
    BY <1>1 DEF Tree, DiskGood
  <2> QED
    BY <1>1, <2>1 DEF InodeGood
<1>5. Links(i) = {} /\ i # Root /\ lost[i] = 0
  BY <1>1, <1>4, CountCovers
<1>6. \A q \in Proc : Has(q, i) => free[q] = "done" /\ Freed(q) = i
  <2>1. ASSUME NEW q \in Proc, Has(q, i) PROVE free[q] = "done" /\ Freed(q) = i
    <3>1. Sound(q)
      BY DEF Tree, AllSound
    <3> QED
      BY <1>1, <2>1, <3>1 DEF Sound
  <2> QED
    BY <2>1
<1>7. ~Has(p, i)
  BY <1>2, <1>6
<1>8. Others(p) /\ pc'[p] = "fill" /\ tgt'[p] = i /\ free'[p] = "no" /\ put'[p] = <<>> /\ cur'[p] = d
  BY <1>1, <1>2 DEF CallType, Others
<1>9. ASSUME NEW j \in Inum PROVE Has(p, j)' <=> Has(p, j) \/ j = i
  BY <1>1, <1>2, <1>8 DEF Has, In
<1>10. i # d /\ i # cwd[p]
  BY <1>7 DEF Has
<1>11. /\ \A j \in Inum : j # i => type'[j] = type[j]
       /\ type'[i] = t /\ \A j \in Inum : nlink'[j] = nlink[j]
  BY <1>1, <1>2, <1>4 DEF DiskType
<1>12. LockMoves(p)
  <2>1. Locked(p) = {}
    BY <1>1, <1>2, NoLocks
  <2>2. Locked(p)' = {d}
    BY <1>1, <1>2, <1>3, <1>8 DEF Locked
  <2>3. \A j \in Inum : busy'[j] <=> busy[j] \/ j = d
    BY <1>1, <1>2, <1>3 DEF CacheType
  <2> QED
    BY <1>1, <2>1, <2>2, <2>3 DEF LockMoves
<1> HIDE DEF d, n, t
<1>13. DiskMoves(p)
  BY <1>1, <1>11 DEF DiskMoves
<1>14. ASSUME NEW q \in Proc, q # p PROVE Apart(p, q)' /\ Apart(q, p)'
  <2>1. /\ \A j : Has(q, j)' <=> Has(q, j)
        /\ Freed(q)' = Freed(q) /\ Locked(q)' = Locked(q) /\ free'[q] = free[q] /\ pc'[q] = pc[q] /\ tgt'[q] = tgt[q]
    BY <1>8, <1>14, OthersStay
  <2>2. Locked(p)' \cap Locked(q)' = {} /\ Apart(q, p) /\ Sound(q)
    BY <1>8, <1>12, <1>14, LocksStay DEF Tree, AllApart, AllSound
  <2>3. Apart(p, q)'
    <3>1. ASSUME Has(q, tgt[p])' PROVE free'[q] = "done" /\ Freed(q)' = tgt'[p]
      <4>1. Has(q, i)
        <5>1. \A j : j = tgt'[p] => Has(q, j)'
          BY <3>1
        <5> QED
          BY <1>8, <2>1, <5>1
      <4> QED
        BY <1>6, <1>8, <2>1, <4>1
    <3> QED
      BY <1>8, <2>2, <3>1 DEF Apart
  <2>4. ASSUME free[q] = "disk" PROVE ~Has(p, Freed(q))'
    <3>1. Freed(q) \in Inum /\ type[Freed(q)] # "free" /\ ~Has(p, Freed(q))
      BY <1>14, <2>2, <2>4, FreedBare DEF Apart
    <3>2. \A j \in Inum : j = Freed(q) => ~Has(p, j)'
      BY <1>1, <1>9, <3>1
    <3> QED
      BY <2>1, <3>1, <3>2
  <2>5. ASSUME free[q] = "done", Has(p, Freed(q))' PROVE pc'[p] = "fill" /\ tgt'[p] = Freed(q)'
    <3>1. Freed(q) \in Inum
      BY <2>5, FreedHas
    <3>2. ~Has(p, Freed(q))
      BY <1>1, <2>2, <2>5 DEF Apart
    <3>3. \A j \in Inum : j = Freed(q) => j = i
      BY <1>9, <2>1, <2>5, <3>2
    <3> QED
      BY <1>8, <2>1, <3>1, <3>3
  <2>6. ASSUME pc[q] = "fill" PROVE ~Has(p, tgt[q])'
    <3>1. tgt[q] \in Inum /\ type[tgt[q]] # "free"
      BY <2>2, <2>6, FillHas DEF Sound, NewInode
    <3>2. ~Has(p, tgt[q])
      BY <1>2, <2>2, <2>6 DEF Apart
    <3>3. \A j \in Inum : j = tgt[q] => ~Has(p, j)'
      BY <1>1, <1>9, <3>1, <3>2
    <3> QED
      BY <2>1, <3>1, <3>3
  <2>7. Apart(q, p)'
    <3>1. Locked(q)' \cap Locked(p)' = {}
      BY <2>2
    <3> QED
      BY <2>1, <2>4, <2>5, <2>6, <3>1 DEF Apart
  <2> QED
    BY <2>3, <2>7
<1>15. Sound(p)'
  <2>1. ASSUME NEW j \in Inum, Has(p, j)' PROVE type'[j] # "free"
    <3>1. CASE j = i
      BY <1>11, <3>1 DEF t
    <3>2. CASE j # i
      <4>1. type[j] # "free"
        BY <1>2, <1>9, <2>1, <3>2 DEF Sound
      <4> QED
        BY <1>11, <3>2, <4>1
    <3> QED
      BY <3>1, <3>2
  <2>2. EntryHeld(p)'
    <3>1. type'[d] = "dir" /\ n \in Names /\ entry'[d][n] = 0
      BY <1>1, <1>3, <1>10, <1>11
    <3>2. Head(rest'[p]) = n
      BY <1>1 DEF n
    <3> QED
      BY <1>8, <3>1, <3>2 DEF EntryHeld
  <2>3. NewInode(p)'
    <3>1. type'[i] = IF op'[p] = "mkdir" THEN "dir" ELSE "file"
      BY <1>1, <1>11 DEF t
    <3>2. nlink'[i] = 0 /\ entry'[i] = NoEntries /\ dotdot'[i] = 0
      BY <1>1, <1>4, <1>11
    <3> QED
      BY <1>8, <1>10, <3>1, <3>2 DEF NewInode
  <2>4. type'[cwd'[p]] = "dir" /\ op'[p] # "link"
    BY <1>1, <1>2, <1>10, <1>11
  <2> QED
    BY <1>8, <2>1, <2>2, <2>3, <2>4 DEF Sound
<1>16. ASSUME NEW k \in Inum PROVE Links(k)' = Links(k)
  <2>1. \A e \in Inum, m \in Names : <<e, m>> \in Links(k)' <=> <<e, m>> \in Links(k)
    <3>1. \A m \in Names : entry[i][m] # k /\ entry'[i][m] # k
      BY <1>1, <1>2, <1>4 DEF NoEntries
    <3>2. \A e \in Inum, m \in Names : e # i => (<<e, m>> \in Links(k)' <=> <<e, m>> \in Links(k))
      BY <1>1, <1>11 DEF Links
    <3>3. \A e \in Inum, m \in Names : e = i => <<e, m>> \notin Links(k)' /\ <<e, m>> \notin Links(k)
      BY <3>1 DEF Links
    <3> QED
      BY <3>2, <3>3
  <2>2. Links(k) \subseteq Inum \X Names /\ Links(k)' \subseteq Inum \X Names
    BY DEF Links
  <2> QED
    BY <2>1, <2>2
<1>17. ASSUME NEW k \in Inum PROVE Subdirs(k)' = Subdirs(k)
  <2>1. \A j \in Inum : j # i => (j \in Subdirs(k)' <=> j \in Subdirs(k))
    BY <1>1, <1>11, <1>16 DEF Subdirs
  <2>2. \A j \in Inum : j = i => j \notin Subdirs(k)' /\ j \notin Subdirs(k)
    BY <1>1, <1>2, <1>4 DEF Subdirs
  <2>3. Subdirs(k) \subseteq Inum /\ Subdirs(k)' \subseteq Inum
    BY DEF Subdirs
  <2> QED
    BY <2>1, <2>2, <2>3
<1>18. ASSUME NEW k \in Inum PROVE nlink'[k] = Count(k)'
  <2> DEFINE c == One((p \in InFlight(k))') - One(p \in InFlight(k))
  <2>1. Cardinality(InFlight(k)') = Cardinality(InFlight(k)) + c
    BY <1>8, InFlightFollows
  <2>2. c = 0
    <3>1. ~(p \in InFlight(k))' /\ ~(p \in InFlight(k))
      BY <1>1, <1>8 DEF InFlight
    <3> QED
      BY <3>1 DEF One
  <2> HIDE DEF c
  <2>3. /\ Cardinality(Links(k)') = Cardinality(Links(k)) + 0
        /\ Cardinality(Subdirs(k)') = Cardinality(Subdirs(k)) + 0
    BY <1>16, <1>17, CountsFinite
  <2>4. nlink'[k] = nlink[k] + 0 + 0 + c /\ lost' = lost /\ c \in Int
    BY <1>1, <1>2, <1>11, <2>2 DEF DiskType
  <2> QED
    BY <2>1, <2>3, <2>4, CountFollows
<1>19. RootGood'
  BY <1>1, <1>2, <1>5, <1>11 DEF RootGood, Tree, DiskGood
<1>20. ASSUME NEW j \in Inum PROVE InodeGood(j)'
  <2>1. CASE j = i
    <3>1. type'[j] # "free" /\ lost'[j] = 0
      BY <1>1, <1>5, <1>11, <2>1 DEF t
    <3>2. entry'[j] = NoEntries /\ dotdot'[j] = 0
      BY <1>1, <1>4, <2>1
    <3>3. pc'[p] = "fill" /\ tgt'[p] = j
      BY <1>8, <2>1
    <3> QED
      BY <3>1, <3>2, <3>3 DEF InodeGood
  <2>2. CASE j # i
    <3>1. InodeGood(j)
      BY DEF Tree, DiskGood
    <3>2. ASSUME NEW q \in Proc, pc[q] = "fill", tgt[q] = j PROVE pc'[q] = "fill" /\ tgt'[q] = j
      BY <1>1, <1>8, <3>2 DEF Others
    <3> QED
      BY <1>1, <1>11, <2>2, <3>1, <3>2 DEF InodeGood
  <2> QED
    BY <2>1, <2>2
<1>21. ASSUME NEW e \in Inum, NEW j \in Inum, NEW m \in Names PROVE NameGood(e, m, j)'
  <2> SUFFICES ASSUME type'[j] = "dir", type'[e] = "dir", entry[e][m] = j
               PROVE  /\ j # Root /\ dotdot[j] = e
                      /\ \A k \in Names : (entry[e][k] = j => k = m) /\ entry[j][k] # e
    BY <1>1 DEF NameGood
  <2>1. e # i
    BY <1>2, <1>4 DEF NoEntries
  <2>2. type[e] = "dir"
    BY <1>11, <2>1
  <2>3. j # i
    <3>1. <<e, m>> \in Links(j)
      BY <2>2 DEF Links
    <3> QED
      BY <1>5, <3>1
  <2>4. NameGood(e, m, j)
    BY DEF Tree, DiskGood
  <2> QED
    BY <1>11, <2>2, <2>3, <2>4 DEF NameGood
<1>22. DiskGood' /\ Counts'
  BY <1>18, <1>19, <1>20, <1>21 DEF DiskGood, Counts
<1> QED
  BY <1>1, <1>8, <1>12, <1>13, <1>14, <1>15, <1>22, StepTree

-----------------------------------------------------------------------------
(* The invariant holds *)

\* Nothing that the invariant is about changes but the message of a panic.
LEMMA SameTree ==
    ASSUME Tree, UNCHANGED <<diskVars, busy, callVars, cwd, fd, lost>>,
           panic' \in {"no", "ialloc: no inodes"}
    PROVE  Tree'
<1>1. UNCHANGED <<type, nlink, entry, dotdot, busy, pc, op, rest, cur, tgt, put, free, cwd, fd, lost>>
  BY DEF diskVars, callVars
<1>2. \A p : Locked(p)' = Locked(p) /\ Freed(p)' = Freed(p)
  BY <1>1 DEF Locked, Freed
<1>3. \A p, i : (Has(p, i)' <=> Has(p, i)) /\ Own(p, i)' = Own(p, i)
  BY <1>1 DEF Has, In, Own, Slots
<1>4. LocksHeld'
  BY <1>1, <1>2 DEF Tree, LocksHeld
<1>5. AllApart'
  <2>1. SUFFICES ASSUME NEW p \in Proc, NEW q \in Proc, p # q PROVE Apart(p, q)'
    BY DEF AllApart
  <2>2. Apart(p, q)
    BY <2>1 DEF Tree, AllApart
  <2>3. Has(q, Freed(p))' <=> Has(q, Freed(p))
    BY <1>1 DEF Has, In, Freed
  <2>4. Has(q, tgt[p])' <=> Has(q, tgt[p])
    BY <1>1 DEF Has, In
  <2> QED
    BY <1>1, <1>2, <2>2, <2>3, <2>4 DEF Apart
<1>6. AllSound'
  <2>1. SUFFICES ASSUME NEW p \in Proc PROVE Sound(p)'
    BY DEF AllSound
  <2>2. Sound(p)
    BY DEF Tree, AllSound
  <2>3. (EntryHeld(p)' <=> EntryHeld(p)) /\ (NewInode(p)' <=> NewInode(p))
    BY <1>1 DEF EntryHeld, NewInode
  <2>4. Own(p, Freed(p))' = Own(p, Freed(p))
    BY <1>1 DEF Own, Slots, Freed
  <2> QED
    BY <1>1, <1>2, <1>3, <2>2, <2>3, <2>4 DEF Sound
<1>7. DiskGood'
  <2>1. RootGood'
    BY <1>1 DEF RootGood, Tree, DiskGood
  <2>2. ASSUME NEW i \in Inum PROVE InodeGood(i)'
    <3>1. InodeGood(i)
      BY DEF Tree, DiskGood
    <3> QED
      BY <1>1, <3>1 DEF InodeGood
  <2>3. ASSUME NEW d \in Inum, NEW i \in Inum, NEW n \in Names PROVE NameGood(d, n, i)'
    <3>1. NameGood(d, n, i)
      BY DEF Tree, DiskGood
    <3> QED
      BY <1>1, <3>1 DEF NameGood
  <2> QED
    BY <2>1, <2>2, <2>3 DEF DiskGood
<1>8. Counts'
  <2>1. \A i : Links(i)' = Links(i) /\ InFlight(i)' = InFlight(i)
    BY <1>1 DEF Links, InFlight
  <2>2. \A i : Subdirs(i)' = Subdirs(i)
    BY <1>1, <2>1 DEF Subdirs
  <2>3. \A i : Count(i)' = Count(i)
    BY <1>1, <2>1, <2>2 DEF Count
  <2> QED
    BY <1>1, <2>3 DEF Tree, Counts
<1> QED
  BY <1>4, <1>5, <1>6, <1>7, <1>8 DEF Tree

\* ilock() finds an inode that is allocated.
LEMMA LockFinds ==
    ASSUME Inv, Tree, NEW p \in Proc, put[p] = <<>>, Wanted(p) # 0
    PROVE  ~NoType(Wanted(p))
<1>1. (pc[p] \in {"walk", "parent"} /\ Wanted(p) = cur[p]) \/ (pc[p] \in {"exists", "fill", "remove", "undo"} /\ Wanted(p) = tgt[p])
  BY DEF Wanted
<1>2. Wanted(p) \in Inum /\ Has(p, Wanted(p)) /\ Sound(p)
  BY <1>1, Facts DEF Has, Tree, AllSound
<1>3. CASE pc[p] = "fill"
  BY <1>1, <1>2, <1>3 DEF Sound, NewInode, NoType
<1>4. CASE pc[p] # "fill"
  BY <1>2, <1>4, Plain DEF NoType
<1> QED
  BY <1>3, <1>4

\* unlink() finds an inode that is linked.
LEMMA UnlinkFinds ==
    ASSUME Inv, Tree, NEW p \in Proc, pc[p] = "remove"
    PROVE  nlink[tgt[p]] \in Nat /\ nlink[tgt[p]] >= 1
<1>1. cur[p] \in Inum /\ tgt[p] \in Inum /\ Sound(p)
  BY Facts DEF Phase, Tree, AllSound
<1>2. <<cur[p], Head(rest[p])>> \in Links(tgt[p])
  BY <1>1 DEF Sound, EntryHeld, Links
<1> QED
  BY <1>1, <1>2, CountCovers

\* iput() of the last reference finds the inode unlocked.
LEMMA IputFinds ==
    ASSUME Inv, Tree, NEW p \in Proc, put[p] # <<>>, free[p] = "no", Freeing(Head(put[p]))
    PROVE  ~busy[Head(put[p])]
<1> DEFINE i == Head(put[p])
<1>1. put[p] \in Seq(Inum) /\ Len(put[p]) <= 2 /\ Sound(p)
  BY Facts DEF Phase, Tree, AllSound
<1>2. i \in Inum /\ In(put[p], i) /\ Has(p, i) /\ ref[i] = 1
  BY <1>1, SlotsTail, InTail DEF Freeing, Has
<1> HIDE DEF i
<1>3. Own(p, i) = 1 /\ \A q \in Proc : q # p => ~Has(q, i)
  BY <1>2, LastPointer
<1>4. tgt[p] # i
  BY <1>2, <1>3, HasOwn
<1>5. ASSUME NEW q \in Proc, i \in Locked(q) PROVE FALSE
  <2>1. Has(q, i)
    <3>1. free[q] # "no" => Has(q, Head(put[q]))
      BY FreedHas DEF Freed
    <3> QED
      BY <1>5, <3>1 DEF Locked, Has
  <2>2. q = p
    BY <1>3, <2>1
  <2> QED
    BY <1>1, <1>4, <1>5, <2>2 DEF Locked, Sound
<1>6. ~busy[i]
  BY <1>2, <1>5 DEF Tree, LocksHeld
<1> QED
  BY <1>6 DEF i

LEMMA PanicTree ==
    ASSUME Inv, Tree, Inv', NEW p \in Proc, Panic(p)
    PROVE  Tree'
<1>1. panic' \in Panics(p) /\ UNCHANGED <<diskVars, busy, callVars, cwd, fd, lost>>
  BY DEF Panic, cacheVars, history
<1>2. panic' # "ilock: no type"
  <2>1. ASSUME "ilock: no type" \in Panics(p) PROVE put[p] = <<>> /\ Wanted(p) # 0 /\ NoType(Wanted(p))
    BY <2>1 DEF Panics
  <2> QED
    BY <1>1, <2>1, LockFinds
<1>3. panic' # "unlink: nlink < 1"
  <2>1. ASSUME "unlink: nlink < 1" \in Panics(p) PROVE pc[p] = "remove" /\ nlink[tgt[p]] < 1
    BY <2>1 DEF Panics, Wanted
  <2>2. ~(pc[p] = "remove" /\ nlink[tgt[p]] < 1)
    <3>1. SUFFICES ASSUME pc[p] = "remove" PROVE ~(nlink[tgt[p]] < 1)
      OBVIOUS
    <3>2. nlink[tgt[p]] \in Nat /\ nlink[tgt[p]] >= 1
      BY <3>1, UnlinkFinds
    <3> QED
      BY <3>2
  <2> QED
    BY <1>1, <2>1, <2>2
<1>4. panic' # "iput busy"
  <2>1. ASSUME "iput busy" \in Panics(p)
        PROVE  put[p] # <<>> /\ free[p] = "no" /\ Freeing(Head(put[p])) /\ busy[Head(put[p])]
    BY <2>1 DEF Panics
  <2> QED
    BY <1>1, <2>1, IputFinds
<1>5. panic' \in {"ilock: no type", "unlink: nlink < 1", "ialloc: no inodes", "iput busy"}
  BY <1>1 DEF Panics
<1> QED
  BY <1>1, <1>2, <1>3, <1>4, <1>5, SameTree

LEMMA InitTree == Init => Tree
<1> SUFFICES ASSUME Init PROVE Tree
  OBVIOUS
<1>1. Root \in Inum /\ 0 \notin Inum
  BY InodeAssumption DEF Root, Inum
<1>2. /\ \A p \in Proc : /\ pc[p] = "user" /\ op[p] = "none" /\ free[p] = "no" /\ put[p] = <<>>
                         /\ cwd[p] = Root /\ fd[p] = 0 /\ cur[p] = 0 /\ tgt[p] = 0
      /\ \A i \in Inum : /\ busy[i] = FALSE /\ entry[i] = NoEntries /\ lost[i] = 0
                         /\ type[i] = (IF i = Root THEN "dir" ELSE "free")
                         /\ nlink[i] = (IF i = Root THEN 1 ELSE 0)
                         /\ dotdot[i] = (IF i = Root THEN Root ELSE 0)
      /\ panic = "no"
  BY DEF Init
<1>3. \A p \in Proc : Locked(p) = {}
  BY <1>2 DEF Locked
<1>4. \A p \in Proc, i \in Inum : Has(p, i) => i = Root
  BY <1>1, <1>2 DEF Has, In
<1>5. LocksHeld
  BY <1>2, <1>3 DEF LocksHeld
<1>6. AllApart
  BY <1>2, <1>3 DEF AllApart, Apart
<1>7. AllSound
  BY <1>1, <1>2, <1>4 DEF AllSound, Sound
<1>8. \A i \in Inum, n \in Names : entry[i][n] = 0
  BY <1>2 DEF NoEntries
<1>9. DiskGood
  <2>1. RootGood
    BY <1>1, <1>2 DEF RootGood
  <2>2. ASSUME NEW i \in Inum PROVE InodeGood(i)
    BY <1>1, <1>2 DEF InodeGood
  <2>3. ASSUME NEW d \in Inum, NEW i \in Inum, NEW n \in Names PROVE NameGood(d, n, i)
    BY <1>1, <1>8 DEF NameGood
  <2> QED
    BY <2>1, <2>2, <2>3 DEF DiskGood
<1>10. ASSUME NEW i \in Inum PROVE nlink[i] = Count(i)
  <2>1. Links(i) = {}
    BY <1>1, <1>8 DEF Links
  <2>2. Subdirs(i) = {}
    BY <1>1, <1>2 DEF Subdirs
  <2>3. InFlight(i) = {}
    BY <1>2 DEF InFlight
  <2>4. Cardinality({}) = 0
    BY FS_EmptySet
  <2>5. Count(i) = 0 + 0 + 0 + One(i = Root) + 0
    BY <1>2, <2>1, <2>2, <2>3, <2>4 DEF Count
  <2> QED
    BY <1>2, <2>5 DEF One
<1> QED
  BY <1>2, <1>5, <1>6, <1>7, <1>9, <1>10 DEF Tree, Counts

\* What has gone up from a removed directory has.
LEMMA StrayedStays == [Next]_vars => (strayed => strayed')
<1> SUFFICES ASSUME [Next]_vars, strayed PROVE strayed'
  OBVIOUS
<1>1. CASE UNCHANGED vars
  BY <1>1 DEF vars, history
<1>2. CASE Next
  <2>1. CASE Halted
    BY <2>1 DEF Halted, vars, history
  <2>2. ASSUME NEW p \in Proc, Panic(p) \/ Iput(p) \/ IputDisk(p) \/ IputDone(p) PROVE strayed'
    BY <2>2 DEF Panic, Iput, IputDisk, IputDone, history
  <2>3. ASSUME NEW p \in Proc, NEW c \in Calls, Call(p, c) \/ LinkCount(p, c.new) PROVE strayed'
    BY <2>3 DEF Call, LinkCount, history
  <2>4. ASSUME NEW p \in Proc, Walk(p) \/ CreateExists(p) PROVE strayed'
    BY <2>4 DEF Walk, CreateExists, Follow
  <2>5. ASSUME NEW p \in Proc, Open(p) \/ Close(p) \/ Chdir(p) \/ OpenExisting(p) \/ CreateAlloc(p) PROVE strayed'
    BY <2>5 DEF Open, Close, Chdir, OpenExisting, CreateAlloc, history
  <2>6. ASSUME NEW p \in Proc, \/ CreateLink(p) \/ CreateDone(p) \/ UnlinkLookup(p) \/ UnlinkRemove(p)
                               \/ UnlinkDrop(p) \/ LinkEnter(p) \/ LinkUndo(p)
        PROVE  strayed'
    BY <2>6 DEF CreateLink, CreateDone, UnlinkLookup, UnlinkRemove, UnlinkDrop, LinkEnter, LinkUndo, history
  <2> QED
    BY <1>2, <2>1, <2>2, <2>3, <2>4, <2>5, <2>6 DEF Next
<1> QED
  BY <1>1, <1>2

LEMMA NextTree == Inv /\ TreeOK /\ [Next]_vars => TreeOK'
<1> SUFFICES ASSUME Inv, TreeOK, [Next]_vars, ~strayed' PROVE Tree'
  BY DEF TreeOK
<1>1. Inv' /\ Tree
  BY NextInv, StrayedStays DEF TreeOK
<1>2. CASE UNCHANGED vars
  <2>1. UNCHANGED <<diskVars, busy, callVars, cwd, fd, lost, panic>>
    BY <1>2 DEF vars, cacheVars, history
  <2> QED
    BY <1>1, <2>1, SameTree DEF Tree
<1>3. CASE Next
  <2>1. CASE Halted
    <3>1. UNCHANGED <<diskVars, busy, callVars, cwd, fd, lost, panic>>
      BY <2>1 DEF Halted, vars, cacheVars, history
    <3> QED
      BY <1>1, <3>1, SameTree DEF Tree
  <2>2. ASSUME NEW p \in Proc, Panic(p) \/ IputDisk(p) \/ IputDone(p) PROVE Tree'
    BY <1>1, <2>2, PanicTree, IputDiskTree, IputDoneTree
  <2>3. ASSUME NEW p \in Proc, Iput(p) PROVE Tree'
    BY <1>1, <2>3, IputTree, IputFreeTree
  <2>4. ASSUME NEW p \in Proc, NEW c \in Calls, Call(p, c) PROVE Tree'
    BY <1>1, <2>4, CallTree
  <2>5. ASSUME NEW p \in Proc, NEW c \in {k \in Calls : k.op = "link_old"}, LinkCount(p, c.new) PROVE Tree'
    BY <1>1, <2>5, LinkCountTree
  <2>6. ASSUME NEW p \in Proc, Walk(p) \/ CreateExists(p) PROVE Tree'
    BY <1>1, <2>6, WalkTree, CreateExistsTree
  <2>7. ASSUME NEW p \in Proc, Open(p) \/ Close(p) \/ Chdir(p) \/ OpenExisting(p) PROVE Tree'
    BY <1>1, <2>7, OpenTree, CloseTree, ChdirTree, OpenExistingTree
  <2>8. ASSUME NEW p \in Proc, CreateAlloc(p) \/ CreateLink(p) \/ CreateDone(p) PROVE Tree'
    BY <1>1, <2>8, CreateAllocTree, CreateLinkTree, CreateDoneTree
  <2>9. ASSUME NEW p \in Proc, UnlinkLookup(p) \/ UnlinkRemove(p) \/ UnlinkDrop(p) PROVE Tree'
    BY <1>1, <2>9, UnlinkLookupTree, UnlinkRemoveTree, UnlinkDropTree
  <2>10. ASSUME NEW p \in Proc, LinkEnter(p) \/ LinkUndo(p) PROVE Tree'
    BY <1>1, <2>10, LinkEnterTree, LinkUndoTree
  <2> QED
    BY <1>3, <2>1, <2>2, <2>3, <2>4, <2>5, <2>6, <2>7, <2>8, <2>9, <2>10 DEF Next
<1> QED
  BY <1>2, <1>3

-----------------------------------------------------------------------------
(* What it says *)

LEMMA TypeHolds == Inv => TypeOK
<1> SUFFICES ASSUME Inv PROVE TypeOK
  OBVIOUS
<1>1. DiskType /\ CacheType /\ CallType
  BY DEF Inv
<1>2. Inum \subseteq 0 .. NINODES
  BY InodeAssumption DEF Inum
<1>3. cwd \in [Proc -> 0 .. NINODES]
  BY <1>1, <1>2 DEF CallType
<1>4. {cur, tgt, cwd, fd} \subseteq [Proc -> 0 .. NINODES]
  BY <1>1, <1>3 DEF CallType
<1>5. {busy, valid} \subseteq [Inum -> BOOLEAN]
  BY <1>1 DEF CacheType
<1> QED
  BY <1>1, <1>4, <1>5 DEF TypeOK, DiskType, CacheType, CallType

LEMMA NamesHold == Inv /\ Tree => NamesGood
<1> SUFFICES ASSUME Inv, Tree, NEW i \in Inum
             PROVE  (Links(i) # {} => type[i] # "free") /\ nlink[i] >= Cardinality(Links(i))
  BY DEF NamesGood
<1>1. nlink[i] >= Cardinality(Links(i)) /\ (Links(i) # {} => nlink[i] # 0)
  <2>1. nlink[i] >= Cardinality(Links(i)) /\ (Links(i) # {} => nlink[i] >= 1)
    BY CountCovers
  <2> QED
    BY <2>1
<1>2. InodeGood(i)
  BY DEF Tree, DiskGood
<1> QED
  BY <1>1, <1>2 DEF InodeGood

LEMMA CountsHold == Inv /\ Tree => CountsExact
<1> SUFFICES ASSUME Inv, Tree, \A p \in Proc : pc[p] = "user" /\ put[p] = <<>>, NEW i \in Inum
             PROVE  nlink[i] = Cardinality(Links(i)) + Cardinality(Subdirs(i)) + lost[i]
                               + (IF i = Root THEN 1 ELSE 0)
  BY DEF CountsExact
<1>1. InFlight(i) = {}
  <2>1. \A p \in Proc : op[p] # "link"
    <3>1. \A p \in Proc : Sound(p)
      BY DEF Tree, AllSound
    <3> QED
      BY <3>1 DEF Sound
  <2> QED
    BY <2>1 DEF InFlight
<1> DEFINE a == Cardinality(Links(i))  b == Cardinality(Subdirs(i))  l == lost[i]  r == One(i = Root)
<1>2. Cardinality(InFlight(i)) = 0
  BY <1>1, FS_EmptySet
<1>3. nlink[i] = a + b + l + r + 0
  BY <1>2 DEF Tree, Counts, Count
<1>4. a \in Nat /\ b \in Nat /\ l \in Nat /\ r \in Nat /\ r = IF i = Root THEN 1 ELSE 0
  BY CountsFinite DEF One
<1> HIDE DEF a, b, l, r
<1>5. nlink[i] = a + b + l + r
  BY <1>3, <1>4
<1> QED
  BY <1>4, <1>5 DEF a, b, l

LEMMA OpenHolds == Inv /\ Tree => OpenStays
<1> SUFFICES ASSUME Inv, Tree, NEW p \in Proc
             PROVE  type[cwd[p]] = "dir" /\ (fd[p] # 0 => type[fd[p]] # "free")
  BY DEF OpenStays
<1>1. Sound(p)
  BY DEF Tree, AllSound
<1>2. ASSUME fd[p] # 0, type[fd[p]] = "free" PROVE FALSE
  <2>1. fd[p] \in Inum /\ Has(p, fd[p])
    BY <1>2, Facts, InodeAssumption DEF Has, Inum
  <2>2. free[p] = "done" /\ fd[p] = Freed(p)
    BY <1>1, <1>2, <2>1 DEF Sound
  <2> QED
    BY <2>2, FreedOnce
<1> QED
  BY <1>1, <1>2 DEF Sound

\* A process that waits for an inode while it has another locked waits for one
\* that is in the directory it has locked.
LEMMA WaitsBelow ==
    ASSUME Inv, Tree, NEW p \in Proc, put[p] = <<>>, Wanted(p) \in Inum, Locked(p) # {}
    PROVE  /\ pc[p] \in {"fill", "remove"} /\ Locked(p) = {cur[p]} /\ Wanted(p) = tgt[p]
           /\ cur[p] \in Inum /\ cur[p] # tgt[p] /\ free[p] = "no" /\ tgt[p] \in Inum
<1>1. free[p] = "no" /\ 0 \notin Inum /\ Sound(p)
  BY Plain, Facts DEF Tree, AllSound
<1>2. pc[p] \in {"fill", "remove", "made", "drop"}
  BY <1>1, NoLocks
<1>3. pc[p] \in {"fill", "remove"}
  BY <1>1, <1>2 DEF Wanted
<1>4. cur[p] \in Inum /\ Wanted(p) = tgt[p]
  BY <1>3, Facts DEF Wanted
<1>5. Locked(p) = {cur[p]}
  BY <1>1, <1>3, <1>4 DEF Locked
<1>6. cur[p] # tgt[p]
  <2>1. CASE pc[p] = "fill"
    BY <1>1, <2>1 DEF Sound, NewInode
  <2>2. CASE pc[p] = "remove"
    <3>1. EntryHeld(p)
      BY <1>1, <2>2 DEF Sound
    <3>2. NameGood(cur[p], Head(rest[p]), tgt[p])
      BY <1>4, <3>1 DEF Tree, DiskGood, EntryHeld
    <3> QED
      BY <2>2, <3>1, <3>2 DEF EntryHeld, NameGood
  <2> QED
    BY <1>3, <2>1, <2>2
<1> QED
  BY <1>1, <1>3, <1>4, <1>5, <1>6

LEMMA NoCycleHolds == Inv /\ Tree => NoLockCycle
<1> SUFFICES ASSUME Inv, Tree, NEW p \in Proc, NEW q \in Proc, put[p] = <<>>, put[q] = <<>>,
                    Wanted(p) \in Locked(q), Wanted(q) \in Locked(p)
             PROVE  FALSE
  BY DEF NoLockCycle
<1>1. Wanted(p) \in Inum /\ Wanted(q) \in Inum
  BY DEF Locked
<1>2. /\ pc[p] \in {"fill", "remove"} /\ Locked(p) = {cur[p]} /\ Wanted(p) = tgt[p]
      /\ cur[p] \in Inum /\ cur[p] # tgt[p] /\ free[p] = "no" /\ tgt[p] \in Inum
  BY <1>1, WaitsBelow
<1>3. /\ pc[q] \in {"fill", "remove"} /\ Locked(q) = {cur[q]} /\ Wanted(q) = tgt[q]
      /\ cur[q] \in Inum /\ cur[q] # tgt[q] /\ free[q] = "no" /\ tgt[q] \in Inum
  BY <1>1, WaitsBelow
<1>4. tgt[p] = cur[q] /\ tgt[q] = cur[p] /\ p # q
  BY <1>2, <1>3
<1>5. Apart(p, q) /\ Apart(q, p) /\ Sound(p) /\ Sound(q)
  BY <1>4 DEF Tree, AllApart, AllSound
<1>6. pc[p] = "remove" /\ pc[q] = "remove"
  BY <1>2, <1>3, <1>4, <1>5 DEF Apart, Has
<1>7. EntryHeld(p) /\ EntryHeld(q)
  BY <1>5, <1>6 DEF Sound
<1>8. NameGood(cur[p], Head(rest[p]), tgt[p])
  BY <1>2, <1>7 DEF Tree, DiskGood, EntryHeld
<1> QED
  BY <1>4, <1>6, <1>7, <1>8 DEF EntryHeld, NameGood

\* The tree of names stays whole whatever the processes call, and however their
\* steps interleave, as long as no lookup goes up from a removed directory:
\* namex(), create(), sys_link(), sys_unlink() and iput() together keep every
\* name leading to an allocated inode and every link count exact.
THEOREM TreeStaysWhole == Spec => []TreeInv
<1>1. Init => Inv /\ TreeOK
  BY InitInv, InitTree DEF TreeOK
<1>2. Inv /\ TreeOK /\ [Next]_vars => Inv' /\ TreeOK'
  BY NextInv, NextTree
<1>3. Inv /\ TreeOK => TreeInv
  BY TypeHolds, NamesHold, CountsHold, OpenHolds, NoCycleHolds DEF TreeOK, TreeInv
<1> QED
  BY <1>1, <1>2, <1>3, PTL DEF Spec

\* The kernel does not panic in ilock(), sys_unlink() or iput(), whatever the
\* processes call, as long as no lookup goes up from a removed directory.
THEOREM NoKernelPanic == Spec => []NoPanic
<1>1. Init => Inv /\ TreeOK
  BY InitInv, InitTree DEF TreeOK
<1>2. Inv /\ TreeOK /\ [Next]_vars => Inv' /\ TreeOK'
  BY NextInv, NextTree
<1>3. Inv /\ TreeOK => NoPanic
  BY DEF TreeOK, Tree, NoPanic
<1> QED
  BY <1>1, <1>2, <1>3, PTL DEF Spec
=============================================================================
