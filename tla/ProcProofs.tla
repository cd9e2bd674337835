----------------------------- MODULE ProcProofs -----------------------------
(***************************************************************************)
(* Proofs about what proc.c rests on and what it promises, for any number  *)
(* of CPUs and processes.  The first part is about Interrupts: locks and   *)
(* interrupts do not defeat each other, whatever thread goes on where.     *)
(* The second part is about Proc, whose sections under ptable.lock are     *)
(* single steps: the process table. The third part is about Startup, which *)
(* loads the kernel and finds the CPUs.                                    *)
(***************************************************************************)
EXTENDS Proc, Interrupts, Startup, WellFoundedInduction, FiniteSetTheorems, SequenceTheorems, TLAPS

-----------------------------------------------------------------------------
(* Locks and interrupts *)

\* The operations of the kernel code.
Op == ({"acquire", "release", "wakeup1", "sleep"} \X Lock)
      \cup {<<"yield">>, <<"sti">>, <<"run">>, <<"eoi">>, <<"iret">>}

\* The locks that the code t holds when it is about to do its j-th operation:
\* those it releases before it acquires them.
HeldAt(t, j) ==
    {l \in Lock : \E k \in j .. Len(t) : /\ t[k] = <<"release", l>>
                                         /\ \A m \in j .. (k - 1) : t[m] # <<"acquire", l>>}
Held(t) == HeldAt(t, 1)

\* Code that releases each lock once after it acquired it, and switches to
\* another thread with no lock but ptable.lock and enables interrupts with none.
Balanced(t) ==
    \A j \in 1 .. Len(t) :
        /\ \A l \in Lock : t[j] = <<"acquire", l>> => l \in HeldAt(t, j + 1)
        /\ \A l \in Lock : t[j] = <<"release", l>> => l \notin HeldAt(t, j + 1)
        /\ t[j][1] \in {"sleep", "yield", "run"} => HeldAt(t, j) = {"ptable"}
        /\ t[j][1] = "sti" => HeldAt(t, j) = {}

-----------------------------------------------------------------------------
(* Sequences of operations *)

\* The elements of a concatenation.
LEMMA Join ==
    ASSUME NEW s \in Seq(Op), NEW t \in Seq(Op)
    PROVE  /\ s \o t \in Seq(Op)
           /\ Len(s \o t) = Len(s) + Len(t)
           /\ \A i \in 1 .. Len(s) : (s \o t)[i] = s[i]
           /\ \A i \in 1 .. Len(t) : (s \o t)[Len(s) + i] = t[i]
<1>1. /\ s \o t \in Seq(Op)
      /\ Len(s \o t) = Len(s) + Len(t)
      /\ \A i \in 1 .. Len(s) + Len(t) : (s \o t)[i] = IF i <= Len(s) THEN s[i] ELSE t[i - Len(s)]
  BY ConcatProperties
<1> DEFINE u == s \o t  m == Len(s)  n == Len(t)
<1>2. m \in Nat /\ n \in Nat
  OBVIOUS
<1>3. \A i \in 1 .. m + n : u[i] = IF i <= m THEN s[i] ELSE t[i - m]
  BY <1>1
<1> HIDE DEF u, m, n
<1>4. \A i \in 1 .. m : u[i] = s[i]
  BY <1>2, <1>3
<1>5. ASSUME NEW i \in 1 .. n PROVE u[m + i] = t[i]
  <2>1. m + i \in 1 .. m + n /\ ~(m + i <= m) /\ (m + i) - m = i
    BY <1>2
  <2> QED
    BY <1>3, <2>1
<1> QED
  BY <1>1, <1>4, <1>5 DEF u, m, n

\* The positions of a concatenation are those of its two parts.
LEMMA JoinCases ==
    ASSUME NEW s \in Seq(Op), NEW t \in Seq(Op), NEW j \in 1 .. Len(s \o t)
    PROVE  \/ j \in 1 .. Len(s) /\ (s \o t)[j] = s[j]
           \/ \E i \in 1 .. Len(t) : j = Len(s) + i /\ (s \o t)[j] = t[i]
<1>1. Len(s) \in Nat /\ Len(t) \in Nat /\ j \in 1 .. Len(s) + Len(t)
  BY Join
<1>2. CASE j <= Len(s)
  BY <1>1, <1>2, Join
<1>3. CASE j > Len(s)
  <2>1. j - Len(s) \in 1 .. Len(t) /\ j = Len(s) + (j - Len(s))
    BY <1>1, <1>3
  <2> QED
    BY <2>1, Join
<1> QED
  BY <1>1, <1>2, <1>3

\* One operation back: a release needs its lock, an acquire takes it.
LEMMA HeldStep ==
    ASSUME NEW t \in Seq(Op), NEW j \in 1 .. Len(t), NEW l \in Lock
    PROVE  l \in HeldAt(t, j) <=> \/ t[j] = <<"release", l>>
                                  \/ t[j] # <<"acquire", l>> /\ l \in HeldAt(t, j + 1)
<1>0. Len(t) \in Nat
  OBVIOUS
<1>1. ASSUME l \in HeldAt(t, j), t[j] # <<"release", l>>
      PROVE  t[j] # <<"acquire", l>> /\ l \in HeldAt(t, j + 1)
  <2>1. PICK k \in j .. Len(t) : t[k] = <<"release", l>> /\ \A m \in j .. (k - 1) : t[m] # <<"acquire", l>>
    BY <1>1 DEF HeldAt
  <2>2. k # j
    BY <1>1, <2>1
  <2>3. k \in (j + 1) .. Len(t) /\ j \in j .. (k - 1) /\ \A m \in (j + 1) .. (k - 1) : m \in j .. (k - 1)
    BY <1>0, <2>2
  <2> QED
    BY <2>1, <2>3 DEF HeldAt
<1>2. ASSUME t[j] = <<"release", l>>
      PROVE  l \in HeldAt(t, j)
  <2>1. j \in j .. Len(t) /\ \A m \in j .. (j - 1) : FALSE
    BY <1>0
  <2> QED
    BY <1>2, <2>1 DEF HeldAt
<1>3. ASSUME t[j] # <<"acquire", l>>, l \in HeldAt(t, j + 1)
      PROVE  l \in HeldAt(t, j)
  <2>1. PICK k \in (j + 1) .. Len(t) : t[k] = <<"release", l>> /\ \A m \in (j + 1) .. (k - 1) : t[m] # <<"acquire", l>>
    BY <1>3 DEF HeldAt
  <2>2. k \in j .. Len(t) /\ \A m \in j .. (k - 1) : m = j \/ m \in (j + 1) .. (k - 1)
    BY <1>0, <2>1
  <2> QED
    BY <1>3, <2>1, <2>2 DEF HeldAt
<1> QED
  BY <1>1, <1>2, <1>3

\* At the end nothing is held.
LEMMA HeldEnd ==
    ASSUME NEW t \in Seq(Op), NEW n, n = Len(t) + 1
    PROVE  HeldAt(t, n) = {}
<1>1. Len(t) \in Nat /\ n .. Len(t) = {}
  OBVIOUS
<1> QED
  BY <1>1 DEF HeldAt

\* The rest of the code.
LEMMA HeldTail ==
    ASSUME NEW t \in Seq(Op), t # <<>>, NEW j \in 1 .. Len(t)
    PROVE  HeldAt(Tail(t), j) = HeldAt(t, j + 1)
<1> DEFINE u == Tail(t)  n == Len(t)
<1>1. u \in Seq(Op) /\ n \in Nat \ {0} /\ Len(u) = n - 1 /\ \A k \in 1 .. n - 1 : u[k] = t[k + 1]
  BY HeadTailProperties
<1> HIDE DEF u
<1>2. ASSUME NEW l \in Lock, l \in HeldAt(u, j) PROVE l \in HeldAt(t, j + 1)
  <2>1. PICK k \in j .. n - 1 : u[k] = <<"release", l>> /\ \A m \in j .. (k - 1) : u[m] # <<"acquire", l>>
    BY <1>1, <1>2 DEF HeldAt
  <2>2. k + 1 \in (j + 1) .. n /\ t[k + 1] = <<"release", l>>
    BY <1>1, <2>1
  <2>3. ASSUME NEW m \in (j + 1) .. ((k + 1) - 1) PROVE t[m] # <<"acquire", l>>
    <3>1. m - 1 \in j .. (k - 1) /\ m - 1 \in 1 .. n - 1 /\ (m - 1) + 1 = m
      BY <1>1, <2>1
    <3> QED
      BY <1>1, <2>1, <3>1
  <2> QED
    BY <2>2, <2>3 DEF HeldAt
<1>3. ASSUME NEW l \in Lock, l \in HeldAt(t, j + 1) PROVE l \in HeldAt(u, j)
  <2>1. PICK k \in (j + 1) .. n : t[k] = <<"release", l>> /\ \A m \in (j + 1) .. (k - 1) : t[m] # <<"acquire", l>>
    BY <1>3 DEF HeldAt
  <2>2. k - 1 \in j .. Len(u) /\ u[k - 1] = <<"release", l>>
    BY <1>1, <2>1
  <2>3. ASSUME NEW m \in j .. ((k - 1) - 1) PROVE u[m] # <<"acquire", l>>
    <3>1. m + 1 \in (j + 1) .. (k - 1) /\ m \in 1 .. n - 1
      BY <1>1, <2>1
    <3> QED
      BY <1>1, <2>1, <3>1
  <2> QED
    BY <2>2, <2>3 DEF HeldAt
<1> QED
  BY <1>2, <1>3 DEF HeldAt, u

\* What remains of balanced code is balanced.
LEMMA BalancedTail ==
    ASSUME NEW t \in Seq(Op), t # <<>>, Balanced(t)
    PROVE  Balanced(Tail(t))
<1> DEFINE u == Tail(t)  n == Len(t)
<1>1. u \in Seq(Op) /\ n \in Nat \ {0} /\ Len(u) = n - 1 /\ \A k \in 1 .. n - 1 : u[k] = t[k + 1]
  BY HeadTailProperties
<1>2. \A k \in 1 .. n : HeldAt(u, k) = HeldAt(t, k + 1)
  BY HeldTail
<1> HIDE DEF u, n
<1> SUFFICES ASSUME NEW j \in 1 .. Len(u)
             PROVE  /\ \A l \in Lock : u[j] = <<"acquire", l>> => l \in HeldAt(u, j + 1)
                    /\ \A l \in Lock : u[j] = <<"release", l>> => l \notin HeldAt(u, j + 1)
                    /\ u[j][1] \in {"sleep", "yield", "run"} => HeldAt(u, j) = {"ptable"}
                    /\ u[j][1] = "sti" => HeldAt(u, j) = {}
  BY DEF Balanced, u
<1>3. j \in 1 .. n - 1 /\ j \in 1 .. n /\ j + 1 \in 1 .. n
  BY <1>1
<1>4. u[j] = t[j + 1] /\ HeldAt(u, j) = HeldAt(t, j + 1) /\ HeldAt(u, j + 1) = HeldAt(t, (j + 1) + 1)
  BY <1>1, <1>2, <1>3
<1> QED
  BY <1>3, <1>4 DEF Balanced, n

\* Two pieces of code, the second of which starts without locks.
LEMMA HeldJoin ==
    ASSUME NEW s \in Seq(Op), NEW t \in Seq(Op), Held(t) = {}
    PROVE  /\ \A j \in 1 .. Len(s) + 1 : HeldAt(s \o t, j) = HeldAt(s, j)
           /\ \A i \in 1 .. Len(t) + 1 : HeldAt(s \o t, Len(s) + i) = HeldAt(t, i)
<1> DEFINE u == s \o t  a == Len(s)  b == Len(t)
<1>1. /\ u \in Seq(Op) /\ Len(u) = a + b
      /\ \A i \in 1 .. a : u[i] = s[i]
      /\ \A i \in 1 .. b : u[a + i] = t[i]
  BY Join
<1>2. a \in Nat /\ b \in Nat
  OBVIOUS
<1>3. \A l \in Lock, k \in 1 .. b : t[k] = <<"release", l>> => \E m \in 1 .. (k - 1) : t[m] = <<"acquire", l>>
  BY DEF Held, HeldAt
<1>4. \A l \in Lock : \A j : l \in HeldAt(s, j) <=> \E k \in j .. a : s[k] = <<"release", l>> /\ \A m \in j .. (k - 1) : s[m] # <<"acquire", l>>
  BY DEF HeldAt
<1>5. \A l \in Lock : \A j : l \in HeldAt(t, j) <=> \E k \in j .. b : t[k] = <<"release", l>> /\ \A m \in j .. (k - 1) : t[m] # <<"acquire", l>>
  BY DEF HeldAt
<1>6. \A l \in Lock : \A j : l \in HeldAt(u, j) <=> \E k \in j .. (a + b) : u[k] = <<"release", l>> /\ \A m \in j .. (k - 1) : u[m] # <<"acquire", l>>
  BY <1>1 DEF HeldAt
<1> HIDE DEF u, a, b
<1>7. ASSUME NEW j \in 1 .. a + 1, NEW l \in Lock
      PROVE  l \in HeldAt(u, j) <=> l \in HeldAt(s, j)
  <2>1. ASSUME l \in HeldAt(u, j) PROVE l \in HeldAt(s, j)
    <3>1. PICK k \in j .. (a + b) : u[k] = <<"release", l>> /\ \A m \in j .. (k - 1) : u[m] # <<"acquire", l>>
      BY <1>6, <2>1
    <3>2. CASE k <= a
      <4>1. k \in j .. a /\ k \in 1 .. a /\ \A m \in j .. (k - 1) : m \in 1 .. a
        BY <1>2, <3>2
      <4> QED
        BY <1>1, <1>4, <3>1, <4>1
    <3>3. CASE k > a
      <4>1. k - a \in 1 .. b /\ a + (k - a) = k
        BY <1>2, <3>3
      <4>2. PICK m \in 1 .. ((k - a) - 1) : t[m] = <<"acquire", l>>
        BY <1>1, <1>3, <3>1, <4>1
      <4>3. m \in 1 .. b /\ a + m \in j .. (k - 1)
        BY <1>2, <4>1
      <4> QED
        BY <1>1, <3>1, <4>2, <4>3
    <3> QED
      BY <1>2, <3>2, <3>3
  <2>2. ASSUME l \in HeldAt(s, j) PROVE l \in HeldAt(u, j)
    <3>1. PICK k \in j .. a : s[k] = <<"release", l>> /\ \A m \in j .. (k - 1) : s[m] # <<"acquire", l>>
      BY <1>4, <2>2
    <3>2. k \in j .. (a + b) /\ k \in 1 .. a /\ \A m \in j .. (k - 1) : m \in 1 .. a
      BY <1>2
    <3> QED
      BY <1>1, <1>6, <3>1, <3>2
  <2> QED
    BY <2>1, <2>2
<1>8. ASSUME NEW i \in 1 .. b + 1, NEW l \in Lock
      PROVE  l \in HeldAt(u, a + i) <=> l \in HeldAt(t, i)
  <2>1. ASSUME l \in HeldAt(u, a + i) PROVE l \in HeldAt(t, i)
    <3>1. PICK k \in (a + i) .. (a + b) : u[k] = <<"release", l>> /\ \A m \in (a + i) .. (k - 1) : u[m] # <<"acquire", l>>
      BY <1>6, <2>1
    <3>2. k - a \in i .. b /\ k - a \in 1 .. b /\ a + (k - a) = k
      BY <1>2
    <3>3. ASSUME NEW m \in i .. ((k - a) - 1) PROVE t[m] # <<"acquire", l>>
      <4>1. m \in 1 .. b /\ a + m \in (a + i) .. (k - 1)
        BY <1>2, <3>2
      <4> QED
        BY <1>1, <3>1, <4>1
    <3>4. t[k - a] = <<"release", l>>
      BY <1>1, <3>1, <3>2
    <3> QED
      BY <1>5, <3>2, <3>3, <3>4
  <2>2. ASSUME l \in HeldAt(t, i) PROVE l \in HeldAt(u, a + i)
    <3>1. PICK k \in i .. b : t[k] = <<"release", l>> /\ \A m \in i .. (k - 1) : t[m] # <<"acquire", l>>
      BY <1>5, <2>2
    <3>2. a + k \in (a + i) .. (a + b) /\ u[a + k] = <<"release", l>>
      BY <1>1, <1>2, <3>1
    <3>3. ASSUME NEW m \in (a + i) .. ((a + k) - 1) PROVE u[m] # <<"acquire", l>>
      <4>1. m - a \in 1 .. b /\ m - a \in i .. (k - 1) /\ a + (m - a) = m
        BY <1>2
      <4> QED
        BY <1>1, <3>1, <4>1
    <3> QED
      BY <1>6, <3>2, <3>3
  <2> QED
    BY <2>1, <2>2
<1> QED
  BY <1>7, <1>8 DEF HeldAt, u, a, b

\* Balanced code may be followed by balanced code that starts without locks.
LEMMA BalancedJoin ==
    ASSUME NEW s \in Seq(Op), NEW t \in Seq(Op), Balanced(s), Balanced(t), Held(t) = {}
    PROVE  Balanced(s \o t) /\ Held(s \o t) = Held(s)
<1> DEFINE u == s \o t  a == Len(s)  b == Len(t)
<1>1. a \in Nat /\ b \in Nat /\ u \in Seq(Op)
  BY Join
<1>2. /\ \A j \in 1 .. a + 1 : HeldAt(u, j) = HeldAt(s, j)
      /\ \A i \in 1 .. b + 1 : HeldAt(u, a + i) = HeldAt(t, i)
  BY HeldJoin
<1>3. \A j \in 1 .. Len(u) : \/ j \in 1 .. a /\ u[j] = s[j]
                             \/ \E i \in 1 .. b : j = a + i /\ u[j] = t[i]
  BY JoinCases
<1> HIDE DEF u
<1>4. Held(u) = Held(s)
  <2>1. 1 \in 1 .. a + 1
    BY <1>1
  <2> QED
    BY <1>2, <2>1 DEF Held
<1>5. ASSUME NEW j \in 1 .. Len(u)
      PROVE  /\ \A l \in Lock : u[j] = <<"acquire", l>> => l \in HeldAt(u, j + 1)
             /\ \A l \in Lock : u[j] = <<"release", l>> => l \notin HeldAt(u, j + 1)
             /\ u[j][1] \in {"sleep", "yield", "run"} => HeldAt(u, j) = {"ptable"}
             /\ u[j][1] = "sti" => HeldAt(u, j) = {}
  <2>1. CASE j \in 1 .. a /\ u[j] = s[j]
    <3>1. j \in 1 .. a + 1 /\ j + 1 \in 1 .. a + 1
      BY <1>1, <2>1
    <3>2. HeldAt(u, j) = HeldAt(s, j) /\ HeldAt(u, j + 1) = HeldAt(s, j + 1)
      BY <1>2, <3>1
    <3> QED
      BY <2>1, <3>2 DEF Balanced
  <2>2. ASSUME NEW i \in 1 .. b, j = a + i, u[j] = t[i]
        PROVE  /\ \A l \in Lock : u[j] = <<"acquire", l>> => l \in HeldAt(u, j + 1)
               /\ \A l \in Lock : u[j] = <<"release", l>> => l \notin HeldAt(u, j + 1)
               /\ u[j][1] \in {"sleep", "yield", "run"} => HeldAt(u, j) = {"ptable"}
               /\ u[j][1] = "sti" => HeldAt(u, j) = {}
    <3>1. i \in 1 .. b + 1 /\ i + 1 \in 1 .. b + 1 /\ j + 1 = a + (i + 1)
      BY <1>1, <2>2
    <3>2. HeldAt(u, j) = HeldAt(t, i) /\ HeldAt(u, j + 1) = HeldAt(t, i + 1)
      BY <1>2, <2>2, <3>1
    <3> QED
      BY <2>2, <3>2 DEF Balanced
  <2> QED
    BY <1>3, <2>1, <2>2
<1> QED
  BY <1>4, <1>5 DEF Balanced, u

-----------------------------------------------------------------------------
(* The code of Interrupts *)

\* Code that contains no operation but those named, ends with iret if at all,
\* and no interrupt is ended after the switch to another thread.
Only(t, names) == \A j \in 1 .. Len(t) : t[j][1] \in names
Ends(t) == \A j \in 1 .. Len(t) : t[j] = <<"iret">> <=> j = Len(t)
Early(t) == \A j, k \in 1 .. Len(t) : j < k /\ t[j] = <<"yield">> => t[k] # <<"eoi">>

\* sys_sleep() and iderw().
LEMMA SyscallCode ==
    ASSUME NEW lk \in {"ticks", "ide"}
    PROVE  /\ syscall(lk) \in Seq(Op) /\ syscall(lk) # <<>> /\ Held(syscall(lk)) = {}
           /\ Balanced(syscall(lk)) /\ Ends(syscall(lk))
           /\ Only(syscall(lk), {"acquire", "release", "sleep", "iret"})
<1> DEFINE a == << <<"acquire", lk>> >>
           z == << <<"release", lk>>, <<"iret">> >>
           s == sleep(lk)
           b == a \o s
           t == syscall(lk)
<1>1. a \in Seq(Op) /\ Len(a) = 1 /\ a[1] = <<"acquire", lk>>
  BY DEF Op, Lock
<1>2. z \in Seq(Op) /\ Len(z) = 2 /\ z[1] = <<"release", lk>> /\ z[2] = <<"iret">>
  BY DEF Op, Lock
<1>3. s \in Seq(Op) /\ Len(s) = 5 /\ s[1] = <<"acquire", "ptable">> /\ s[2] = <<"release", lk>>
      /\ s[3] = <<"sleep", lk>> /\ s[4] = <<"release", "ptable">> /\ s[5] = <<"acquire", lk>>
  BY DEF Op, Lock, sleep
<1>4. t = b \o z
  BY DEF syscall
<1> HIDE DEF a, z, s, t
<1>5. b \in Seq(Op) /\ Len(b) = 6 /\ (\A i \in 1 .. 1 : b[i] = a[i]) /\ (\A i \in 1 .. 5 : b[1 + i] = s[i])
  <2>1. /\ b \in Seq(Op) /\ Len(b) = Len(a) + Len(s)
        /\ \A i \in 1 .. Len(a) : b[i] = a[i]
        /\ \A i \in 1 .. Len(s) : b[Len(a) + i] = s[i]
    BY <1>1, <1>3, Join
  <2> HIDE DEF b
  <2> QED
    BY <1>1, <1>3, <2>1
<1> HIDE DEF b
<1>6. t \in Seq(Op) /\ Len(t) = 8 /\ (\A i \in 1 .. 6 : t[i] = b[i]) /\ (\A i \in 1 .. 2 : t[6 + i] = z[i])
  <2>1. /\ t \in Seq(Op) /\ Len(t) = Len(b) + Len(z)
        /\ \A i \in 1 .. Len(b) : t[i] = b[i]
        /\ \A i \in 1 .. Len(z) : t[Len(b) + i] = z[i]
    BY <1>2, <1>4, <1>5, Join
  <2> QED
    BY <1>2, <1>5, <2>1
<1>7. b[1] = <<"acquire", lk>> /\ b[2] = <<"acquire", "ptable">> /\ b[3] = <<"release", lk>>
      /\ b[4] = <<"sleep", lk>> /\ b[5] = <<"release", "ptable">> /\ b[6] = <<"acquire", lk>>
  BY <1>1, <1>3, <1>5
<1>8. t[1] = <<"acquire", lk>> /\ t[2] = <<"acquire", "ptable">> /\ t[3] = <<"release", lk>>
      /\ t[4] = <<"sleep", lk>> /\ t[5] = <<"release", "ptable">> /\ t[6] = <<"acquire", lk>>
      /\ t[7] = <<"release", lk>> /\ t[8] = <<"iret">>
  BY <1>2, <1>6, <1>7
<1>9. \A j \in 1 .. 8 : j \in {1, 2, 3, 4, 5, 6, 7, 8}
  OBVIOUS
<1>10. /\ HeldAt(t, 9) = {} /\ HeldAt(t, 8) = {} /\ HeldAt(t, 7) = {lk} /\ HeldAt(t, 6) = {}
       /\ HeldAt(t, 5) = {"ptable"} /\ HeldAt(t, 4) = {"ptable"} /\ HeldAt(t, 3) = {lk, "ptable"}
       /\ HeldAt(t, 2) = {lk} /\ HeldAt(t, 1) = {}
  <2> USE <1>6
  <2>0. \A j : HeldAt(t, j) \subseteq Lock
    BY DEF HeldAt
  <2>s. ASSUME NEW j \in 1 .. 8, NEW l \in Lock
        PROVE  l \in HeldAt(t, j) <=> t[j] = <<"release", l>> \/ (t[j] # <<"acquire", l>> /\ l \in HeldAt(t, j + 1))
    BY HeldStep
  <2>9. HeldAt(t, 9) = {}
    <3>1. 9 = Len(t) + 1
      BY <1>6
    <3> QED
      BY <1>6, <3>1, HeldEnd
  <2>8. HeldAt(t, 8) = {}
    BY <1>8, <2>0, <2>9, <2>s
  <2>7. HeldAt(t, 7) = {lk}
    BY <1>8, <2>0, <2>8, <2>s DEF Lock
  <2>6. HeldAt(t, 6) = {}
    BY <1>8, <2>0, <2>7, <2>s
  <2>5. HeldAt(t, 5) = {"ptable"}
    BY <1>8, <2>0, <2>6, <2>s DEF Lock
  <2>4. HeldAt(t, 4) = {"ptable"}
    BY <1>8, <2>0, <2>5, <2>s DEF Lock
  <2>3. HeldAt(t, 3) = {lk, "ptable"}
    BY <1>8, <2>0, <2>4, <2>s DEF Lock
  <2>2. HeldAt(t, 2) = {lk}
    BY <1>8, <2>0, <2>3, <2>s DEF Lock
  <2>1. HeldAt(t, 1) = {}
    BY <1>8, <2>0, <2>2, <2>s
  <2> QED
    BY <2>1, <2>2, <2>3, <2>4, <2>5, <2>6, <2>7, <2>8, <2>9
<1>11. Balanced(t)
  BY <1>6, <1>8, <1>9, <1>10 DEF Balanced
<1>12. Ends(t)
  BY <1>6, <1>8, <1>9 DEF Ends
<1>13. Only(t, {"acquire", "release", "sleep", "iret"})
  BY <1>6, <1>8, <1>9 DEF Only
<1>14. t # <<>> /\ Held(t) = {}
  BY <1>6, <1>10 DEF Held
<1> QED
  BY <1>6, <1>11, <1>12, <1>13, <1>14 DEF t

\* The part of a handler that wakes the sleepers up.
LEMMA HandlerCode ==
    ASSUME NEW lk \in {"ticks", "ide"}
    PROVE  /\ handler(lk) \in Seq(Op) /\ Len(handler(lk)) = 6 /\ handler(lk)[6] = <<"eoi">>
           /\ Held(handler(lk)) = {} /\ Balanced(handler(lk))
           /\ Only(handler(lk), {"acquire", "release", "wakeup1", "eoi"})
<1> DEFINE a == << <<"acquire", lk>> >>
           z == << <<"release", lk>>, <<"eoi">> >>
           s == wakeup(lk)
           b == a \o s
           t == handler(lk)
<1>1. a \in Seq(Op) /\ Len(a) = 1 /\ a[1] = <<"acquire", lk>>
  BY DEF Op, Lock
<1>2. z \in Seq(Op) /\ Len(z) = 2 /\ z[1] = <<"release", lk>> /\ z[2] = <<"eoi">>
  BY DEF Op, Lock
<1>3. s \in Seq(Op) /\ Len(s) = 3 /\ s[1] = <<"acquire", "ptable">> /\ s[2] = <<"wakeup1", lk>>
      /\ s[3] = <<"release", "ptable">>
  BY DEF Op, Lock, wakeup
<1>4. t = b \o z
  BY DEF handler
<1> HIDE DEF a, z, s, t
<1>5. b \in Seq(Op) /\ Len(b) = 4 /\ (\A i \in 1 .. 1 : b[i] = a[i]) /\ (\A i \in 1 .. 3 : b[1 + i] = s[i])
  <2>1. /\ b \in Seq(Op) /\ Len(b) = Len(a) + Len(s)
        /\ \A i \in 1 .. Len(a) : b[i] = a[i]
        /\ \A i \in 1 .. Len(s) : b[Len(a) + i] = s[i]
    BY <1>1, <1>3, Join
  <2> HIDE DEF b
  <2> QED
    BY <1>1, <1>3, <2>1
<1> HIDE DEF b
<1>6. t \in Seq(Op) /\ Len(t) = 6 /\ (\A i \in 1 .. 4 : t[i] = b[i]) /\ (\A i \in 1 .. 2 : t[4 + i] = z[i])
  <2>1. /\ t \in Seq(Op) /\ Len(t) = Len(b) + Len(z)
        /\ \A i \in 1 .. Len(b) : t[i] = b[i]
        /\ \A i \in 1 .. Len(z) : t[Len(b) + i] = z[i]
    BY <1>2, <1>4, <1>5, Join
  <2> QED
    BY <1>2, <1>5, <2>1
<1>7. b[1] = <<"acquire", lk>> /\ b[2] = <<"acquire", "ptable">> /\ b[3] = <<"wakeup1", lk>> /\ b[4] = <<"release", "ptable">>
  BY <1>1, <1>3, <1>5
<1>8. t[1] = <<"acquire", lk>> /\ t[2] = <<"acquire", "ptable">> /\ t[3] = <<"wakeup1", lk>>
      /\ t[4] = <<"release", "ptable">> /\ t[5] = <<"release", lk>> /\ t[6] = <<"eoi">>
  BY <1>2, <1>6, <1>7
<1>9. \A j \in 1 .. 6 : j \in {1, 2, 3, 4, 5, 6}
  OBVIOUS
<1>10. HeldAt(t, 1) = {} /\ HeldAt(t, 2) = {lk} /\ HeldAt(t, 3) = {lk, "ptable"} /\ HeldAt(t, 4) = {lk, "ptable"} /\ HeldAt(t, 5) = {lk} /\ HeldAt(t, 6) = {} /\ HeldAt(t, 7) = {}
  <2>0. \A j : HeldAt(t, j) \subseteq Lock
    BY DEF HeldAt
  <2>s. ASSUME NEW j \in 1 .. 6, NEW l \in Lock
        PROVE  l \in HeldAt(t, j) <=> t[j] = <<"release", l>> \/ (t[j] # <<"acquire", l>> /\ l \in HeldAt(t, j + 1))
    BY <1>6, HeldStep
  <2>7. HeldAt(t, 7) = {}
    <3>1. 7 = Len(t) + 1
      BY <1>6
    <3> QED
      BY <1>6, <3>1, HeldEnd
  <2>6. HeldAt(t, 6) = {}
    BY <1>8, <2>0, <2>7, <2>s DEF Lock
  <2>5. HeldAt(t, 5) = {lk}
    BY <1>8, <2>0, <2>6, <2>s DEF Lock
  <2>4. HeldAt(t, 4) = {lk, "ptable"}
    BY <1>8, <2>0, <2>5, <2>s DEF Lock
  <2>3. HeldAt(t, 3) = {lk, "ptable"}
    BY <1>8, <2>0, <2>4, <2>s DEF Lock
  <2>2. HeldAt(t, 2) = {lk}
    BY <1>8, <2>0, <2>3, <2>s DEF Lock
  <2>1. HeldAt(t, 1) = {}
    BY <1>8, <2>0, <2>2, <2>s DEF Lock
  <2> QED
    BY <2>1, <2>2, <2>3, <2>4, <2>5, <2>6, <2>7
<1>11. Balanced(t)
  BY <1>6, <1>8, <1>9, <1>10 DEF Balanced
<1>12. Only(t, {"acquire", "release", "wakeup1", "eoi"})
  BY <1>6, <1>8, <1>9 DEF Only
<1>13. Held(t) = {}
  BY <1>10 DEF Held
<1> QED
  BY <1>6, <1>8, <1>11, <1>12, <1>13 DEF t

\* Giving up the CPU, the scheduler's loop and the start of a new process.
LEMMA YieldCode ==
    /\ yield \in Seq(Op) /\ Len(yield) = 3 /\ Held(yield) = {} /\ Balanced(yield)
    /\ yield[1] = <<"acquire", "ptable">> /\ yield[2] = <<"yield">> /\ yield[3] = <<"release", "ptable">>
<1> DEFINE t == yield
<1>6. t \in Seq(Op) /\ Len(t) = 3
  BY DEF yield, Op, Lock
<1>8. t[1] = <<"acquire", "ptable">> /\ t[2] = <<"yield">> /\ t[3] = <<"release", "ptable">>
  BY DEF yield
<1> HIDE DEF t
<1>9. \A j \in 1 .. 3 : j \in {1, 2, 3}
  OBVIOUS
<1>10. HeldAt(t, 1) = {} /\ HeldAt(t, 2) = {"ptable"} /\ HeldAt(t, 3) = {"ptable"} /\ HeldAt(t, 4) = {}
  <2>0. \A j : HeldAt(t, j) \subseteq Lock
    BY DEF HeldAt
  <2>s. ASSUME NEW j \in 1 .. 3, NEW l \in Lock
        PROVE  l \in HeldAt(t, j) <=> t[j] = <<"release", l>> \/ (t[j] # <<"acquire", l>> /\ l \in HeldAt(t, j + 1))
    BY <1>6, HeldStep
  <2>4. HeldAt(t, 4) = {}
    <3>1. 4 = Len(t) + 1
      BY <1>6
    <3> QED
      BY <1>6, <3>1, HeldEnd
  <2>3. HeldAt(t, 3) = {"ptable"}
    BY <1>8, <2>0, <2>4, <2>s DEF Lock
  <2>2. HeldAt(t, 2) = {"ptable"}
    BY <1>8, <2>0, <2>3, <2>s DEF Lock
  <2>1. HeldAt(t, 1) = {}
    BY <1>8, <2>0, <2>2, <2>s DEF Lock
  <2> QED
    BY <2>1, <2>2, <2>3, <2>4
<1>11. Balanced(t)
  BY <1>6, <1>8, <1>9, <1>10 DEF Balanced
<1>12. Held(t) = {}
  BY <1>10 DEF Held
<1> QED
  BY <1>6, <1>8, <1>11, <1>12 DEF t

LEMMA SchedulerCode ==
    /\ scheduler \in Seq(Op) /\ scheduler # <<>> /\ Held(scheduler) = {} /\ Balanced(scheduler)
    /\ Only(scheduler, {"sti", "acquire", "run", "release"})
<1> DEFINE t == scheduler
<1>6. t \in Seq(Op) /\ Len(t) = 4
  BY DEF scheduler, Op, Lock
<1>8. t[1] = <<"sti">> /\ t[2] = <<"acquire", "ptable">> /\ t[3] = <<"run">> /\ t[4] = <<"release", "ptable">>
  BY DEF scheduler
<1> HIDE DEF t
<1>9. \A j \in 1 .. 4 : j \in {1, 2, 3, 4}
  OBVIOUS
<1>10. HeldAt(t, 1) = {} /\ HeldAt(t, 2) = {} /\ HeldAt(t, 3) = {"ptable"} /\ HeldAt(t, 4) = {"ptable"} /\ HeldAt(t, 5) = {}
  <2>0. \A j : HeldAt(t, j) \subseteq Lock
    BY DEF HeldAt
  <2>s. ASSUME NEW j \in 1 .. 4, NEW l \in Lock
        PROVE  l \in HeldAt(t, j) <=> t[j] = <<"release", l>> \/ (t[j] # <<"acquire", l>> /\ l \in HeldAt(t, j + 1))
    BY <1>6, HeldStep
  <2>5. HeldAt(t, 5) = {}
    <3>1. 5 = Len(t) + 1
      BY <1>6
    <3> QED
      BY <1>6, <3>1, HeldEnd
  <2>4. HeldAt(t, 4) = {"ptable"}
    BY <1>8, <2>0, <2>5, <2>s DEF Lock
  <2>3. HeldAt(t, 3) = {"ptable"}
    BY <1>8, <2>0, <2>4, <2>s DEF Lock
  <2>2. HeldAt(t, 2) = {}
    BY <1>8, <2>0, <2>3, <2>s DEF Lock
  <2>1. HeldAt(t, 1) = {}
    BY <1>8, <2>0, <2>2, <2>s DEF Lock
  <2> QED
    BY <2>1, <2>2, <2>3, <2>4, <2>5
<1>11. Balanced(t)
  BY <1>6, <1>8, <1>9, <1>10 DEF Balanced
<1>12. Held(t) = {} /\ t # <<>>
  BY <1>6, <1>10 DEF Held
<1>13. Only(t, {"sti", "acquire", "run", "release"})
  BY <1>6, <1>8, <1>9 DEF Only
<1> QED
  BY <1>6, <1>11, <1>12, <1>13 DEF t

LEMMA ForkretCode ==
    /\ forkret \in Seq(Op) /\ forkret # <<>> /\ Head(forkret) = <<"release", "ptable">>
    /\ Held(forkret) = {"ptable"} /\ Balanced(forkret) /\ Ends(forkret)
    /\ Only(forkret, {"release", "iret"})
<1> DEFINE t == forkret
<1>6. t \in Seq(Op) /\ Len(t) = 2
  BY DEF forkret, Op, Lock
<1>8. t[1] = <<"release", "ptable">> /\ t[2] = <<"iret">> /\ Head(t) = <<"release", "ptable">>
  BY DEF forkret
<1> HIDE DEF t
<1>9. \A j \in 1 .. 2 : j \in {1, 2}
  OBVIOUS
<1>10. HeldAt(t, 1) = {"ptable"} /\ HeldAt(t, 2) = {} /\ HeldAt(t, 3) = {}
  <2>0. \A j : HeldAt(t, j) \subseteq Lock
    BY DEF HeldAt
  <2>s. ASSUME NEW j \in 1 .. 2, NEW l \in Lock
        PROVE  l \in HeldAt(t, j) <=> t[j] = <<"release", l>> \/ (t[j] # <<"acquire", l>> /\ l \in HeldAt(t, j + 1))
    BY <1>6, HeldStep
  <2>3. HeldAt(t, 3) = {}
    <3>1. 3 = Len(t) + 1
      BY <1>6
    <3> QED
      BY <1>6, <3>1, HeldEnd
  <2>2. HeldAt(t, 2) = {}
    BY <1>8, <2>0, <2>3, <2>s DEF Lock
  <2>1. HeldAt(t, 1) = {"ptable"}
    BY <1>8, <2>0, <2>2, <2>s DEF Lock
  <2> QED
    BY <2>1, <2>2, <2>3
<1>11. Balanced(t)
  BY <1>6, <1>8, <1>9, <1>10 DEF Balanced
<1>12. Held(t) = {"ptable"} /\ t # <<>>
  BY <1>6, <1>10 DEF Held
<1>13. Only(t, {"release", "iret"}) /\ Ends(t)
  BY <1>6, <1>8, <1>9 DEF Only, Ends
<1> QED
  BY <1>6, <1>8, <1>11, <1>12, <1>13 DEF t

\* A single operation that has nothing to do with locks.
LEMMA SingleCode ==
    ASSUME NEW op \in {<<"eoi">>, <<"iret">>}
    PROVE  LET t == <<op>>
           IN  t \in Seq(Op) /\ Len(t) = 1 /\ t[1] = op /\ Held(t) = {} /\ Balanced(t)
<1> DEFINE t == <<op>>
<1>6. t \in Seq(Op) /\ Len(t) = 1
  BY DEF Op
<1>8. t[1] = op
  OBVIOUS
<1> HIDE DEF t
<1>9. \A j \in 1 .. 1 : j \in {1}
  OBVIOUS
<1>10. HeldAt(t, 1) = {} /\ HeldAt(t, 2) = {}
  <2>0. \A j : HeldAt(t, j) \subseteq Lock
    BY DEF HeldAt
  <2>s. ASSUME NEW j \in 1 .. 1, NEW l \in Lock
        PROVE  l \in HeldAt(t, j) <=> t[j] = <<"release", l>> \/ (t[j] # <<"acquire", l>> /\ l \in HeldAt(t, j + 1))
    BY <1>6, HeldStep
  <2>2. HeldAt(t, 2) = {}
    <3>1. 2 = Len(t) + 1
      BY <1>6
    <3> QED
      BY <1>6, <3>1, HeldEnd
  <2>1. HeldAt(t, 1) = {}
    BY <1>8, <2>0, <2>2, <2>s DEF Lock
  <2> QED
    BY <2>1, <2>2
<1>11. Balanced(t)
  BY <1>6, <1>8, <1>9, <1>10 DEF Balanced
<1>12. Held(t) = {}
  BY <1>10 DEF Held
<1> QED
  BY <1>6, <1>8, <1>11, <1>12 DEF t

\* The code of an interrupt: the CPU is given up after the end of the
\* interrupt, and only by a process.
LEMMA TrapCode ==
    ASSUME NEW c \in Processor, NEW x, NEW irq \in Irqs
    PROVE  /\ trap(c, x, irq) \in Seq(Op) /\ trap(c, x, irq) # <<>> /\ Held(trap(c, x, irq)) = {}
           /\ Balanced(trap(c, x, irq)) /\ Ends(trap(c, x, irq)) /\ Early(trap(c, x, irq))
           /\ Only(trap(c, x, irq), {"acquire", "release", "wakeup1", "yield", "eoi", "iret"})
           /\ x \notin Proc => Only(trap(c, x, irq), {"acquire", "release", "wakeup1", "eoi", "iret"})
           /\ \E k \in DOMAIN trap(c, x, irq) : trap(c, x, irq)[k] = <<"eoi">>
<1> DEFINE names == {"acquire", "release", "wakeup1", "eoi"}
           h == IF irq = "ide" THEN handler("ide") ELSE IF c = 0 THEN handler("ticks") ELSE << <<"eoi">> >>
           y == IF irq = "timer" /\ x \in Proc THEN yield ELSE <<>>
           z == << <<"iret">> >>
           t == trap(c, x, irq)
<1>1. /\ h \in Seq(Op) /\ Held(h) = {} /\ Balanced(h) /\ Only(h, names)
      /\ \E k \in 1 .. Len(h) : h[k] = <<"eoi">>
  <2>1. CASE irq = "ide"
    <3>1. h = handler("ide")
      BY <2>1
    <3> HIDE DEF h
    <3> QED
      BY <3>1, HandlerCode
  <2>2. CASE irq # "ide" /\ c = 0
    <3>1. h = handler("ticks")
      BY <2>2
    <3> HIDE DEF h
    <3> QED
      BY <3>1, HandlerCode
  <2>3. CASE irq # "ide" /\ c # 0
    <3>1. h = << <<"eoi">> >>
      BY <2>3
    <3>2. h \in Seq(Op) /\ Len(h) = 1 /\ h[1] = <<"eoi">> /\ Held(h) = {} /\ Balanced(h)
      BY <3>1, SingleCode
    <3> HIDE DEF h
    <3> QED
      BY <3>2 DEF Only
  <2> QED
    BY <2>1, <2>2, <2>3
<1>2. /\ y \in Seq(Op) /\ Held(y) = {} /\ Balanced(y) /\ Only(y, {"acquire", "yield", "release"})
      /\ x \notin Proc => y = <<>>
  <2>1. CASE irq = "timer" /\ x \in Proc
    <3>1. y = yield
      BY <2>1
    <3>2. Only(yield, {"acquire", "yield", "release"})
      <4>1. \A j \in 1 .. 3 : j \in {1, 2, 3}
        OBVIOUS
      <4> QED
        BY <4>1, YieldCode DEF Only
    <3> HIDE DEF y
    <3> QED
      BY <2>1, <3>1, <3>2, YieldCode
  <2>2. CASE ~(irq = "timer" /\ x \in Proc)
    <3>1. y = <<>>
      BY <2>2
    <3> HIDE DEF y
    <3>2. y \in Seq(Op) /\ Len(y) = 0 /\ 1 .. 0 = {} /\ \A k : k \in 1 .. 0 => FALSE
      BY <3>1
    <3> QED
      BY <3>1, <3>2 DEF Only, Balanced, Held, HeldAt
  <2> QED
    BY <2>1, <2>2
<1>3. z \in Seq(Op) /\ Len(z) = 1 /\ z[1] = <<"iret">> /\ Held(z) = {} /\ Balanced(z)
  BY SingleCode
<1>4. t = (h \o y) \o z
  <2>1. h \o <<>> = h
    BY <1>1, ConcatEmptySeq
  <2>2. CASE irq = "ide"
    BY <2>1, <2>2 DEF trap
  <2>3. CASE irq = "timer"
    BY <2>1, <2>3 DEF trap
  <2> QED
    BY <2>2, <2>3 DEF Irqs
<1> HIDE DEF h, y, z, t
<1>5. h \o y \in Seq(Op) /\ Balanced(h \o y) /\ Held(h \o y) = {} /\ t \in Seq(Op) /\ Balanced(t) /\ Held(t) = {}
  BY <1>1, <1>2, <1>3, <1>4, Join, BalancedJoin
<1> DEFINE b == h \o y  m == Len(h)  n == Len(y)
<1>6. m \in Nat /\ n \in Nat /\ Len(b) = m + n /\ Len(t) = (m + n) + 1
  <2>1. m \in Nat /\ n \in Nat /\ Len(b) = m + n
    BY <1>1, <1>2, Join
  <2>2. Len(b \o z) = Len(b) + Len(z)
    BY <1>3, <1>5, Join
  <2> QED
    BY <1>3, <1>4, <2>1, <2>2
<1>7. \A j \in 1 .. Len(b) : \/ j \in 1 .. m /\ b[j] = h[j]
                             \/ \E i \in 1 .. n : j = m + i /\ b[j] = y[i]
  BY <1>1, <1>2, JoinCases
<1>8. \A j \in 1 .. Len(t) : \/ j \in 1 .. Len(b) /\ t[j] = b[j]
                             \/ \E i \in 1 .. Len(z) : j = Len(b) + i /\ t[j] = z[i]
  <2>1. \A j \in 1 .. Len(b \o z) : \/ j \in 1 .. Len(b) /\ (b \o z)[j] = b[j]
                                    \/ \E i \in 1 .. Len(z) : j = Len(b) + i /\ (b \o z)[j] = z[i]
    BY <1>3, <1>5, JoinCases
  <2> QED
    BY <1>4, <2>1
<1>9. \E k \in 1 .. m : t[k] = <<"eoi">>
  <2>1. PICK k \in 1 .. m : h[k] = <<"eoi">>
    BY <1>1
  <2>2. b[k] = h[k]
    BY <1>1, <1>2, <2>1, Join
  <2>3. k \in 1 .. Len(b)
    BY <1>6, <2>1
  <2>4. t[k] = b[k]
    BY <1>3, <1>4, <1>5, <2>3, Join
  <2> QED
    BY <2>1, <2>2, <2>4
<1> HIDE DEF b, m, n
<1>10. ASSUME NEW j \in 1 .. Len(t)
       PROVE  \/ j \in 1 .. m /\ t[j][1] \in names
              \/ j \in (m + 1) .. (m + n) /\ x \in Proc /\ t[j][1] \in {"acquire", "yield", "release"}
              \/ j = Len(t) /\ t[j] = <<"iret">>
  <2>1. CASE j \in 1 .. Len(b) /\ t[j] = b[j] /\ j \in 1 .. m /\ b[j] = h[j]
    BY <1>1, <2>1 DEF Only, m
  <2>2. ASSUME NEW i \in 1 .. n, j = m + i, t[j] = b[j], b[j] = y[i]
        PROVE  j \in (m + 1) .. (m + n) /\ x \in Proc /\ t[j][1] \in {"acquire", "yield", "release"}
    <3>1. j \in (m + 1) .. (m + n)
      BY <1>6, <2>2
    <3>2. y # <<>>
      BY <2>2 DEF n
    <3> QED
      BY <1>2, <2>2, <3>1, <3>2 DEF Only, n
  <2>3. ASSUME NEW i \in 1 .. Len(z), j = Len(b) + i, t[j] = z[i]
        PROVE  j = Len(t) /\ t[j] = <<"iret">>
    BY <1>3, <1>6, <2>3
  <2> QED
    BY <1>7, <1>8, <2>1, <2>2, <2>3
<1>11. Ends(t)
  <2> SUFFICES ASSUME NEW j \in 1 .. Len(t) PROVE t[j] = <<"iret">> <=> j = Len(t)
    BY DEF Ends
  <2>1. t[j] = <<"iret">> => j = Len(t)
    BY <1>10
  <2>2. Len(t) \notin 1 .. m /\ Len(t) \notin (m + 1) .. (m + n)
    BY <1>6
  <2> QED
    BY <1>10, <2>1, <2>2
<1>12. Early(t)
  <2> SUFFICES ASSUME NEW j \in 1 .. Len(t), NEW k \in 1 .. Len(t), j < k, t[j] = <<"yield">>, t[k] = <<"eoi">>
               PROVE  FALSE
    BY DEF Early
  <2>1. j \in (m + 1) .. (m + n)
    BY <1>10
  <2>2. k \in 1 .. m
    BY <1>10
  <2> QED
    BY <1>6, <2>1, <2>2
<1>13. Only(t, {"acquire", "release", "wakeup1", "yield", "eoi", "iret"})
  BY <1>10 DEF Only
<1>14. x \notin Proc => Only(t, {"acquire", "release", "wakeup1", "eoi", "iret"})
  BY <1>10 DEF Only
<1>15. t # <<>> /\ \E k \in DOMAIN t : t[k] = <<"eoi">>
  <2>1. DOMAIN t = 1 .. Len(t) /\ \A k \in 1 .. m : k \in 1 .. Len(t)
    BY <1>5, <1>6
  <2> QED
    BY <1>6, <1>9, <2>1
<1> QED
  BY <1>5, <1>11, <1>12, <1>13, <1>14, <1>15 DEF t

-----------------------------------------------------------------------------
(* The inductive invariant *)

Kinds == {"user", "irq", "scheduler", "forkret"}
Frames == [kind : Kinds, todo : Seq(Op), sub : 0 .. 2, saved : BOOLEAN, intena : BOOLEAN]
Pstates == {"RUNNABLE", "RUNNING", "SLEEPING"} \X (Lock \cup {none})
OpOf(f) == Head(f.todo)[1]

\* The steps an operation has.
Subs(op) == IF op = "acquire" THEN 0 .. 2 ELSE IF op \in {"release", "sleep", "yield"} THEN 0 .. 1 ELSE {0}

\* A frame that the context x may have: the rest of the code of its kind.
Legal(x, f) ==
    /\ f \in Frames /\ f.todo # <<>> /\ Balanced(f.todo) /\ f.sub \in Subs(OpOf(f))
    /\ f.kind = "scheduler" => x \in Processor /\ Only(f.todo, {"sti", "acquire", "run", "release"})
    /\ f.kind # "scheduler" => f.saved /\ Ends(f.todo)
    /\ f.kind = "user" => x \in Proc /\ Only(f.todo, {"acquire", "release", "sleep", "iret"})
    /\ f.kind = "irq" => /\ Early(f.todo)
                         /\ Only(f.todo, {"acquire", "release", "wakeup1", "yield", "eoi", "iret"})
                         /\ x \notin Proc => Only(f.todo, {"acquire", "release", "wakeup1", "eoi", "iret"})
    /\ f.kind = "forkret" => x \in Proc /\ Only(f.todo, {"release", "iret"})

\* The locks for which a frame has disabled interrupts, those it is inside of,
\* and those that note its CPU as their holder.
Wants(f, n) == {l \in Lock : Head(f.todo) = <<"acquire", l>> /\ f.sub >= n}
Leaves(f) == {l \in Lock : Head(f.todo) = <<"release", l>> /\ f.sub = 1}
Pushed(f) == Held(f.todo) \cup Wants(f, 1)
Inside(f) == Held(f.todo) \cup Wants(f, 2)
Noted(f) == Held(f.todo) \ Leaves(f)

\* The frame has gone to the scheduler.
SwitchedOut(f) == OpOf(f) \in {"sleep", "yield"} /\ f.sub = 1

\* The stack of a context: at most one interrupt, on top of code that holds
\* nothing; that of a CPU ends in its scheduler.
ThreadOK(x, s) ==
    /\ Len(s) <= 2
    /\ \A k \in 1 .. Len(s) : Legal(x, s[k])
    /\ Len(s) = 2 => s[1].kind = "irq" /\ s[2].kind # "irq" /\ s[2].sub = 0 /\ Held(s[2].todo) = {}
    /\ x \in Processor => s # <<>> /\ s[Len(s)].kind = "scheduler"

\* A process that is not on a CPU holds ptable.lock as soon as it is, and has
\* the interrupt flag of its own code to restore.
WaitOK(s) ==
    /\ s # <<>> /\ Held(s[1].todo) = {"ptable"}
    /\ \/ /\ SwitchedOut(s[1])
          /\ s[1].kind = "user" => s[1].intena
          /\ s[1].kind = "irq" => ~s[1].intena
       \/ s[1].kind = "forkret" /\ Head(s[1].todo) = <<"release", "ptable">> /\ s[1].sub = 0

\* The registers of a CPU that executes the frame f: k is inside, n ncli, on the
\* flag, ie intena, sv the interrupt in service, nt the locks noted for it.
FrameOK(f, k, n, on, ie, sv, nt) ==
    /\ k = Inside(f) /\ n = Cardinality(Pushed(f)) /\ nt = Noted(f)
    /\ Pushed(f) # {} => ~on
    /\ f.kind = "user" => /\ Pushed(f) = {} => on
                          /\ Pushed(f) # {} /\ SwitchedOut(f) => f.intena
                          /\ Pushed(f) # {} /\ ~SwitchedOut(f) => ie
    /\ f.kind = "irq" => /\ ~on
                         /\ Pushed(f) # {} /\ SwitchedOut(f) => ~f.intena
                         /\ Pushed(f) # {} /\ ~SwitchedOut(f) => ~ie
    /\ sv # {} => f.kind = "irq" /\ \E j \in DOMAIN f.todo : f.todo[j] = <<"eoi">>
CpuOK(s, k, n, on, ie, sv, nt) ==
    /\ s = <<>> => k = {} /\ n = 0 /\ on /\ sv = {} /\ nt = {}
    /\ s # <<>> => FrameOK(s[1], k, n, on, ie, sv, nt)
NotedBy(c) == {l \in Lock : lock[l].cpu = c}

TypeInv ==
    /\ lock \in [Lock -> [locked : BOOLEAN, cpu : Processor \cup {nobody}]]
    /\ ncli \in [Processor -> Nat] /\ intena \in [Processor -> BOOLEAN] /\ IF_ \in [Processor -> BOOLEAN]
    /\ runs \in [Processor -> Processor \cup Proc]
    /\ stack \in [Processor \cup Proc -> Seq(Frames)]
    /\ pstate \in [Proc -> Pstates]
    /\ isr \in [Processor -> SUBSET Irqs] /\ inside \in [Processor -> SUBSET Lock]
    /\ irqPanicked = FALSE
Threads == \A x \in Processor \cup Proc : ThreadOK(x, stack[x])
Cpu(c) == CpuOK(stack[runs[c]], inside[c], ncli[c], IF_[c], intena[c], isr[c], NotedBy(c))
Cpus == \A c \in Processor : Cpu(c)

\* Each CPU runs its scheduler or a process of its own; its scheduler waits
\* inside the loop, and a process is RUNNING while some CPU runs it.
Switches ==
    /\ \A c \in Processor : runs[c] \in {c} \cup Proc
    /\ \A c, d \in Processor : runs[c] = runs[d] => c = d
    /\ \A c \in Processor : runs[c] # c => Len(stack[c]) = 1 /\ OpOf(stack[c][1]) = "run"
    /\ \A p \in Proc : pstate[p][1] = "RUNNING" <=> \E c \in Processor : runs[c] = p
    /\ \A p \in Proc : pstate[p][1] # "RUNNING" => WaitOK(stack[p])

\* A lock is taken while one CPU is inside.
Exclusion ==
    /\ \A l \in Lock : lock[l].locked <=> \E c \in Processor : l \in inside[c]
    /\ \A c, d \in Processor : c # d => inside[c] \cap inside[d] = {}

IrqInv == TypeInv /\ Threads /\ Cpus /\ Switches /\ Exclusion

-----------------------------------------------------------------------------
(* Frames *)

LEMMA Count ==
    ASSUME NEW S \in SUBSET Lock
    PROVE  /\ Cardinality(S) \in Nat
           /\ Cardinality(S) = 0 <=> S = {}
           /\ \A l \in Lock : l \notin S => Cardinality(S \cup {l}) = Cardinality(S) + 1
           /\ \A l \in Lock : l \in S => Cardinality(S \ {l}) = Cardinality(S) - 1
           /\ \A l \in Lock : S = {l} => Cardinality(S) = 1
<1>1. IsFiniteSet(Lock)
  <2>1. IsFiniteSet({"ptable"})
    BY FS_Singleton
  <2>2. IsFiniteSet({"ptable"} \cup {"ticks"})
    BY <2>1, FS_AddElement
  <2>3. IsFiniteSet(({"ptable"} \cup {"ticks"}) \cup {"ide"})
    BY <2>2, FS_AddElement
  <2>4. Lock = ({"ptable"} \cup {"ticks"}) \cup {"ide"}
    BY DEF Lock
  <2> QED
    BY <2>3, <2>4
<1>2. IsFiniteSet(S)
  BY <1>1, FS_Subset
<1>3. \A l \in Lock : S = {l} => Cardinality(S) = 1
  BY FS_Singleton
<1> QED
  BY <1>2, <1>3, FS_CardinalityType, FS_EmptySet, FS_AddElement, FS_RemoveElement

\* The mark of a free lock is no CPU, and no CPU is a process.
LEMMA NobodyElse ==
    nobody \notin Processor /\ \A c \in Processor : c \notin Proc
<1>1. Cardinality(Processor) \in Nat
  BY IrqAssumption, FS_CardinalityType
<1> QED
  BY <1>1, IrqAssumption DEF nobody

\* The next operation of a frame.
LEMMA NextOp ==
    ASSUME NEW x, NEW f, Legal(x, f)
    PROVE  /\ f.todo \in Seq(Op) /\ Len(f.todo) \in Nat \ {0} /\ 1 \in 1 .. Len(f.todo)
           /\ Head(f.todo) = f.todo[1] /\ Head(f.todo) \in Op
           /\ OpOf(f) \in {"acquire", "release", "wakeup1", "sleep"}
                 => Head(f.todo) = <<OpOf(f), Head(f.todo)[2]>> /\ Head(f.todo)[2] \in Lock
           /\ OpOf(f) \in {"yield", "sti", "run", "eoi", "iret"} => Head(f.todo) = <<OpOf(f)>>
<1>1. f.todo \in Seq(Op) /\ f.todo # <<>>
  BY DEF Legal, Frames
<1>2. Len(f.todo) \in Nat \ {0} /\ Head(f.todo) = f.todo[1] /\ Head(f.todo) \in Op
  BY <1>1, HeadTailProperties
<1>3. 1 \in 1 .. Len(f.todo)
  BY <1>2
<1> QED
  BY <1>1, <1>2, <1>3 DEF OpOf, Op

\* What each operation does to the locks that the frame holds.
LEMMA OpLocks ==
    ASSUME NEW x, NEW f, Legal(x, f)
    PROVE  LET h == Held(f.todo)
               n == HeldAt(f.todo, 2)
               a == Head(f.todo)[2]
           IN  /\ h \subseteq Lock /\ n \subseteq Lock
               /\ OpOf(f) = "acquire" => a \notin h /\ n = h \cup {a}
               /\ OpOf(f) = "release" => a \in h /\ n = h \ {a}
               /\ OpOf(f) \notin {"acquire", "release"} => n = h
               /\ OpOf(f) \in {"sleep", "yield", "run"} => h = {"ptable"}
               /\ OpOf(f) = "sti" => h = {}
<1> DEFINE t == f.todo
           h == Held(t)
           n == HeldAt(t, 2)
           a == Head(t)[2]
<1>1. /\ t \in Seq(Op) /\ 1 \in 1 .. Len(t) /\ Head(t) = t[1]
      /\ OpOf(f) \in {"acquire", "release", "wakeup1", "sleep"} => t[1] = <<OpOf(f), a>> /\ a \in Lock
      /\ OpOf(f) \in {"yield", "sti", "run", "eoi", "iret"} => t[1] = <<OpOf(f)>>
      /\ t[1] \in Op /\ OpOf(f) = t[1][1]
  BY NextOp DEF OpOf
<1>2. ASSUME NEW l \in Lock
      PROVE  l \in h <=> t[1] = <<"release", l>> \/ (t[1] # <<"acquire", l>> /\ l \in n)
  <2>1. 1 + 1 = 2
    OBVIOUS
  <2> QED
    BY <1>1, <2>1, HeldStep DEF Held
<1>3. /\ \A l \in Lock : t[1] = <<"acquire", l>> => l \in n
      /\ \A l \in Lock : t[1] = <<"release", l>> => l \notin n
      /\ t[1][1] \in {"sleep", "yield", "run"} => h = {"ptable"}
      /\ t[1][1] = "sti" => h = {}
  <2>1. 1 + 1 = 2 /\ Balanced(t)
    BY DEF Legal
  <2> QED
    BY <1>1, <2>1 DEF Balanced, Held
<1>4. h \subseteq Lock /\ n \subseteq Lock
  BY DEF Held, HeldAt
<1> HIDE DEF t, h, n, a
<1>5. OpOf(f) = "acquire" => a \notin h /\ n = h \cup {a}
  <2> SUFFICES ASSUME OpOf(f) = "acquire" PROVE a \notin h /\ n = h \cup {a}
    OBVIOUS
  <2>1. a \in Lock /\ t[1] = <<"acquire", a>>
    BY <1>1
  <2>2. \A l \in Lock : l # a => t[1] # <<"acquire", l>> /\ t[1] # <<"release", l>>
    BY <2>1
  <2>3. t[1] # <<"release", a>>
    BY <2>1
  <2> QED
    BY <1>2, <1>3, <1>4, <2>1, <2>2, <2>3
<1>6. OpOf(f) = "release" => a \in h /\ n = h \ {a}
  <2> SUFFICES ASSUME OpOf(f) = "release" PROVE a \in h /\ n = h \ {a}
    OBVIOUS
  <2>1. a \in Lock /\ t[1] = <<"release", a>>
    BY <1>1
  <2>2. \A l \in Lock : l # a => t[1] # <<"acquire", l>> /\ t[1] # <<"release", l>>
    BY <2>1
  <2> QED
    BY <1>2, <1>3, <1>4, <2>1, <2>2
<1>7. OpOf(f) \notin {"acquire", "release"} => n = h
  <2> SUFFICES ASSUME OpOf(f) \notin {"acquire", "release"} PROVE n = h
    OBVIOUS
  <2>1. \A l \in Lock : t[1] # <<"acquire", l>> /\ t[1] # <<"release", l>>
    BY <1>1
  <2> QED
    BY <1>2, <1>4, <2>1
<1>8. /\ OpOf(f) \in {"sleep", "yield", "run"} => h = {"ptable"}
      /\ OpOf(f) = "sti" => h = {}
  BY <1>1, <1>3
<1> QED
  BY <1>4, <1>5, <1>6, <1>7, <1>8 DEF t, h, n, a

\* The frame when its operation is done, as Next_ makes it.
Done(f) == [f EXCEPT !.todo = IF Tail(f.todo) = <<>> THEN scheduler ELSE Tail(f.todo), !.sub = 0]

\* Every operation but iret is followed by another one of the same code; the
\* scheduler starts again.
LEMMA LegalDone ==
    ASSUME NEW x, NEW f, Legal(x, f), OpOf(f) # "iret"
    PROVE  /\ Legal(x, Done(f)) /\ Done(f).kind = f.kind /\ Done(f).sub = 0 /\ Done(f).intena = f.intena
           /\ Held(Done(f).todo) = HeldAt(f.todo, 2)
           /\ \A j \in 2 .. Len(f.todo) : f.todo[j] = <<"eoi">> => \E k \in DOMAIN Done(f).todo : Done(f).todo[k] = <<"eoi">>
<1> DEFINE t == f.todo
           u == Tail(t)
           n == Len(t)
           g == Done(f)
<1>1. t \in Seq(Op) /\ n \in Nat \ {0} /\ t # <<>> /\ t[1] # <<"iret">> /\ 1 \in 1 .. n
  <2>1. t[1] # <<"iret">>
    BY NextOp DEF OpOf
  <2> QED
    BY <2>1, NextOp DEF Legal
<1>2. u \in Seq(Op) /\ Len(u) = n - 1 /\ \A k \in 1 .. n - 1 : u[k] = t[k + 1]
  BY <1>1, HeadTailProperties
<1>3. f \in Frames /\ g \in [kind : Kinds, todo : {IF u = <<>> THEN scheduler ELSE u}, sub : {0}, saved : BOOLEAN, intena : BOOLEAN]
      /\ g.kind = f.kind /\ g.saved = f.saved /\ g.intena = f.intena /\ g.sub = 0
      /\ g.todo = IF u = <<>> THEN scheduler ELSE u
  BY DEF Done, Legal, Frames
<1>4. 0 \in Subs(OpOf(g))
  BY DEF Subs
<1>5. CASE u = <<>>
  <2>1. n = 1
    <3> HIDE DEF u, n
    <3>1. Len(u) = 0
      BY <1>5
    <3> QED
      BY <1>1, <1>2, <3>1
  <2>2. f.kind = "scheduler"
    BY <1>1, <2>1 DEF Legal, Ends
  <2>3. HeldAt(t, 2) = {}
    <3>1. 2 = Len(t) + 1
      BY <2>1
    <3> QED
      BY <1>1, <3>1, HeldEnd
  <2>4. g.todo = scheduler
    BY <1>3, <1>5
  <2> HIDE DEF g, t, u, n
  <2>5. Held(g.todo) = HeldAt(t, 2)
    BY <2>3, <2>4, SchedulerCode
  <2>6. g \in Frames
    BY <1>3, <2>4, SchedulerCode DEF Frames
  <2>7. Legal(x, g)
    BY <1>3, <1>4, <2>2, <2>4, <2>6, SchedulerCode DEF Legal
  <2>8. 2 .. n = {}
    BY <2>1
  <2> QED
    BY <1>3, <2>5, <2>7, <2>8 DEF g, t, n
<1>6. CASE u # <<>>
  <2>1. g.todo = u /\ n - 1 \in Nat \ {0}
    BY <1>1, <1>2, <1>3, <1>6
  <2>2. g \in Frames
    <3> HIDE DEF g, u
    <3> QED
      BY <1>2, <1>3, <2>1 DEF Frames
  <2>3. Balanced(u)
    BY <1>1, BalancedTail DEF Legal
  <2>4. ASSUME NEW names, Only(t, names) PROVE Only(u, names)
    <3>1. \A k \in 1 .. n - 1 : k + 1 \in 1 .. n
      BY <1>1
    <3> QED
      BY <1>2, <2>4, <3>1 DEF Only
  <2>5. Ends(t) => Ends(u)
    <3>1. \A k \in 1 .. n - 1 : k + 1 \in 1 .. n /\ (k + 1 = n <=> k = n - 1)
      BY <1>1
    <3> QED
      BY <1>2, <3>1 DEF Ends
  <2>6. Early(t) => Early(u)
    <3>1. \A k \in 1 .. n - 1 : k + 1 \in 1 .. n
      BY <1>1
    <3>2. \A j, k \in 1 .. n - 1 : j < k => j + 1 < k + 1
      BY <1>1
    <3> QED
      BY <1>2, <3>1, <3>2 DEF Early
  <2>7. HeldAt(u, 1) = HeldAt(t, 2)
    <3>1. HeldAt(u, 1) = HeldAt(t, 1 + 1) /\ 1 + 1 = 2
      BY <1>1, HeldTail
    <3> QED
      BY <3>1
  <2>8. ASSUME NEW j \in 2 .. n, t[j] = <<"eoi">> PROVE \E k \in DOMAIN g.todo : g.todo[k] = <<"eoi">>
    <3>1. j - 1 \in 1 .. n - 1 /\ (j - 1) + 1 = j
      BY <1>1
    <3>2. u[j - 1] = <<"eoi">> /\ DOMAIN u = 1 .. n - 1
      BY <1>2, <2>8, <3>1
    <3> QED
      BY <2>1, <3>1, <3>2
  <2> HIDE DEF g, u
  <2>9. Legal(x, g)
    BY <1>3, <1>4, <1>6, <2>1, <2>2, <2>3, <2>4, <2>5, <2>6 DEF Legal
  <2> QED
    BY <1>3, <2>1, <2>7, <2>8, <2>9 DEF g, Held
<1> QED
  BY <1>5, <1>6

\* The next step of an operation that has more than one, and the flag that
\* sched() keeps.
LEMMA LegalSub ==
    ASSUME NEW x, NEW f, Legal(x, f), NEW n \in Subs(OpOf(f))
    PROVE  LET g == [f EXCEPT !.sub = n]
           IN  /\ Legal(x, g) /\ g.kind = f.kind /\ g.todo = f.todo /\ g.sub = n /\ OpOf(g) = OpOf(f)
               /\ g.intena = f.intena
<1> DEFINE g == [f EXCEPT !.sub = n]
<1>1. f \in Frames /\ n \in 0 .. 2
  BY DEF Legal, Subs
<1>2. /\ g \in Frames /\ g.kind = f.kind /\ g.todo = f.todo /\ g.sub = n /\ g.saved = f.saved /\ g.intena = f.intena
  BY <1>1 DEF Frames
<1> HIDE DEF g
<1>3. OpOf(g) = OpOf(f)
  BY <1>2 DEF OpOf
<1>4. Legal(x, g)
  BY <1>2, <1>3 DEF Legal
<1> QED
  BY <1>2, <1>3, <1>4 DEF g

LEMMA LegalOut ==
    ASSUME NEW x, NEW f, Legal(x, f), NEW n \in Subs(OpOf(f)),
           NEW g \in Frames, g.kind = f.kind, g.todo = f.todo, g.saved = f.saved, g.sub = n
    PROVE  Legal(x, g) /\ OpOf(g) = OpOf(f)
<1>1. OpOf(g) = OpOf(f)
  BY DEF OpOf
<1>2. Legal(x, g)
  BY <1>1 DEF Legal
<1> QED
  BY <1>1, <1>2

-----------------------------------------------------------------------------
(* Stacks *)

\* A frame more, and another frame on top.
LEMMA PushFrame ==
    ASSUME NEW s \in Seq(Frames), NEW g \in Frames
    PROVE  LET w == <<g>> \o s
           IN  /\ w \in Seq(Frames) /\ Len(w) = Len(s) + 1 /\ w # <<>> /\ w[1] = g
               /\ \A k \in 1 .. Len(s) : w[k + 1] = s[k]
<1> DEFINE h == <<g>>
           w == h \o s
           n == Len(s)
<1>1. h \in Seq(Frames) /\ Len(h) = 1 /\ h[1] = g /\ n \in Nat
  OBVIOUS
<1> HIDE DEF h
<1>2. w \in Seq(Frames) /\ Len(w) = Len(h) + n /\ \A i \in 1 .. Len(h) + n : w[i] = IF i <= Len(h) THEN h[i] ELSE s[i - Len(h)]
  BY <1>1, ConcatProperties
<1> HIDE DEF w, n
<1>3. w \in Seq(Frames) /\ Len(w) = n + 1 /\ \A i \in 1 .. n + 1 : w[i] = IF i <= 1 THEN h[i] ELSE s[i - 1]
  BY <1>1, <1>2
<1>4. w[1] = g /\ w # <<>>
  <2>1. 1 \in 1 .. n + 1 /\ Len(w) # 0
    BY <1>1, <1>3
  <2> QED
    BY <1>1, <1>3, <2>1
<1>5. ASSUME NEW k \in 1 .. n PROVE w[k + 1] = s[k]
  <2>1. k + 1 \in 1 .. n + 1 /\ ~(k + 1 <= 1) /\ (k + 1) - 1 = k
    BY <1>1
  <2> QED
    BY <1>3, <2>1
<1> QED
  BY <1>3, <1>4, <1>5 DEF w, h, n

LEMMA ReplaceFrame ==
    ASSUME NEW s \in Seq(Frames), s # <<>>, NEW g \in Frames
    PROVE  LET w == <<g>> \o Tail(s)
           IN  /\ w \in Seq(Frames) /\ Len(w) = Len(s) /\ w # <<>> /\ w[1] = g
               /\ \A k \in 2 .. Len(s) : w[k] = s[k]
<1> DEFINE r == Tail(s)
           w == <<g>> \o r
           n == Len(s)
<1>1. r \in Seq(Frames) /\ n \in Nat \ {0} /\ Len(r) = n - 1 /\ \A k \in 1 .. n - 1 : r[k] = s[k + 1]
  BY HeadTailProperties
<1> HIDE DEF r, n
<1>2. w \in Seq(Frames) /\ Len(w) = Len(r) + 1 /\ w # <<>> /\ w[1] = g /\ \A k \in 1 .. Len(r) : w[k + 1] = r[k]
  BY <1>1, PushFrame
<1> HIDE DEF w
<1>3. ASSUME NEW k \in 2 .. n PROVE w[k] = s[k]
  <2>1. k - 1 \in 1 .. n - 1 /\ (k - 1) + 1 = k
    BY <1>1
  <2> QED
    BY <1>1, <1>2, <2>1
<1> QED
  BY <1>1, <1>2, <1>3 DEF r, w, n

\* The contexts that CPUs run are known and different.
LEMMA Contexts ==
    ASSUME IrqInv, NEW c \in Processor
    PROVE  /\ runs[c] \in Processor \cup Proc /\ (runs[c] \in Processor => runs[c] = c)
           /\ stack[runs[c]] \in Seq(Frames) /\ ThreadOK(runs[c], stack[runs[c]])
           /\ Cpu(c)
           /\ \A d \in Processor \ {c} : runs[d] # runs[c] /\ (runs[d] # d => d # runs[c])
           /\ \A p \in Proc : pstate[p][1] # "RUNNING" => p # runs[c]
BY NobodyElse DEF IrqInv, TypeInv, Threads, Cpus, Switches

\* The frame that the CPU is in.
LEMMA TopFrame ==
    ASSUME IrqInv, NEW c \in Processor, stack[runs[c]] # <<>>
    PROVE  /\ Top(c) = stack[runs[c]][1] /\ Legal(runs[c], Top(c))
           /\ FrameOK(Top(c), inside[c], ncli[c], IF_[c], intena[c], isr[c], NotedBy(c))
           /\ Len(stack[runs[c]]) \in 1 .. 2
           /\ Top(c).kind \in Kinds
           /\ Top(c).kind = "scheduler" => runs[c] = c
<1> DEFINE s == stack[runs[c]]
<1>1. s \in Seq(Frames) /\ ThreadOK(runs[c], s) /\ Cpu(c) /\ s # <<>>
  BY Contexts
<1>2. Top(c) = s[1] /\ Len(s) \in Nat
  BY <1>1 DEF Top, Kstack
<1>3. Len(s) \in 1 .. 2 /\ 1 \in 1 .. Len(s)
  <2> DEFINE n == Len(s)
  <2>1. n <= 2
    BY <1>1 DEF ThreadOK
  <2>2. n # 0 /\ n \in Nat
    BY <1>1
  <2> HIDE DEF n
  <2>3. n \in 1 .. 2 /\ 1 \in 1 .. n
    BY <2>1, <2>2
  <2> QED
    BY <2>3 DEF n
<1>4. Legal(runs[c], Top(c))
  BY <1>1, <1>2, <1>3 DEF ThreadOK
<1>5. FrameOK(Top(c), inside[c], ncli[c], IF_[c], intena[c], isr[c], NotedBy(c))
  BY <1>1, <1>2 DEF Cpu, CpuOK
<1>6. Top(c).kind \in Kinds
  BY <1>4 DEF Legal, Frames
<1>7. Top(c).kind = "scheduler" => runs[c] = c
  BY <1>4, Contexts DEF Legal
<1> QED
  BY <1>2, <1>3, <1>4, <1>5, <1>6, <1>7

\* A step that only changes the top frame leaves all stacks well-formed.
LEMMA TopStep ==
    ASSUME IrqInv, NEW c \in Processor, stack[runs[c]] # <<>>,
           NEW g, Legal(runs[c], g), g.kind = Top(c).kind, InFrame(c, g)
    PROVE  /\ stack' \in [Processor \cup Proc -> Seq(Frames)] /\ Threads'
           /\ stack'[runs[c]] # <<>> /\ stack'[runs[c]][1] = g /\ Len(stack'[runs[c]]) = Len(stack[runs[c]])
           /\ \A x \in Processor \cup Proc : x # runs[c] => stack'[x] = stack[x]
<1> DEFINE y == runs[c]
           s == stack[y]
           w == <<g>> \o Tail(s)
<1>1. y \in Processor \cup Proc /\ s \in Seq(Frames) /\ ThreadOK(y, s) /\ g \in Frames /\ stack \in [Processor \cup Proc -> Seq(Frames)]
  BY Contexts DEF Legal, IrqInv, TypeInv
<1>2. /\ w \in Seq(Frames) /\ Len(w) = Len(s) /\ w # <<>> /\ w[1] = g
      /\ \A k \in 2 .. Len(s) : w[k] = s[k]
  BY <1>1, ReplaceFrame
<1>3. stack' = [stack EXCEPT ![y] = w]
  BY DEF InFrame
<1>4. Len(s) \in 1 .. 2 /\ s[1].kind = g.kind
  BY TopFrame
<1> HIDE DEF y, s, w
<1>5. ThreadOK(y, w)
  <2>1. \A k \in 1 .. Len(w) : Legal(y, w[k])
    <3>1. \A k \in 1 .. Len(s) : k = 1 \/ k \in 2 .. Len(s)
      BY <1>4
    <3> QED
      BY <1>1, <1>2, <3>1 DEF ThreadOK, y
  <2>2. Len(w) = 2 => w[1].kind = "irq" /\ w[2].kind # "irq" /\ w[2].sub = 0 /\ Held(w[2].todo) = {}
    <3> SUFFICES ASSUME Len(w) = 2
                 PROVE  w[1].kind = "irq" /\ w[2].kind # "irq" /\ w[2].sub = 0 /\ Held(w[2].todo) = {}
      OBVIOUS
    <3>1. Len(s) = 2 /\ w[1].kind = s[1].kind /\ w[2] = s[2]
      BY <1>2, <1>4
    <3> QED
      BY <1>1, <3>1 DEF ThreadOK
  <2>3. y \in Processor => w # <<>> /\ w[Len(w)].kind = "scheduler"
    <3>1. CASE Len(s) = 1
      BY <1>1, <1>2, <1>4, <3>1 DEF ThreadOK
    <3>2. CASE Len(s) = 2
      BY <1>1, <1>2, <1>4, <3>2 DEF ThreadOK
    <3> QED
      BY <1>4, <3>1, <3>2
  <2> QED
    BY <1>2, <1>4, <2>1, <2>2, <2>3 DEF ThreadOK
<1>6. stack'[y] = w /\ \A x \in Processor \cup Proc : x # y => stack'[x] = stack[x]
  BY <1>1, <1>3
<1>7. stack' \in [Processor \cup Proc -> Seq(Frames)]
  BY <1>1, <1>2, <1>3
<1>8. Threads'
  BY <1>5, <1>6 DEF Threads, IrqInv
<1> QED
  BY <1>2, <1>6, <1>7, <1>8 DEF y, s

\* A CPU whose registers and stack stay keeps its part of the invariant.
LEMMA OtherCpus ==
    ASSUME IrqInv, NEW c \in Processor,
           \A x \in Processor \cup Proc : x # runs[c] => stack'[x] = stack[x],
           NEW d \in Processor, d # c, runs'[d] = runs[d],
           inside'[d] = inside[d], ncli'[d] = ncli[d], IF_'[d] = IF_[d], intena'[d] = intena[d], isr'[d] = isr[d],
           NotedBy(d)' = NotedBy(d)
    PROVE  Cpu(d)'
<1>1. runs[d] \in Processor \cup Proc /\ runs[d] # runs[c] /\ Cpu(d)
  BY Contexts
<1>2. stack'[runs'[d]] = stack[runs[d]]
  BY <1>1
<1> QED
  BY <1>1, <1>2 DEF Cpu

\* The same for who runs where.
LEMMA SwitchesKept ==
    ASSUME IrqInv, NEW c \in Processor, runs' = runs,
           \A x \in Processor \cup Proc : x # runs[c] => stack'[x] = stack[x],
           \A p \in Proc : pstate'[p][1] = "RUNNING" <=> pstate[p][1] = "RUNNING"
    PROVE  Switches'
<1>1. ASSUME NEW d \in Processor, runs[d] # d
      PROVE  Len(stack'[d]) = 1 /\ OpOf(stack'[d][1]) = "run"
  <2>1. d # runs[c]
    BY <1>1, Contexts, NobodyElse
  <2> QED
    BY <1>1, <2>1 DEF IrqInv, Switches
<1>2. ASSUME NEW p \in Proc, pstate'[p][1] # "RUNNING"
      PROVE  WaitOK(stack'[p])
  <2>1. p # runs[c]
    BY <1>2, Contexts
  <2> QED
    BY <1>2, <2>1 DEF IrqInv, Switches
<1> QED
  BY <1>1, <1>2 DEF IrqInv, Switches

\* A step of one CPU within its top frame keeps the invariant when its own
\* registers fit the new frame.
LEMMA Assemble ==
    ASSUME IrqInv, NEW c \in Processor, stack[runs[c]] # <<>>,
           NEW g, Legal(runs[c], g), g.kind = Top(c).kind, InFrame(c, g),
           runs' = runs, irqPanicked' = FALSE,
           lock' \in [Lock -> [locked : BOOLEAN, cpu : Processor \cup {nobody}]],
           ncli' \in [Processor -> Nat], intena' \in [Processor -> BOOLEAN], IF_' \in [Processor -> BOOLEAN],
           pstate' \in [Proc -> Pstates], isr' \in [Processor -> SUBSET Irqs], inside' \in [Processor -> SUBSET Lock],
           \A p \in Proc : pstate'[p][1] = "RUNNING" <=> pstate[p][1] = "RUNNING",
           \A d \in Processor : d # c => /\ inside'[d] = inside[d] /\ ncli'[d] = ncli[d] /\ IF_'[d] = IF_[d]
                                   /\ intena'[d] = intena[d] /\ isr'[d] = isr[d] /\ NotedBy(d)' = NotedBy(d),
           FrameOK(g, inside'[c], ncli'[c], IF_'[c], intena'[c], isr'[c], NotedBy(c)'),
           Exclusion'
    PROVE  IrqInv'
<1>1. /\ stack' \in [Processor \cup Proc -> Seq(Frames)] /\ Threads'
      /\ stack'[runs[c]] # <<>> /\ stack'[runs[c]][1] = g
      /\ \A x \in Processor \cup Proc : x # runs[c] => stack'[x] = stack[x]
  BY TopStep
<1>2. TypeInv'
  BY <1>1 DEF IrqInv, TypeInv
<1>3. Cpu(c)'
  BY <1>1 DEF Cpu, CpuOK
<1>4. ASSUME NEW d \in Processor, d # c PROVE Cpu(d)'
  BY <1>1, <1>4, OtherCpus
<1>5. Switches'
  BY <1>1, SwitchesKept
<1> QED
  BY <1>1, <1>2, <1>3, <1>4, <1>5 DEF IrqInv, Cpus

-----------------------------------------------------------------------------
(* What a frame holds at each step of an operation *)

LEMMA FrameSets ==
    ASSUME NEW x, NEW f, Legal(x, f)
    PROVE  LET h == Held(f.todo)
               a == Head(f.todo)[2]
           IN  /\ h \subseteq Lock
               /\ f.sub = 0 => Pushed(f) = h /\ Inside(f) = h /\ Noted(f) = h
               /\ OpOf(f) = "acquire" /\ f.sub = 1 => Pushed(f) = h \cup {a} /\ Inside(f) = h /\ Noted(f) = h
               /\ OpOf(f) = "acquire" /\ f.sub = 2 => Pushed(f) = h \cup {a} /\ Inside(f) = h \cup {a} /\ Noted(f) = h
               /\ OpOf(f) = "release" /\ f.sub = 1 => Pushed(f) = h /\ Inside(f) = h /\ Noted(f) = h \ {a}
               /\ OpOf(f) \notin {"acquire", "release"} => Pushed(f) = h /\ Inside(f) = h /\ Noted(f) = h
<1> DEFINE h == Held(f.todo)
           a == Head(f.todo)[2]
           o == Head(f.todo)
<1>1. h \subseteq Lock
  BY OpLocks
<1>2. OpOf(f) = "acquire" => a \in Lock /\ \A l \in Lock : (o = <<"acquire", l>> <=> l = a) /\ o # <<"release", l>>
  BY NextOp
<1>3. OpOf(f) = "release" => a \in Lock /\ \A l \in Lock : (o = <<"release", l>> <=> l = a) /\ o # <<"acquire", l>>
  BY NextOp
<1>4. OpOf(f) \notin {"acquire", "release"} => \A l \in Lock : o # <<"release", l>> /\ o # <<"acquire", l>>
  BY DEF OpOf
<1> HIDE DEF h, a
<1>5. f.sub = 0 => Pushed(f) = h /\ Inside(f) = h /\ Noted(f) = h
  BY DEF Pushed, Inside, Noted, Wants, Leaves, h
<1>6. OpOf(f) = "acquire" /\ f.sub = 1 => Pushed(f) = h \cup {a} /\ Inside(f) = h /\ Noted(f) = h
  BY <1>2 DEF Pushed, Inside, Noted, Wants, Leaves, h
<1>7. OpOf(f) = "acquire" /\ f.sub = 2 => Pushed(f) = h \cup {a} /\ Inside(f) = h \cup {a} /\ Noted(f) = h
  BY <1>2 DEF Pushed, Inside, Noted, Wants, Leaves, h
<1>8. OpOf(f) = "release" /\ f.sub = 1 => Pushed(f) = h /\ Inside(f) = h /\ Noted(f) = h \ {a}
  BY <1>3 DEF Pushed, Inside, Noted, Wants, Leaves, h
<1>9. OpOf(f) \notin {"acquire", "release"} => Pushed(f) = h /\ Inside(f) = h /\ Noted(f) = h
  BY <1>4 DEF Pushed, Inside, Noted, Wants, Leaves, h
<1> QED
  BY <1>1, <1>5, <1>6, <1>7, <1>8, <1>9 DEF h, a

\* A CPU that is at an operation has a frame.
LEMMA AtFrame ==
    ASSUME IrqInv, NEW c \in Processor, NEW op, NEW sub, At(c, op, sub)
    PROVE  /\ stack[runs[c]] # <<>> /\ Legal(runs[c], Top(c)) /\ OpOf(Top(c)) = op /\ Top(c).sub = sub
           /\ Arg(c) = Head(Top(c).todo)[2]
           /\ FrameOK(Top(c), inside[c], ncli[c], IF_[c], intena[c], isr[c], NotedBy(c))
           /\ Held(Top(c).todo) \subseteq Lock /\ Top(c).todo[1][1] = op /\ 1 \in 1 .. Len(Top(c).todo)
<1>1. stack[runs[c]] # <<>> /\ OpOf(Top(c)) = op /\ Top(c).sub = sub
  BY DEF At, Kstack, OpOf
<1>2. Legal(runs[c], Top(c)) /\ FrameOK(Top(c), inside[c], ncli[c], IF_[c], intena[c], isr[c], NotedBy(c))
  BY <1>1, TopFrame
<1>3. Held(Top(c).todo) \subseteq Lock
  BY <1>2, FrameSets
<1>4. Top(c).todo[1][1] = op /\ 1 \in 1 .. Len(Top(c).todo)
  BY <1>1, <1>2, NextOp DEF OpOf
<1> QED
  BY <1>1, <1>2, <1>3, <1>4 DEF Arg

\* The kinds of frames that have an operation.
LEMMA OpKinds ==
    ASSUME NEW x, NEW f, Legal(x, f)
    PROVE  /\ OpOf(f) = "sleep" => f.kind = "user" /\ x \in Proc
           /\ OpOf(f) = "yield" => f.kind = "irq" /\ x \in Proc
           /\ OpOf(f) \in {"run", "sti"} => f.kind = "scheduler" /\ x \in Processor
           /\ OpOf(f) = "iret" => f.kind # "scheduler"
           /\ OpOf(f) = "eoi" => f.kind = "irq"
<1>1. f.kind \in Kinds /\ OpOf(f) = f.todo[1][1] /\ 1 \in 1 .. Len(f.todo)
  BY NextOp DEF Legal, Frames, OpOf
<1>2. \A names : Only(f.todo, names) => OpOf(f) \in names
  BY <1>1 DEF Only
<1> QED
  BY <1>1, <1>2 DEF Legal, Kinds

\* An interrupt in service is ended later in the code, unless this is its end.
LEMMA StillServed ==
    ASSUME IrqInv, NEW c \in Processor, NEW op, NEW sub, At(c, op, sub), op \notin {"iret", "eoi"}, isr[c] # {}
    PROVE  Top(c).kind = "irq" /\ \E k \in DOMAIN Done(Top(c)).todo : Done(Top(c)).todo[k] = <<"eoi">>
<1> DEFINE f == Top(c)
<1>1. Legal(runs[c], f) /\ OpOf(f) = op /\ FrameOK(f, inside[c], ncli[c], IF_[c], intena[c], isr[c], NotedBy(c))
  BY AtFrame
<1>2. f.todo \in Seq(Op) /\ Len(f.todo) \in Nat \ {0} /\ Head(f.todo) = f.todo[1]
  BY <1>1, NextOp
<1> HIDE DEF f
<1>3. f.kind = "irq" /\ \E j \in DOMAIN f.todo : f.todo[j] = <<"eoi">>
  BY <1>1 DEF FrameOK
<1>4. PICK j \in 1 .. Len(f.todo) : f.todo[j] = <<"eoi">>
  BY <1>2, <1>3
<1>5. j # 1
  BY <1>1, <1>2, <1>4 DEF OpOf
<1>6. j \in 2 .. Len(f.todo)
  BY <1>2, <1>4, <1>5
<1>7. op # "iret"
  OBVIOUS
<1> QED
  BY <1>1, <1>3, <1>4, <1>6, <1>7, LegalDone DEF f

-----------------------------------------------------------------------------
(* Every step keeps the invariant *)

LEMMA AcquireKeeps ==
    ASSUME IrqInv, NEW c \in Processor, acquire(c)
    PROVE  IrqInv'
<1> DEFINE f == Top(c)
           a == Arg(c)
           g == [f EXCEPT !.sub = 1]
<1>1. /\ At(c, "acquire", 0) /\ stack[runs[c]] # <<>> /\ Legal(runs[c], f) /\ OpOf(f) = "acquire" /\ f.sub = 0
      /\ a = Head(f.todo)[2] /\ FrameOK(f, inside[c], ncli[c], IF_[c], intena[c], isr[c], NotedBy(c))
      /\ Held(f.todo) \subseteq Lock
  BY AtFrame DEF acquire
<1>2. a \in Lock /\ a \notin Held(f.todo)
  BY <1>1, NextOp, OpLocks
<1>3. Pushed(f) = Held(f.todo) /\ Inside(f) = Held(f.todo) /\ Noted(f) = Held(f.todo)
  BY <1>1, FrameSets
<1>4. ~holding(c, a)
  BY <1>1, <1>2, <1>3 DEF holding, FrameOK, NotedBy
<1>5. /\ pushcli(c) /\ InFrame(c, g) /\ UNCHANGED <<lock, runs, pstate, isr, inside, irqPanicked>>
  BY <1>4 DEF acquire, Step
<1>6. 1 \in Subs(OpOf(f))
  BY <1>1 DEF Subs
<1>7. Legal(runs[c], g) /\ g.kind = f.kind /\ g.todo = f.todo /\ g.sub = 1 /\ OpOf(g) = OpOf(f)
  BY <1>1, <1>6, LegalSub
<1> HIDE DEF g
<1>8. Pushed(g) = Held(f.todo) \cup {a} /\ Inside(g) = Held(f.todo) /\ Noted(g) = Held(f.todo)
  BY <1>1, <1>7, FrameSets
<1>9. Cardinality(Pushed(g)) = ncli[c] + 1 /\ (ncli[c] = 0 <=> Pushed(f) = {})
  BY <1>1, <1>2, <1>3, <1>8, Count DEF FrameOK
<1>10. TypeInv
  BY DEF IrqInv
<1>11. /\ ncli' = [ncli EXCEPT ![c] = @ + 1] /\ IF_' = [IF_ EXCEPT ![c] = FALSE]
       /\ intena' = IF ncli[c] = 0 THEN [intena EXCEPT ![c] = IF_[c]] ELSE intena
  BY <1>5 DEF pushcli
<1>12. /\ ncli' \in [Processor -> Nat] /\ IF_' \in [Processor -> BOOLEAN] /\ intena' \in [Processor -> BOOLEAN]
       /\ ncli'[c] = ncli[c] + 1 /\ ~IF_'[c]
       /\ intena'[c] <=> IF ncli[c] = 0 THEN IF_[c] ELSE intena[c]
       /\ \A d \in Processor : d # c => ncli'[d] = ncli[d] /\ IF_'[d] = IF_[d] /\ intena'[d] = intena[d]
  BY <1>10, <1>11 DEF TypeInv
<1>13. \A d : NotedBy(d)' = NotedBy(d)
  BY <1>5 DEF NotedBy
<1>14. FrameOK(g, inside'[c], ncli'[c], IF_'[c], intena'[c], isr'[c], NotedBy(c)')
  <2>1. inside'[c] = Inside(g) /\ ncli'[c] = Cardinality(Pushed(g)) /\ NotedBy(c)' = Noted(g) /\ ~IF_'[c]
    BY <1>1, <1>3, <1>5, <1>8, <1>9, <1>12, <1>13 DEF FrameOK
  <2>2. ~SwitchedOut(f) /\ ~SwitchedOut(g) /\ Pushed(g) # {}
    BY <1>1, <1>7, <1>8 DEF SwitchedOut
  <2>3. f.kind = "user" => intena'[c]
    BY <1>1, <1>9, <1>12, <2>2 DEF FrameOK
  <2>4. f.kind = "irq" => ~intena'[c]
    BY <1>1, <1>9, <1>12, <2>2 DEF FrameOK
  <2>5. isr'[c] # {} => g.kind = "irq" /\ \E j \in DOMAIN g.todo : g.todo[j] = <<"eoi">>
    BY <1>1, <1>5, <1>7 DEF FrameOK
  <2> QED
    BY <1>7, <2>1, <2>2, <2>3, <2>4, <2>5 DEF FrameOK
<1>15. Exclusion'
  BY <1>5 DEF IrqInv, Exclusion
<1> HIDE DEF f
<1> QED
  BY <1>1, <1>5, <1>7, <1>10, <1>12, <1>13, <1>14, <1>15, Assemble DEF TypeInv, f

LEMMA XchgKeeps ==
    ASSUME IrqInv, NEW c \in Processor, xchg(c)
    PROVE  IrqInv'
<1> DEFINE f == Top(c)
           a == Arg(c)
           g == [f EXCEPT !.sub = 2]
<1>1. /\ At(c, "acquire", 1) /\ stack[runs[c]] # <<>> /\ Legal(runs[c], f) /\ OpOf(f) = "acquire" /\ f.sub = 1
      /\ a = Head(f.todo)[2] /\ FrameOK(f, inside[c], ncli[c], IF_[c], intena[c], isr[c], NotedBy(c))
      /\ Held(f.todo) \subseteq Lock
  BY AtFrame DEF xchg
<1>2. a \in Lock /\ a \notin Held(f.todo)
  BY <1>1, NextOp, OpLocks
<1>3. Pushed(f) = Held(f.todo) \cup {a} /\ Inside(f) = Held(f.todo) /\ Noted(f) = Held(f.todo)
  BY <1>1, FrameSets
<1>4. /\ ~lock[a].locked /\ lock' = [lock EXCEPT ![a].locked = TRUE]
      /\ inside' = [inside EXCEPT ![c] = @ \cup {a}] /\ InFrame(c, g)
      /\ UNCHANGED <<ncli, intena, IF_, runs, pstate, isr, irqPanicked>>
  BY DEF xchg, Step, Free
<1>5. 2 \in Subs(OpOf(f))
  BY <1>1 DEF Subs
<1>6. Legal(runs[c], g) /\ g.kind = f.kind /\ g.todo = f.todo /\ g.sub = 2 /\ OpOf(g) = OpOf(f)
  BY <1>1, <1>5, LegalSub
<1> HIDE DEF g
<1>7. Pushed(g) = Held(f.todo) \cup {a} /\ Inside(g) = Held(f.todo) \cup {a} /\ Noted(g) = Held(f.todo)
  BY <1>1, <1>6, FrameSets
<1>8. TypeInv /\ Exclusion
  BY DEF IrqInv
<1>9. /\ lock' \in [Lock -> [locked : BOOLEAN, cpu : Processor \cup {nobody}]]
      /\ \A l \in Lock : lock'[l].cpu = lock[l].cpu /\ (l # a => lock'[l].locked = lock[l].locked)
      /\ lock'[a].locked
  BY <1>2, <1>4, <1>8 DEF TypeInv
<1>10. /\ inside' \in [Processor -> SUBSET Lock] /\ inside'[c] = inside[c] \cup {a}
       /\ \A d \in Processor : d # c => inside'[d] = inside[d]
  BY <1>2, <1>4, <1>8 DEF TypeInv
<1>11. \A d : NotedBy(d)' = NotedBy(d)
  BY <1>9 DEF NotedBy
<1>12. FrameOK(g, inside'[c], ncli'[c], IF_'[c], intena'[c], isr'[c], NotedBy(c)')
  <2>1. ~SwitchedOut(f) /\ ~SwitchedOut(g)
    BY <1>1, <1>6 DEF SwitchedOut
  <2> QED
    BY <1>1, <1>3, <1>4, <1>6, <1>7, <1>10, <1>11, <2>1 DEF FrameOK
<1>13. Exclusion'
  <2>1. \A d \in Processor : a \notin inside[d]
    BY <1>2, <1>4, <1>8 DEF Exclusion
  <2>2. ASSUME NEW l \in Lock PROVE lock'[l].locked <=> \E d \in Processor : l \in inside'[d]
    BY <1>8, <1>9, <1>10 DEF Exclusion
  <2>3. ASSUME NEW d \in Processor, NEW e \in Processor, d # e PROVE inside'[d] \cap inside'[e] = {}
    BY <1>8, <1>10, <2>1, <2>3 DEF Exclusion
  <2> QED
    BY <2>2, <2>3 DEF Exclusion
<1> HIDE DEF f
<1> QED
  BY <1>1, <1>4, <1>6, <1>8, <1>9, <1>10, <1>11, <1>12, <1>13, Assemble DEF TypeInv, f

LEMMA AcquiredKeeps ==
    ASSUME IrqInv, NEW c \in Processor, acquired(c)
    PROVE  IrqInv'
<1> DEFINE f == Top(c)
           a == Arg(c)
           g == Done(f)
<1>1. /\ At(c, "acquire", 2) /\ stack[runs[c]] # <<>> /\ Legal(runs[c], f) /\ OpOf(f) = "acquire" /\ f.sub = 2
      /\ a = Head(f.todo)[2] /\ FrameOK(f, inside[c], ncli[c], IF_[c], intena[c], isr[c], NotedBy(c))
      /\ Held(f.todo) \subseteq Lock
  BY AtFrame DEF acquired
<1>2. a \in Lock /\ HeldAt(f.todo, 2) = Held(f.todo) \cup {a}
  BY <1>1, NextOp, OpLocks
<1>3. Pushed(f) = Held(f.todo) \cup {a} /\ Inside(f) = Held(f.todo) \cup {a} /\ Noted(f) = Held(f.todo)
  BY <1>1, FrameSets
<1>4. /\ lock' = [lock EXCEPT ![a].cpu = c] /\ InFrame(c, g)
      /\ UNCHANGED <<ncli, intena, IF_, runs, pstate, isr, inside, irqPanicked>>
  BY DEF acquired, Next_, Done
<1>5. Legal(runs[c], g) /\ g.kind = f.kind /\ g.sub = 0 /\ Held(g.todo) = Held(f.todo) \cup {a}
  BY <1>1, <1>2, LegalDone
<1>6. isr[c] # {} => g.kind = "irq" /\ \E k \in DOMAIN g.todo : g.todo[k] = <<"eoi">>
  BY <1>1, <1>5, StillServed
<1> HIDE DEF g
<1>7. Pushed(g) = Held(g.todo) /\ Inside(g) = Held(g.todo) /\ Noted(g) = Held(g.todo)
  BY <1>5, FrameSets
<1>8. TypeInv /\ Exclusion
  BY DEF IrqInv
<1>9. /\ lock' \in [Lock -> [locked : BOOLEAN, cpu : Processor \cup {nobody}]]
      /\ \A l \in Lock : lock'[l].locked = lock[l].locked /\ (l # a => lock'[l].cpu = lock[l].cpu)
      /\ lock'[a].cpu = c
  BY <1>2, <1>4, <1>8 DEF TypeInv
<1>10. ASSUME NEW d \in Processor, d # c PROVE NotedBy(d)' = NotedBy(d)
  <2>1. lock[a].cpu # d
    <3>1. lock[a].locked /\ a \in inside[c]
      BY <1>1, <1>2, <1>3, <1>8 DEF FrameOK, Exclusion
    <3>2. a \notin inside[d]
      BY <1>8, <1>10, <3>1 DEF Exclusion
    <3>3. Cpu(d)
      BY Contexts
    <3>4. NotedBy(d) \subseteq inside[d]
      <4>1. CASE stack[runs[d]] = <<>>
        BY <3>3, <4>1 DEF Cpu, CpuOK
      <4>2. CASE stack[runs[d]] # <<>>
        BY <3>3, <4>2 DEF Cpu, CpuOK, FrameOK, Noted, Inside
      <4> QED
        BY <4>1, <4>2
    <3> QED
      BY <1>2, <3>2, <3>4 DEF NotedBy
  <2> QED
    BY <1>2, <1>9, <1>10, <2>1 DEF NotedBy
<1>11. NotedBy(c)' = NotedBy(c) \cup {a}
  BY <1>2, <1>9 DEF NotedBy
<1>12. FrameOK(g, inside'[c], ncli'[c], IF_'[c], intena'[c], isr'[c], NotedBy(c)')
  <2>1. ~SwitchedOut(f) /\ ~SwitchedOut(g)
    BY <1>1, <1>5 DEF SwitchedOut
  <2> QED
    BY <1>1, <1>3, <1>4, <1>5, <1>6, <1>7, <1>11, <2>1 DEF FrameOK
<1>13. Exclusion'
  BY <1>4, <1>8, <1>9 DEF Exclusion
<1> HIDE DEF f
<1> QED
  BY <1>1, <1>4, <1>5, <1>8, <1>9, <1>10, <1>12, <1>13, Assemble DEF TypeInv, f

LEMMA ReleaseKeeps ==
    ASSUME IrqInv, NEW c \in Processor, release(c)
    PROVE  IrqInv'
<1> DEFINE f == Top(c)
           a == Arg(c)
           g == [f EXCEPT !.sub = 1]
<1>1. /\ At(c, "release", 0) /\ stack[runs[c]] # <<>> /\ Legal(runs[c], f) /\ OpOf(f) = "release" /\ f.sub = 0
      /\ a = Head(f.todo)[2] /\ FrameOK(f, inside[c], ncli[c], IF_[c], intena[c], isr[c], NotedBy(c))
      /\ Held(f.todo) \subseteq Lock
  BY AtFrame DEF release
<1>2. a \in Lock /\ a \in Held(f.todo)
  BY <1>1, NextOp, OpLocks
<1>3. Pushed(f) = Held(f.todo) /\ Inside(f) = Held(f.todo) /\ Noted(f) = Held(f.todo)
  BY <1>1, FrameSets
<1>4. TypeInv /\ Exclusion
  BY DEF IrqInv
<1>5. holding(c, a)
  BY <1>1, <1>2, <1>3, <1>4 DEF holding, FrameOK, NotedBy, Exclusion
<1>6. /\ lock' = [lock EXCEPT ![a].cpu = nobody] /\ InFrame(c, g)
      /\ UNCHANGED <<ncli, intena, IF_, runs, pstate, isr, inside, irqPanicked>>
  BY <1>5 DEF release, Step, Unnoted
<1>7. 1 \in Subs(OpOf(f))
  BY <1>1 DEF Subs
<1>8. Legal(runs[c], g) /\ g.kind = f.kind /\ g.todo = f.todo /\ g.sub = 1 /\ OpOf(g) = OpOf(f)
  BY <1>1, <1>7, LegalSub
<1> HIDE DEF g
<1>9. Pushed(g) = Held(f.todo) /\ Inside(g) = Held(f.todo) /\ Noted(g) = Held(f.todo) \ {a}
  BY <1>1, <1>8, FrameSets
<1>10. /\ lock' \in [Lock -> [locked : BOOLEAN, cpu : Processor \cup {nobody}]]
       /\ \A l \in Lock : lock'[l].locked = lock[l].locked /\ (l # a => lock'[l].cpu = lock[l].cpu)
       /\ lock'[a].cpu = nobody /\ lock[a].cpu = c
  BY <1>2, <1>4, <1>5, <1>6 DEF TypeInv, holding
<1>11. \A d \in Processor : d # c => NotedBy(d)' = NotedBy(d)
  BY <1>2, <1>10, NobodyElse DEF NotedBy
<1>12. NotedBy(c)' = NotedBy(c) \ {a}
  BY <1>2, <1>10, NobodyElse DEF NotedBy
<1>13. FrameOK(g, inside'[c], ncli'[c], IF_'[c], intena'[c], isr'[c], NotedBy(c)')
  <2>1. ~SwitchedOut(f) /\ ~SwitchedOut(g)
    BY <1>1, <1>8 DEF SwitchedOut
  <2> QED
    BY <1>1, <1>3, <1>6, <1>8, <1>9, <1>12, <2>1 DEF FrameOK
<1>14. Exclusion'
  BY <1>4, <1>6, <1>10 DEF Exclusion
<1> HIDE DEF f
<1> QED
  BY <1>1, <1>4, <1>6, <1>8, <1>10, <1>11, <1>13, <1>14, Assemble DEF TypeInv, f

LEMMA ReleasedKeeps ==
    ASSUME IrqInv, NEW c \in Processor, released(c)
    PROVE  IrqInv'
<1> DEFINE f == Top(c)
           a == Arg(c)
           g == Done(f)
<1>1. /\ At(c, "release", 1) /\ stack[runs[c]] # <<>> /\ Legal(runs[c], f) /\ OpOf(f) = "release" /\ f.sub = 1
      /\ a = Head(f.todo)[2] /\ FrameOK(f, inside[c], ncli[c], IF_[c], intena[c], isr[c], NotedBy(c))
      /\ Held(f.todo) \subseteq Lock
  BY AtFrame DEF released
<1>2. a \in Lock /\ a \in Held(f.todo) /\ HeldAt(f.todo, 2) = Held(f.todo) \ {a}
  BY <1>1, NextOp, OpLocks
<1>3. Pushed(f) = Held(f.todo) /\ Inside(f) = Held(f.todo) /\ Noted(f) = Held(f.todo) \ {a}
  BY <1>1, FrameSets
<1>4. TypeInv /\ Exclusion
  BY DEF IrqInv
<1>5. Legal(runs[c], g) /\ g.kind = f.kind /\ g.sub = 0 /\ Held(g.todo) = Held(f.todo) \ {a}
  BY <1>1, <1>2, LegalDone
<1>6. isr[c] # {} => g.kind = "irq" /\ \E k \in DOMAIN g.todo : g.todo[k] = <<"eoi">>
  BY <1>1, <1>5, StillServed
<1>7. g = Next_(c)
  BY DEF Next_, Done
<1> HIDE DEF g
<1>8. Pushed(g) = Held(g.todo) /\ Inside(g) = Held(g.todo) /\ Noted(g) = Held(g.todo)
  BY <1>5, FrameSets
<1>9. /\ ncli[c] \in Nat \ {0} /\ ~IF_[c] /\ Cardinality(Pushed(g)) = ncli[c] - 1
      /\ ncli[c] = 1 <=> Pushed(g) = {}
  <2>1. Pushed(f) \in SUBSET Lock /\ a \in Pushed(f) /\ Pushed(g) = Pushed(f) \ {a} /\ Pushed(g) \in SUBSET Lock
    BY <1>1, <1>2, <1>3, <1>5, <1>8
  <2>2. ncli[c] = Cardinality(Pushed(f)) /\ ~IF_[c]
    BY <1>1, <2>1 DEF FrameOK
  <2>3. /\ Cardinality(Pushed(f)) \in Nat /\ Cardinality(Pushed(f)) # 0
        /\ Cardinality(Pushed(g)) = Cardinality(Pushed(f)) - 1
    BY <1>2, <2>1, Count
  <2>4. Cardinality(Pushed(g)) = 0 <=> Pushed(g) = {}
    BY <2>1, Count
  <2> QED
    BY <2>2, <2>3, <2>4
<1>10. /\ lock' = [lock EXCEPT ![a].locked = FALSE] /\ inside' = [inside EXCEPT ![c] = @ \ {a}]
       /\ popcli(c) /\ InFrame(c, g) /\ UNCHANGED <<intena, runs, pstate, isr, irqPanicked>>
  BY <1>7, <1>9 DEF released
<1>11. /\ ncli' = [ncli EXCEPT ![c] = @ - 1] /\ IF_' = [IF_ EXCEPT ![c] = ncli[c] = 1 /\ intena[c]]
  BY <1>10 DEF popcli
<1>12. /\ ncli' \in [Processor -> Nat] /\ IF_' \in [Processor -> BOOLEAN]
       /\ ncli'[c] = ncli[c] - 1 /\ (IF_'[c] <=> ncli[c] = 1 /\ intena[c])
       /\ \A d \in Processor : d # c => ncli'[d] = ncli[d] /\ IF_'[d] = IF_[d]
  BY <1>4, <1>9, <1>11 DEF TypeInv
<1>13. /\ lock' \in [Lock -> [locked : BOOLEAN, cpu : Processor \cup {nobody}]]
       /\ \A l \in Lock : lock'[l].cpu = lock[l].cpu /\ (l # a => lock'[l].locked = lock[l].locked)
       /\ ~lock'[a].locked
  <2>1. lock' = [lock EXCEPT ![a].locked = FALSE]
    BY <1>10
  <2> HIDE DEF a, f
  <2>2. \A l \in Lock : l # a => lock'[l] = lock[l]
    BY <1>4, <2>1 DEF TypeInv
  <2>3. lock[a] \in [locked : BOOLEAN, cpu : Processor \cup {nobody}] /\ lock'[a] = [lock[a] EXCEPT !.locked = FALSE]
    BY <1>2, <1>4, <2>1 DEF TypeInv
  <2>4. lock'[a] \in [locked : BOOLEAN, cpu : Processor \cup {nobody}] /\ lock'[a].cpu = lock[a].cpu /\ ~lock'[a].locked
    BY <2>3
  <2>5. lock' \in [Lock -> [locked : BOOLEAN, cpu : Processor \cup {nobody}]]
    BY <1>2, <1>4, <2>1, <2>4 DEF TypeInv
  <2> QED
    BY <2>2, <2>4, <2>5
<1>14. /\ inside' \in [Processor -> SUBSET Lock] /\ inside'[c] = inside[c] \ {a} /\ a \in inside[c]
       /\ \A d \in Processor : d # c => inside'[d] = inside[d]
  BY <1>1, <1>2, <1>3, <1>4, <1>10 DEF TypeInv, FrameOK
<1>15. \A d : NotedBy(d)' = NotedBy(d)
  BY <1>13 DEF NotedBy
<1>16. FrameOK(g, inside'[c], ncli'[c], IF_'[c], intena'[c], isr'[c], NotedBy(c)')
  <2>1. ~SwitchedOut(f) /\ ~SwitchedOut(g) /\ Pushed(f) # {}
    BY <1>1, <1>2, <1>3, <1>5 DEF SwitchedOut
  <2>2. inside'[c] = Inside(g) /\ ncli'[c] = Cardinality(Pushed(g)) /\ NotedBy(c)' = Noted(g)
    BY <1>1, <1>3, <1>5, <1>8, <1>9, <1>12, <1>14, <1>15 DEF FrameOK
  <2>3. Pushed(g) # {} => ~IF_'[c]
    BY <1>9, <1>12
  <2>4. f.kind = "user" => intena'[c] /\ (Pushed(g) = {} => IF_'[c])
    BY <1>1, <1>9, <1>10, <1>12, <2>1 DEF FrameOK
  <2>5. f.kind = "irq" => ~intena'[c] /\ ~IF_'[c]
    BY <1>1, <1>9, <1>10, <1>12, <2>1 DEF FrameOK
  <2> QED
    BY <1>5, <1>6, <1>10, <2>1, <2>2, <2>3, <2>4, <2>5 DEF FrameOK
<1>17. InFrame(c, g) /\ runs' = runs /\ intena' = intena /\ pstate' = pstate /\ isr' = isr /\ irqPanicked' = irqPanicked
  BY <1>10
<1>18. Exclusion'
  <2>1. \A d \in Processor : d # c => a \notin inside[d]
    BY <1>2, <1>4, <1>14 DEF Exclusion
  <2>2. ASSUME NEW l \in Lock PROVE lock'[l].locked <=> \E d \in Processor : l \in inside'[d]
    <3>1. CASE l = a
      BY <1>13, <1>14, <2>1, <3>1
    <3>2. CASE l # a
      BY <1>4, <1>13, <1>14, <3>2 DEF Exclusion
    <3> QED
      BY <3>1, <3>2
  <2>3. ASSUME NEW d \in Processor, NEW e \in Processor, d # e PROVE inside'[d] \cap inside'[e] = {}
    BY <1>4, <1>14, <2>3 DEF Exclusion
  <2> QED
    BY <2>2, <2>3 DEF Exclusion
<1>19. /\ irqPanicked' = FALSE /\ intena' \in [Processor -> BOOLEAN] /\ pstate' \in [Proc -> Pstates] /\ isr' \in [Processor -> SUBSET Irqs]
       /\ \A p \in Proc : pstate'[p][1] = "RUNNING" <=> pstate[p][1] = "RUNNING"
  BY <1>4, <1>17 DEF TypeInv
<1>20. \A d \in Processor : d # c => /\ inside'[d] = inside[d] /\ ncli'[d] = ncli[d] /\ IF_'[d] = IF_[d]
                              /\ intena'[d] = intena[d] /\ isr'[d] = isr[d] /\ NotedBy(d)' = NotedBy(d)
  BY <1>12, <1>14, <1>15, <1>17
<1>21. inside' \in [Processor -> SUBSET Lock] /\ g.kind = Top(c).kind
  BY <1>5, <1>14 DEF f
<1>22. /\ stack[runs[c]] # <<>> /\ Legal(runs[c], g) /\ InFrame(c, g) /\ runs' = runs
       /\ lock' \in [Lock -> [locked : BOOLEAN, cpu : Processor \cup {nobody}]]
       /\ ncli' \in [Processor -> Nat] /\ IF_' \in [Processor -> BOOLEAN]
  BY <1>1, <1>5, <1>12, <1>13, <1>17
<1> HIDE DEF f, a
<1> QED
  BY <1>16, <1>18, <1>19, <1>20, <1>21, <1>22, Assemble

\* The operations that touch no lock and leave ncli alone.
LEMMA PlainKeeps ==
    ASSUME IrqInv, NEW c \in Processor, NEW op, NEW sub, At(c, op, sub),
           op \notin {"acquire", "release", "iret"}, InFrame(c, Next_(c)),
           UNCHANGED <<lock, ncli, runs, inside, irqPanicked>>,
           \A d \in Processor : d # c => IF_'[d] = IF_[d] /\ intena'[d] = intena[d] /\ isr'[d] = isr[d],
           intena' \in [Processor -> BOOLEAN], IF_' \in [Processor -> BOOLEAN],
           pstate' \in [Proc -> Pstates], isr' \in [Processor -> SUBSET Irqs],
           \A p \in Proc : pstate'[p][1] = "RUNNING" <=> pstate[p][1] = "RUNNING",
           Top(c).kind \in {"user", "irq"} => /\ IF_'[c] = IF_[c]
                                              /\ intena'[c] = IF sub = 1 THEN Top(c).intena ELSE intena[c],
           Pushed(Top(c)) # {} => ~IF_'[c],
           isr'[c] = {} \/ (isr'[c] = isr[c] /\ op # "eoi"),
           sub = 1 => op \in {"sleep", "yield"}
    PROVE  IrqInv'
<1> DEFINE f == Top(c)
           g == Done(f)
<1>1. /\ stack[runs[c]] # <<>> /\ Legal(runs[c], f) /\ OpOf(f) = op /\ f.sub = sub
      /\ FrameOK(f, inside[c], ncli[c], IF_[c], intena[c], isr[c], NotedBy(c))
      /\ Held(f.todo) \subseteq Lock
  BY AtFrame
<1>2. HeldAt(f.todo, 2) = Held(f.todo) /\ Pushed(f) = Held(f.todo) /\ Inside(f) = Held(f.todo) /\ Noted(f) = Held(f.todo)
  BY <1>1, OpLocks, FrameSets
<1>3. Legal(runs[c], g) /\ g.kind = f.kind /\ g.sub = 0 /\ Held(g.todo) = Held(f.todo)
  BY <1>1, <1>2, LegalDone
<1>4. isr'[c] # {} => g.kind = "irq" /\ \E k \in DOMAIN g.todo : g.todo[k] = <<"eoi">>
  BY <1>3, StillServed
<1>5. InFrame(c, g)
  BY DEF Next_, Done
<1> HIDE DEF g
<1>6. Pushed(g) = Held(g.todo) /\ Inside(g) = Held(g.todo) /\ Noted(g) = Held(g.todo)
  BY <1>3, FrameSets
<1>7. \A d : NotedBy(d)' = NotedBy(d)
  BY DEF NotedBy
<1>8. FrameOK(g, inside'[c], ncli'[c], IF_'[c], intena'[c], isr'[c], NotedBy(c)')
  <2>1. ~SwitchedOut(g) /\ (SwitchedOut(f) <=> sub = 1)
    BY <1>1, <1>3 DEF SwitchedOut
  <2>2. inside'[c] = Inside(g) /\ ncli'[c] = Cardinality(Pushed(g)) /\ NotedBy(c)' = Noted(g)
    BY <1>1, <1>2, <1>3, <1>6, <1>7 DEF FrameOK
  <2>3. f.kind = "user" => (Pushed(g) = {} => IF_'[c]) /\ (Pushed(g) # {} => intena'[c])
    BY <1>1, <1>2, <1>3, <1>6, <2>1 DEF FrameOK
  <2>4. f.kind = "irq" => ~IF_'[c] /\ (Pushed(g) # {} => ~intena'[c])
    BY <1>1, <1>2, <1>3, <1>6, <2>1 DEF FrameOK
  <2> QED
    BY <1>2, <1>3, <1>4, <1>6, <2>1, <2>2, <2>3, <2>4 DEF FrameOK
<1>9. Exclusion'
  BY DEF IrqInv, Exclusion
<1> HIDE DEF f
<1> QED
  BY <1>1, <1>3, <1>5, <1>7, <1>8, <1>9, Assemble DEF IrqInv, TypeInv, f

LEMMA WakeupKeeps ==
    ASSUME IrqInv, NEW c \in Processor, wakeup1(c)
    PROVE  IrqInv'
<1>1. /\ At(c, "wakeup1", 0) /\ InFrame(c, Next_(c)) /\ UNCHANGED <<lock, ncli, intena, IF_, runs, isr, inside, irqPanicked>>
      /\ pstate' = [p \in Proc |-> IF pstate[p] = <<"SLEEPING", Arg(c)>> THEN <<"RUNNABLE", none>> ELSE pstate[p]]
  BY DEF wakeup1
<1>2. FrameOK(Top(c), inside[c], ncli[c], IF_[c], intena[c], isr[c], NotedBy(c))
  BY <1>1, AtFrame
<1>3. TypeInv
  BY DEF IrqInv
<1>4. /\ pstate' \in [Proc -> Pstates]
      /\ \A p \in Proc : pstate'[p][1] = "RUNNING" <=> pstate[p][1] = "RUNNING"
  BY <1>1, <1>3 DEF TypeInv, Pstates
<1>5. Pushed(Top(c)) # {} => ~IF_'[c]
  BY <1>1, <1>2 DEF FrameOK
<1>6. intena' \in [Processor -> BOOLEAN] /\ IF_' \in [Processor -> BOOLEAN] /\ isr' \in [Processor -> SUBSET Irqs]
  BY <1>1, <1>3 DEF TypeInv
<1> QED
  BY <1>1, <1>4, <1>5, <1>6, PlainKeeps

LEMMA ReschedKeeps ==
    ASSUME IrqInv, NEW c \in Processor, resched(c)
    PROVE  IrqInv'
<1>1. /\ InFrame(c, Next_(c)) /\ UNCHANGED <<lock, ncli, IF_, runs, pstate, isr, inside, irqPanicked>>
      /\ intena' = [intena EXCEPT ![c] = Top(c).intena]
  BY DEF resched, Restored
<1>2. TypeInv
  BY DEF IrqInv
<1>3. ASSUME NEW op \in {"sleep", "yield"}, At(c, op, 1)
      PROVE  IrqInv'
  <2>1. FrameOK(Top(c), inside[c], ncli[c], IF_[c], intena[c], isr[c], NotedBy(c)) /\ Legal(runs[c], Top(c))
    BY <1>3, AtFrame
  <2>2. Top(c).intena \in BOOLEAN
    BY <2>1 DEF Legal, Frames
  <2>3. intena' \in [Processor -> BOOLEAN] /\ intena'[c] = Top(c).intena /\ \A d \in Processor : d # c => intena'[d] = intena[d]
    BY <1>1, <1>2, <2>2 DEF TypeInv
  <2>4. Pushed(Top(c)) # {} => ~IF_'[c]
    BY <1>1, <2>1 DEF FrameOK
  <2>5. /\ IF_' \in [Processor -> BOOLEAN] /\ isr' \in [Processor -> SUBSET Irqs] /\ pstate' \in [Proc -> Pstates]
        /\ op \notin {"acquire", "release", "iret"} /\ op # "eoi"
    BY <1>1, <1>2 DEF TypeInv
  <2> QED
    BY <1>1, <1>3, <2>3, <2>4, <2>5, PlainKeeps
<1> QED
  BY <1>3 DEF resched

LEMMA StiKeeps ==
    ASSUME IrqInv, NEW c \in Processor, sti(c)
    PROVE  IrqInv'
<1>1. /\ At(c, "sti", 0) /\ InFrame(c, Next_(c)) /\ UNCHANGED <<lock, ncli, intena, runs, pstate, isr, inside, irqPanicked>>
      /\ IF_' = [IF_ EXCEPT ![c] = TRUE]
  BY DEF sti
<1>2. Legal(runs[c], Top(c)) /\ OpOf(Top(c)) = "sti" /\ Top(c).sub = 0
  BY <1>1, AtFrame
<1>3. Pushed(Top(c)) = {} /\ Top(c).kind = "scheduler"
  BY <1>2, FrameSets, OpLocks, OpKinds
<1>4. TypeInv
  BY DEF IrqInv
<1>5. IF_' \in [Processor -> BOOLEAN] /\ \A d \in Processor : d # c => IF_'[d] = IF_[d]
  BY <1>1, <1>4 DEF TypeInv
<1>6. intena' \in [Processor -> BOOLEAN] /\ isr' \in [Processor -> SUBSET Irqs] /\ pstate' \in [Proc -> Pstates]
  BY <1>1, <1>4 DEF TypeInv
<1>7. /\ UNCHANGED <<lock, ncli, runs, inside, irqPanicked>> /\ intena' = intena /\ isr' = isr /\ pstate' = pstate
      /\ At(c, "sti", 0) /\ InFrame(c, Next_(c))
  BY <1>1
<1>8. Top(c).kind \notin {"user", "irq"} /\ ~(Pushed(Top(c)) # {})
  BY <1>3
<1> QED
  BY <1>5, <1>6, <1>7, <1>8, PlainKeeps

LEMMA EoiKeeps ==
    ASSUME IrqInv, NEW c \in Processor, eoi(c)
    PROVE  IrqInv'
<1>1. /\ At(c, "eoi", 0) /\ InFrame(c, Next_(c)) /\ UNCHANGED <<lock, ncli, intena, IF_, runs, pstate, inside, irqPanicked>>
      /\ isr' = [isr EXCEPT ![c] = {}]
  BY DEF eoi
<1>2. FrameOK(Top(c), inside[c], ncli[c], IF_[c], intena[c], isr[c], NotedBy(c))
  BY <1>1, AtFrame
<1>3. TypeInv
  BY DEF IrqInv
<1>4. isr' \in [Processor -> SUBSET Irqs] /\ isr'[c] = {} /\ \A d \in Processor : d # c => isr'[d] = isr[d]
  BY <1>1, <1>3 DEF TypeInv
<1>5. Pushed(Top(c)) # {} => ~IF_'[c]
  BY <1>1, <1>2 DEF FrameOK
<1>6. intena' \in [Processor -> BOOLEAN] /\ IF_' \in [Processor -> BOOLEAN] /\ pstate' \in [Proc -> Pstates]
  BY <1>1, <1>3 DEF TypeInv
<1> QED
  BY <1>1, <1>4, <1>5, <1>6, PlainKeeps

\* The search of the scheduler found no process to run.
LEMMA SearchedKeeps ==
    ASSUME IrqInv, NEW c \in Processor, At(c, "run", 0), InFrame(c, Next_(c)),
           UNCHANGED <<lock, ncli, intena, IF_, runs, pstate, isr, inside, irqPanicked>>
    PROVE  IrqInv'
<1>1. FrameOK(Top(c), inside[c], ncli[c], IF_[c], intena[c], isr[c], NotedBy(c))
  BY AtFrame
<1>2. TypeInv
  BY DEF IrqInv
<1>3. Pushed(Top(c)) # {} => ~IF_'[c]
  BY <1>1 DEF FrameOK
<1>4. intena' \in [Processor -> BOOLEAN] /\ IF_' \in [Processor -> BOOLEAN] /\ pstate' \in [Proc -> Pstates] /\ isr' \in [Processor -> SUBSET Irqs]
  BY <1>2 DEF TypeInv
<1> QED
  BY <1>3, <1>4, PlainKeeps

\* A process that is not running goes on, on the CPU whose scheduler found it.
LEMMA SwitchIn ==
    ASSUME IrqInv, NEW c \in Processor, At(c, "run", 0), NEW p \in Proc, pstate[p][1] = "RUNNABLE",
           pstate' = [pstate EXCEPT ![p] = <<"RUNNING", none>>], runs' = [runs EXCEPT ![c] = p],
           UNCHANGED <<lock, ncli, intena, IF_, stack, isr, inside, irqPanicked>>
    PROVE  IrqInv'
<1> DEFINE f == Top(c)
           g == stack[p][1]
<1>1. /\ stack[runs[c]] # <<>> /\ Legal(runs[c], f) /\ OpOf(f) = "run" /\ f.sub = 0
      /\ FrameOK(f, inside[c], ncli[c], IF_[c], intena[c], isr[c], NotedBy(c))
  BY AtFrame
<1>2. f.kind = "scheduler" /\ runs[c] = c /\ Held(f.todo) = {"ptable"} /\ f = stack[c][1] /\ Len(stack[c]) \in 1 .. 2
  BY <1>1, OpKinds, OpLocks, TopFrame
<1>3. Pushed(f) = {"ptable"} /\ Inside(f) = {"ptable"} /\ Noted(f) = {"ptable"}
  BY <1>1, <1>2, FrameSets
<1>4. inside[c] = {"ptable"} /\ ncli[c] = 1 /\ ~IF_[c] /\ isr[c] = {} /\ NotedBy(c) = {"ptable"}
  <2>1. Cardinality({"ptable"}) = 1
    BY Count DEF Lock
  <2> QED
    BY <1>1, <1>2, <1>3, <2>1 DEF FrameOK
<1>5. WaitOK(stack[p]) /\ ThreadOK(p, stack[p]) /\ stack[p] \in Seq(Frames)
  BY DEF IrqInv, Switches, Threads, TypeInv
<1>6. stack[p] # <<>> /\ Legal(p, g) /\ Held(g.todo) = {"ptable"}
  <2>1. stack[p] # <<>> /\ Held(g.todo) = {"ptable"}
    BY <1>5 DEF WaitOK
  <2>2. Len(stack[p]) \in Nat \ {0}
    BY <1>5, <2>1
  <2>3. 1 \in 1 .. Len(stack[p])
    BY <2>2
  <2> QED
    BY <1>5, <2>1, <2>3 DEF ThreadOK
<1>7. g.sub = 0 \/ OpOf(g) \notin {"acquire", "release"}
  BY <1>5 DEF WaitOK, SwitchedOut
<1>8. Pushed(g) = {"ptable"} /\ Inside(g) = {"ptable"} /\ Noted(g) = {"ptable"}
  BY <1>6, <1>7, FrameSets
<1>9. FrameOK(g, {"ptable"}, 1, IF_[c], intena[c], {}, {"ptable"})
  <2>1. Cardinality({"ptable"}) = 1
    BY Count DEF Lock
  <2>2. (g.kind = "user" => SwitchedOut(g) /\ g.intena) /\ (g.kind = "irq" => SwitchedOut(g) /\ ~g.intena)
    BY <1>5 DEF WaitOK
  <2> QED
    BY <1>4, <1>8, <2>1, <2>2 DEF FrameOK
<1>10. TypeInv /\ Switches
  BY DEF IrqInv
<1>11. \A d : NotedBy(d)' = NotedBy(d)
  BY DEF NotedBy
<1>12. runs'[c] = p /\ \A d \in Processor : d # c => runs'[d] = runs[d]
  BY <1>10 DEF TypeInv
<1>13. TypeInv'
  BY <1>10 DEF TypeInv, Pstates
<1>14. Threads'
  BY DEF IrqInv, Threads
<1>15. Cpu(c)'
  <2>1. stack'[runs'[c]] = stack[p] /\ NotedBy(c)' = {"ptable"}
    BY <1>4, <1>11, <1>12
  <2>2. inside'[c] = {"ptable"} /\ ncli'[c] = 1 /\ IF_'[c] = IF_[c] /\ intena'[c] = intena[c] /\ isr'[c] = {}
    BY <1>4
  <2> QED
    BY <1>6, <1>9, <2>1, <2>2 DEF Cpu, CpuOK
<1>16. ASSUME NEW d \in Processor, d # c PROVE Cpu(d)'
  <2>1. Cpu(d)
    BY DEF IrqInv, Cpus
  <2> QED
    BY <1>11, <1>12, <1>16, <2>1 DEF Cpu
<1>17. Switches'
  <2>1. \A d \in Processor : runs'[d] \in {d} \cup Proc
    BY <1>10, <1>12 DEF Switches
  <2>2. \A d \in Processor : runs[d] # p
    BY <1>10 DEF Switches
  <2>3. \A d, e \in Processor : runs'[d] = runs'[e] => d = e
    BY <1>10, <1>12, <2>2 DEF Switches
  <2>4. Len(stack[c]) = 1
    <3>1. Len(stack[c]) # 2
      BY <1>2 DEF IrqInv, Threads, ThreadOK
    <3> QED
      BY <1>2, <3>1
  <2>5. ASSUME NEW d \in Processor, runs'[d] # d PROVE Len(stack'[d]) = 1 /\ OpOf(stack'[d][1]) = "run"
    <3>1. CASE d = c
      BY <1>1, <1>2, <2>4, <3>1
    <3>2. CASE d # c
      BY <1>10, <1>12, <2>5, <3>2 DEF Switches
    <3> QED
      BY <3>1, <3>2
  <2>6. pstate'[p][1] = "RUNNING" /\ \A q \in Proc : q # p => pstate'[q] = pstate[q]
    BY <1>10 DEF TypeInv
  <2>7. ASSUME NEW q \in Proc PROVE pstate'[q][1] = "RUNNING" <=> \E d \in Processor : runs'[d] = q
    <3>1. CASE q = p
      BY <1>12, <2>6, <3>1
    <3>2. CASE q # p
      <4>1. runs[c] # q
        BY <1>2, NobodyElse
      <4> QED
        BY <1>10, <1>12, <2>6, <3>2, <4>1 DEF Switches
    <3> QED
      BY <3>1, <3>2
  <2>8. ASSUME NEW q \in Proc, pstate'[q][1] # "RUNNING" PROVE WaitOK(stack'[q])
    BY <1>10, <2>6, <2>8 DEF Switches
  <2> QED
    BY <2>1, <2>3, <2>5, <2>7, <2>8 DEF Switches
<1>18. Exclusion'
  BY DEF IrqInv, Exclusion
<1> QED
  BY <1>13, <1>14, <1>15, <1>16, <1>17, <1>18 DEF IrqInv, Cpus

LEMMA RunKeeps ==
    ASSUME IrqInv, NEW c \in Processor, run(c)
    PROVE  IrqInv'
<1>1. At(c, "run", 0) /\ UNCHANGED <<lock, ncli, intena, IF_, isr, inside, irqPanicked>>
  BY DEF run
<1>2. CASE InFrame(c, Next_(c)) /\ UNCHANGED <<pstate, runs>>
  BY <1>1, <1>2, SearchedKeeps
<1>3. ASSUME NEW p \in Proc, pstate[p][1] = "RUNNABLE", pstate' = [pstate EXCEPT ![p] = <<"RUNNING", none>>],
             runs' = [runs EXCEPT ![c] = p], UNCHANGED stack
      PROVE  IrqInv'
  BY <1>1, <1>3, SwitchIn
<1> QED
  BY <1>2, <1>3 DEF run

\* A process gives up its CPU with ptable.lock held, which the scheduler of the
\* CPU takes over; the checks of sched() find nothing.
LEMMA SwitchOut ==
    ASSUME IrqInv, NEW c \in Processor, NEW op \in {"sleep", "yield"}, At(c, op, 0),
           NEW st \in Pstates, st[1] # "RUNNING", sched(c, st)
    PROVE  IrqInv'
<1> DEFINE f == Top(c)
           p == runs[c]
           g == [f EXCEPT !.intena = intena[c], !.sub = 1]
           h == stack[c][1]
<1>1. /\ stack[p] # <<>> /\ Legal(p, f) /\ OpOf(f) = op /\ f.sub = 0
      /\ FrameOK(f, inside[c], ncli[c], IF_[c], intena[c], isr[c], NotedBy(c))
  BY AtFrame
<1>2. p \in Proc /\ Held(f.todo) = {"ptable"} /\ (op = "sleep" => f.kind = "user") /\ (op = "yield" => f.kind = "irq")
  BY <1>1, OpKinds, OpLocks
<1>3. Pushed(f) = {"ptable"} /\ Inside(f) = {"ptable"} /\ Noted(f) = {"ptable"}
  BY <1>1, <1>2, FrameSets
<1>4. Cardinality({"ptable"}) = 1 /\ "ptable" \in Lock
  BY Count DEF Lock
<1>5. inside[c] = {"ptable"} /\ ncli[c] = 1 /\ ~IF_[c] /\ NotedBy(c) = {"ptable"}
  BY <1>1, <1>3, <1>4 DEF FrameOK
<1>6. isr[c] = {}
  <2>1. CASE op = "sleep"
    BY <1>1, <1>2, <2>1 DEF FrameOK
  <2>2. CASE op = "yield"
    <3> SUFFICES ASSUME isr[c] # {} PROVE FALSE
      OBVIOUS
    <3>1. f.todo \in Seq(Op) /\ 1 \in 1 .. Len(f.todo) /\ f.todo[1] = <<"yield">> /\ Len(f.todo) \in Nat
      BY <1>1, <2>2, NextOp
    <3>2. Early(f.todo)
      BY <1>1, <1>2, <2>2 DEF Legal
    <3>3. \E j \in DOMAIN f.todo : f.todo[j] = <<"eoi">>
      BY <1>1 DEF FrameOK
    <3> HIDE DEF f
    <3>4. PICK j \in 1 .. Len(f.todo) : f.todo[j] = <<"eoi">>
      BY <3>1, <3>3
    <3>5. j # 1
      BY <3>1, <3>4
    <3>6. 1 < j
      BY <3>1, <3>4, <3>5
    <3> QED
      BY <3>1, <3>2, <3>4, <3>6 DEF Early
  <2> QED
    BY <2>1, <2>2
<1>7. TypeInv /\ Switches /\ Exclusion /\ Threads
  BY DEF IrqInv
<1>8. holding(c, "ptable")
  BY <1>4, <1>5, <1>7 DEF holding, NotedBy, Exclusion
<1>9. /\ pstate' = [pstate EXCEPT ![p] = st] /\ InFrame(c, g) /\ runs' = [runs EXCEPT ![c] = c]
      /\ UNCHANGED <<lock, ncli, intena, IF_, isr, inside, irqPanicked>>
  BY <1>5, <1>8 DEF sched
<1>10. 1 \in Subs(OpOf(f)) /\ intena[c] \in BOOLEAN
  BY <1>1, <1>7 DEF Subs, TypeInv
<1>11. Legal(p, g) /\ g.kind = f.kind /\ g.todo = f.todo /\ g.sub = 1 /\ OpOf(g) = op /\ g.intena = intena[c]
  <2>1. f \in Frames
    BY <1>1 DEF Legal
  <2>2. /\ g \in Frames /\ g.kind = f.kind /\ g.todo = f.todo /\ g.saved = f.saved
        /\ g.sub = 1 /\ g.intena = intena[c]
    <3>1. 1 \in 0 .. 2 /\ intena[c] \in BOOLEAN
      BY <1>10
    <3> HIDE DEF f
    <3> QED
      BY <2>1, <3>1, Zenon DEF Frames
  <2> HIDE DEF g
  <2> QED
    BY <1>1, <1>10, <2>2, LegalOut
<1> HIDE DEF g
<1>12. /\ stack' \in [Processor \cup Proc -> Seq(Frames)] /\ Threads' /\ stack'[p] # <<>> /\ stack'[p][1] = g
       /\ \A x \in Processor \cup Proc : x # p => stack'[x] = stack[x]
  BY <1>1, <1>9, <1>11, TopStep
<1>13. WaitOK(stack'[p])
  <2>1. (f.kind = "user" => intena[c]) /\ (f.kind = "irq" => ~intena[c])
    BY <1>1, <1>3 DEF FrameOK, SwitchedOut
  <2> QED
    BY <1>2, <1>11, <1>12, <2>1 DEF WaitOK, SwitchedOut
<1>14. runs'[c] = c /\ (\A d \in Processor : d # c => runs'[d] = runs[d]) /\ p # c
  BY <1>2, <1>7, <1>9, NobodyElse DEF TypeInv
<1>15. stack[c] # <<>> /\ Legal(c, h) /\ OpOf(h) = "run" /\ stack'[c] = stack[c]
  <2>1. Len(stack[c]) = 1 /\ OpOf(h) = "run" /\ stack'[c] = stack[c]
    BY <1>7, <1>12, <1>14 DEF Switches
  <2>2. 1 \in 1 .. Len(stack[c]) /\ ThreadOK(c, stack[c])
    BY <1>7, <2>1 DEF Threads
  <2> QED
    BY <2>1, <2>2 DEF ThreadOK
<1>16. h.kind = "scheduler" /\ Pushed(h) = {"ptable"} /\ Inside(h) = {"ptable"} /\ Noted(h) = {"ptable"}
  <2>1. h.kind = "scheduler" /\ Held(h.todo) = {"ptable"}
    BY <1>15, OpKinds, OpLocks
  <2> QED
    BY <1>15, <2>1, FrameSets
<1>17. FrameOK(h, inside[c], ncli[c], IF_[c], intena[c], isr[c], NotedBy(c))
  BY <1>4, <1>5, <1>6, <1>16 DEF FrameOK
<1>18. \A d : NotedBy(d)' = NotedBy(d)
  BY <1>9 DEF NotedBy
<1>19. Cpu(c)'
  <2>1. stack'[runs'[c]] = stack[c] /\ NotedBy(c)' = NotedBy(c)
    BY <1>14, <1>15, <1>18
  <2>2. inside'[c] = inside[c] /\ ncli'[c] = ncli[c] /\ IF_'[c] = IF_[c] /\ intena'[c] = intena[c] /\ isr'[c] = isr[c]
    BY <1>9
  <2> QED
    BY <1>15, <1>17, <2>1, <2>2 DEF Cpu, CpuOK
<1>20. ASSUME NEW d \in Processor, d # c PROVE Cpu(d)'
  BY <1>9, <1>12, <1>14, <1>18, <1>20, OtherCpus
<1>21. TypeInv'
  BY <1>7, <1>9, <1>12 DEF TypeInv
<1>22. Switches'
  <2>1. \A d \in Processor : runs'[d] \in {d} \cup Proc
    BY <1>7, <1>14 DEF Switches
  <2>2. \A d \in Processor : d # c => runs[d] # c
    BY <1>7, NobodyElse DEF Switches
  <2>3. \A d, e \in Processor : runs'[d] = runs'[e] => d = e
    BY <1>7, <1>14, <2>2 DEF Switches
  <2>4. ASSUME NEW d \in Processor, runs'[d] # d PROVE Len(stack'[d]) = 1 /\ OpOf(stack'[d][1]) = "run"
    <3>1. d # c /\ d # p
      BY <1>2, <1>14, <2>4, NobodyElse
    <3> QED
      BY <1>7, <1>12, <1>14, <2>4, <3>1 DEF Switches
  <2>5. pstate'[p] = st /\ \A q \in Proc : q # p => pstate'[q] = pstate[q]
    BY <1>2, <1>7, <1>9 DEF TypeInv
  <2>6. ASSUME NEW q \in Proc PROVE pstate'[q][1] = "RUNNING" <=> \E d \in Processor : runs'[d] = q
    <3>1. c # q
      BY NobodyElse
    <3>2. CASE q = p
      <4>1. \A d \in Processor : d # c => runs[d] # p
        BY <1>7 DEF Switches
      <4> QED
        BY <1>14, <2>5, <3>1, <3>2, <4>1
    <3>3. CASE q # p
      BY <1>7, <1>14, <2>5, <3>1, <3>3 DEF Switches
    <3> QED
      BY <3>2, <3>3
  <2>7. ASSUME NEW q \in Proc, pstate'[q][1] # "RUNNING" PROVE WaitOK(stack'[q])
    <3>1. CASE q = p
      BY <1>13, <3>1
    <3>2. CASE q # p
      BY <1>7, <1>12, <2>5, <2>7, <3>2 DEF Switches
    <3> QED
      BY <3>1, <3>2
  <2> QED
    BY <2>1, <2>3, <2>4, <2>6, <2>7 DEF Switches
<1>23. Exclusion'
  BY <1>7, <1>9 DEF Exclusion
<1> QED
  BY <1>12, <1>19, <1>20, <1>21, <1>22, <1>23 DEF IrqInv, Cpus

LEMMA SchedKeeps ==
    ASSUME IrqInv, NEW c \in Processor, goSleep(c) \/ giveUp(c)
    PROVE  IrqInv'
<1>1. CASE goSleep(c)
  <2>1. At(c, "sleep", 0) /\ sched(c, <<"SLEEPING", Arg(c)>>)
    BY <1>1 DEF goSleep
  <2>2. Arg(c) \in Lock
    BY <2>1, AtFrame, NextOp
  <2>3. <<"SLEEPING", Arg(c)>> \in Pstates /\ <<"SLEEPING", Arg(c)>>[1] # "RUNNING"
    BY <2>2 DEF Pstates
  <2> QED
    BY <2>1, <2>3, SwitchOut
<1>2. CASE giveUp(c)
  <2>1. At(c, "yield", 0) /\ sched(c, <<"RUNNABLE", none>>)
    BY <1>2 DEF giveUp
  <2>2. <<"RUNNABLE", none>> \in Pstates /\ <<"RUNNABLE", none>>[1] # "RUNNING"
    BY DEF Pstates
  <2> QED
    BY <2>1, <2>2, SwitchOut
<1> QED
  BY <1>1, <1>2

\* The end of a handler or a system call, with no lock and no interrupt in
\* service, puts the flag back.
LEMMA IretKeeps ==
    ASSUME IrqInv, NEW c \in Processor, iret(c)
    PROVE  IrqInv'
<1> DEFINE f == Top(c)
           x == runs[c]
           s == stack[x]
           u == Tail(s)
<1>1. /\ At(c, "iret", 0) /\ s # <<>> /\ Legal(x, f) /\ OpOf(f) = "iret" /\ f.sub = 0
      /\ FrameOK(f, inside[c], ncli[c], IF_[c], intena[c], isr[c], NotedBy(c))
  BY AtFrame DEF iret
<1>2. /\ f.todo \in Seq(Op) /\ 1 \in 1 .. Len(f.todo) /\ f.todo[1] = <<"iret">> /\ f.kind # "scheduler"
  BY <1>1, NextOp, OpKinds
<1>3. Len(f.todo) = 1 /\ f.saved = TRUE
  BY <1>1, <1>2 DEF Legal, Ends, Frames
<1>4. Held(f.todo) = {}
  <2>1. HeldAt(f.todo, 2) = Held(f.todo)
    BY <1>1, OpLocks
  <2>2. 2 = Len(f.todo) + 1
    BY <1>3
  <2> QED
    BY <1>2, <2>1, <2>2, HeldEnd
<1>5. Pushed(f) = {} /\ Inside(f) = {} /\ Noted(f) = {}
  BY <1>1, <1>4, FrameSets
<1>6. Cardinality({}) = 0
  BY FS_EmptySet
<1>7. inside[c] = {} /\ ncli[c] = 0 /\ NotedBy(c) = {}
  BY <1>1, <1>5, <1>6 DEF FrameOK
<1>8. isr[c] = {}
  <2>1. \A j \in DOMAIN f.todo : f.todo[j] # <<"eoi">>
    <3>1. DOMAIN f.todo = 1 .. Len(f.todo)
      BY <1>2
    <3>2. \A j \in 1 .. 1 : j = 1
      OBVIOUS
    <3> QED
      BY <1>2, <1>3, <3>1, <3>2
  <2> QED
    BY <1>1, <2>1 DEF FrameOK
<1>9. /\ IF_' = [IF_ EXCEPT ![c] = f.saved] /\ stack' = [stack EXCEPT ![x] = u]
      /\ UNCHANGED <<lock, ncli, intena, runs, pstate, isr, inside, irqPanicked>>
  BY DEF iret
<1>10. TypeInv /\ Threads
  BY DEF IrqInv
<1>11. /\ x \in Processor \cup Proc /\ s \in Seq(Frames) /\ ThreadOK(x, s) /\ f = s[1] /\ Len(s) \in 1 .. 2
  BY <1>1, Contexts, TopFrame
<1>12. IF_' \in [Processor -> BOOLEAN] /\ IF_'[c] = TRUE /\ \A d \in Processor : d # c => IF_'[d] = IF_[d]
  BY <1>3, <1>9, <1>10 DEF TypeInv
<1> HIDE DEF f, x, s
<1>13. u \in Seq(Frames) /\ Len(u) = Len(s) - 1 /\ \A k \in 1 .. Len(s) - 1 : u[k] = s[k + 1]
  BY <1>1, <1>11, HeadTailProperties
<1> HIDE DEF u
<1>14. /\ ThreadOK(x, u) /\ CpuOK(u, {}, 0, TRUE, intena[c], {}, {})
  <2>1. CASE Len(s) = 1
    <3>1. Len(u) = 0
      BY <1>13, <2>1
    <3>2. u = <<>>
      BY <1>13, <3>1
    <3>3. x \notin Processor
      BY <1>2, <1>11, <2>1 DEF ThreadOK
    <3>4. \A k \in 1 .. 0 : FALSE
      OBVIOUS
    <3> QED
      BY <3>1, <3>2, <3>3, <3>4 DEF ThreadOK, CpuOK
  <2>2. CASE Len(s) = 2
    <3>1. Len(u) = 1 /\ u[1] = s[2] /\ u # <<>>
      <4>1. Len(u) = 1 /\ 1 \in 1 .. Len(s) - 1
        BY <1>13, <2>2
      <4>2. u[1] = s[1 + 1]
        BY <1>13, <4>1
      <4>3. 1 + 1 = 2
        OBVIOUS
      <4>4. u # <<>>
        BY <1>13, <4>1
      <4> QED
        BY <4>1, <4>2, <4>3, <4>4
    <3>2. Legal(x, u[1]) /\ u[1].kind # "irq" /\ u[1].sub = 0 /\ Held(u[1].todo) = {} /\ (x \in Processor => u[1].kind = "scheduler")
      <4>1. 2 \in 1 .. Len(s)
        BY <2>2
      <4> QED
        BY <1>11, <2>2, <3>1, <4>1 DEF ThreadOK
    <3>3. Pushed(u[1]) = {} /\ Inside(u[1]) = {} /\ Noted(u[1]) = {}
      BY <3>2, FrameSets
    <3>4. \A k \in 1 .. 1 : k = 1
      OBVIOUS
    <3>5. ThreadOK(x, u)
      BY <3>1, <3>2, <3>4 DEF ThreadOK
    <3>6. FrameOK(u[1], {}, 0, TRUE, intena[c], {}, {})
      BY <1>6, <3>2, <3>3 DEF FrameOK
    <3> QED
      BY <3>1, <3>5, <3>6 DEF CpuOK
  <2>3. Len(s) = 1 \/ Len(s) = 2
    BY <1>11
  <2> QED
    BY <2>1, <2>2, <2>3
<1>15. stack' \in [Processor \cup Proc -> Seq(Frames)] /\ stack'[x] = u /\ \A y \in Processor \cup Proc : y # x => stack'[y] = stack[y]
  BY <1>9, <1>10, <1>11, <1>13 DEF TypeInv
<1>16. Threads'
  BY <1>10, <1>14, <1>15 DEF Threads
<1>17. \A d : NotedBy(d)' = NotedBy(d)
  BY <1>9 DEF NotedBy
<1>18. Cpu(c)'
  <2>1. stack'[runs'[c]] = u /\ NotedBy(c)' = {}
    BY <1>7, <1>9, <1>15, <1>17 DEF x
  <2>2. inside'[c] = {} /\ ncli'[c] = 0 /\ IF_'[c] = TRUE /\ intena'[c] = intena[c] /\ isr'[c] = {}
    BY <1>7, <1>8, <1>9, <1>12
  <2> QED
    BY <1>14, <2>1, <2>2 DEF Cpu
<1>19. ASSUME NEW d \in Processor, d # c PROVE Cpu(d)'
  BY <1>9, <1>12, <1>15, <1>17, <1>19, OtherCpus DEF x
<1>20. Switches'
  BY <1>9, <1>15, SwitchesKept DEF x
<1>21. TypeInv'
  BY <1>9, <1>10, <1>12, <1>15 DEF TypeInv
<1>22. Exclusion'
  BY <1>9 DEF IrqInv, Exclusion
<1> QED
  BY <1>16, <1>18, <1>19, <1>20, <1>21, <1>22 DEF IrqInv, Cpus

LEMMA CallKeeps ==
    ASSUME IrqInv, NEW c \in Processor, call_(c)
    PROVE  IrqInv'
<1> DEFINE x == runs[c]
<1>1. /\ stack[x] = <<>> /\ UNCHANGED <<lock, ncli, intena, IF_, runs, pstate, isr, inside, irqPanicked>>
  BY DEF call_, Kstack
<1>2. PICK lk \in {"ticks", "ide"} : stack' = [stack EXCEPT ![x] = <<Frame("user", syscall(lk), TRUE)>>]
  BY DEF call_
<1> DEFINE g == Frame("user", syscall(lk), TRUE)
           u == <<g>>
<1>0. stack' = [stack EXCEPT ![x] = u]
  BY <1>2
<1>3. TypeInv /\ Threads
  BY DEF IrqInv
<1>4. x \in Processor \cup Proc /\ ThreadOK(x, stack[x]) /\ Cpu(c)
  BY Contexts
<1>5. x \in Proc
  BY <1>1, <1>4 DEF ThreadOK
<1>6. inside[c] = {} /\ ncli[c] = 0 /\ IF_[c] /\ isr[c] = {} /\ NotedBy(c) = {}
  BY <1>1, <1>4 DEF Cpu, CpuOK
<1>7. g.kind = "user" /\ g.todo = syscall(lk) /\ g.sub = 0 /\ g.saved = TRUE /\ g.intena = FALSE /\ g \in Frames
  BY SyscallCode DEF Frame, Frames, Kinds
<1> HIDE DEF g
<1>8. g.sub \in Subs(OpOf(g))
  BY <1>7 DEF Subs
<1>9. Legal(x, g) /\ Held(g.todo) = {}
  BY <1>5, <1>7, <1>8, SyscallCode DEF Legal
<1>10. Pushed(g) = {} /\ Inside(g) = {} /\ Noted(g) = {}
  BY <1>7, <1>9, FrameSets
<1>11. u \in Seq(Frames) /\ Len(u) = 1 /\ u[1] = g /\ u # <<>>
  BY <1>7
<1> HIDE DEF u
<1>12. ThreadOK(x, u)
  <2>1. \A k \in 1 .. 1 : k = 1
    OBVIOUS
  <2>2. x \notin Processor
    BY <1>5, NobodyElse
  <2> QED
    BY <1>9, <1>11, <2>1, <2>2 DEF ThreadOK
<1>13. FrameOK(g, inside[c], ncli[c], IF_[c], intena[c], isr[c], NotedBy(c))
  <2>1. Cardinality({}) = 0
    BY FS_EmptySet
  <2> QED
    BY <1>6, <1>7, <1>10, <2>1 DEF FrameOK
<1>14. stack' \in [Processor \cup Proc -> Seq(Frames)] /\ stack'[x] = u /\ \A y \in Processor \cup Proc : y # x => stack'[y] = stack[y]
  BY <1>0, <1>3, <1>4, <1>11 DEF TypeInv
<1> HIDE DEF x
<1>15. Threads'
  BY <1>3, <1>12, <1>14 DEF Threads
<1>16. \A d : NotedBy(d)' = NotedBy(d)
  BY <1>1 DEF NotedBy
<1>17. Cpu(c)'
  <2>1. stack'[runs'[c]] = u /\ NotedBy(c)' = NotedBy(c)
    BY <1>1, <1>14, <1>16 DEF x
  <2>2. inside'[c] = inside[c] /\ ncli'[c] = ncli[c] /\ IF_'[c] = IF_[c] /\ intena'[c] = intena[c] /\ isr'[c] = isr[c]
    BY <1>1
  <2> QED
    BY <1>11, <1>13, <2>1, <2>2 DEF Cpu, CpuOK
<1>18. ASSUME NEW d \in Processor, d # c PROVE Cpu(d)'
  BY <1>1, <1>14, <1>16, <1>18, OtherCpus DEF x
<1>19. Switches'
  BY <1>1, <1>14, SwitchesKept DEF x
<1>20. TypeInv'
  BY <1>1, <1>3, <1>14 DEF TypeInv
<1>21. Exclusion'
  BY <1>1 DEF IrqInv, Exclusion
<1> QED
  BY <1>15, <1>17, <1>18, <1>19, <1>20, <1>21 DEF IrqInv, Cpus

\* An interrupt finds the CPU in code that holds no lock, and no other handler.
LEMMA InterruptKeeps ==
    ASSUME IrqInv, NEW c \in Processor, NEW irq \in Irqs, interrupt(c, irq)
    PROVE  IrqInv'
<1> DEFINE x == runs[c]
           s == stack[x]
           g == Frame("irq", trap(c, x, irq), TRUE)
           u == <<g>> \o s
<1>1. /\ IF_[c] /\ isr' = [isr EXCEPT ![c] = {irq}] /\ stack' = [stack EXCEPT ![x] = u]
      /\ IF_' = [IF_ EXCEPT ![c] = FALSE]
      /\ UNCHANGED <<lock, ncli, intena, runs, pstate, inside, irqPanicked>>
  BY DEF interrupt
<1>2. TypeInv /\ Threads
  BY DEF IrqInv
<1>3. x \in Processor \cup Proc /\ s \in Seq(Frames) /\ ThreadOK(x, s) /\ Cpu(c)
  BY Contexts
<1>4. /\ g.kind = "irq" /\ g.todo = trap(c, x, irq) /\ g.sub = 0 /\ g.saved = TRUE /\ g.intena = FALSE /\ g \in Frames
  BY TrapCode DEF Frame, Frames, Kinds
<1> HIDE DEF g
<1>5. g.sub \in Subs(OpOf(g))
  BY <1>4 DEF Subs
<1>6. Legal(x, g) /\ Held(g.todo) = {} /\ \E k \in DOMAIN g.todo : g.todo[k] = <<"eoi">>
  BY <1>4, <1>5, TrapCode DEF Legal
<1>7. Pushed(g) = {} /\ Inside(g) = {} /\ Noted(g) = {}
  BY <1>4, <1>6, FrameSets
<1>8. u \in Seq(Frames) /\ Len(u) = Len(s) + 1 /\ u # <<>> /\ u[1] = g /\ \A k \in 1 .. Len(s) : u[k + 1] = s[k]
  BY <1>3, <1>4, PushFrame
<1>9. Cardinality({}) = 0
  BY FS_EmptySet
<1>10. ASSUME s # <<>>
       PROVE  /\ Len(s) = 1 /\ Legal(x, s[1]) /\ s[1].kind # "irq" /\ s[1].sub = 0 /\ Held(s[1].todo) = {}
              /\ inside[c] = {} /\ ncli[c] = 0 /\ NotedBy(c) = {}
  <2> DEFINE f == Top(c)
  <2>1. /\ f = s[1] /\ Legal(x, f) /\ FrameOK(f, inside[c], ncli[c], IF_[c], intena[c], isr[c], NotedBy(c))
        /\ Len(s) \in 1 .. 2
    BY <1>10, TopFrame
  <2>2. Pushed(f) = {} /\ f.kind # "irq"
    BY <1>1, <2>1 DEF FrameOK
  <2>3. f.sub = 0
    <3>1. f.sub \in Subs(OpOf(f))
      BY <2>1 DEF Legal
    <3>2. OpOf(f) = "acquire" /\ f.sub # 0 => Pushed(f) # {}
      <4>1. f.sub \in 0 .. 2 /\ f.sub # 0 => f.sub = 1 \/ f.sub = 2
        OBVIOUS
      <4> QED
        BY <2>1, <3>1, <4>1, FrameSets DEF Subs
    <3>3. OpOf(f) = "release" /\ f.sub # 0 => Pushed(f) # {}
      <4>1. f.sub \in 0 .. 1 /\ f.sub # 0 => f.sub = 1
        OBVIOUS
      <4>2. OpOf(f) = "release" => Head(f.todo)[2] \in Held(f.todo)
        BY <2>1, OpLocks
      <4> QED
        BY <2>1, <3>1, <4>1, <4>2, FrameSets DEF Subs
    <3>4. OpOf(f) \in {"sleep", "yield"} => Pushed(f) # {}
      BY <2>1, OpLocks, FrameSets
    <3>5. OpOf(f) \notin {"acquire", "release", "sleep", "yield"} => f.sub = 0
      BY <3>1 DEF Subs
    <3> QED
      BY <2>2, <3>2, <3>3, <3>4, <3>5
  <2>4. Held(f.todo) = {} /\ Inside(f) = {} /\ Noted(f) = {}
    BY <2>1, <2>2, <2>3, FrameSets
  <2>5. inside[c] = {} /\ ncli[c] = 0 /\ NotedBy(c) = {}
    BY <1>9, <2>1, <2>2, <2>4 DEF FrameOK
  <2>6. Len(s) # 2
    BY <1>3, <2>1, <2>2 DEF ThreadOK
  <2>7. Len(s) = 1
    BY <2>1, <2>6
  <2> QED
    BY <2>1, <2>2, <2>3, <2>4, <2>5, <2>7
<1>11. inside[c] = {} /\ ncli[c] = 0 /\ NotedBy(c) = {}
  <2>1. CASE s = <<>>
    BY <1>3, <2>1 DEF Cpu, CpuOK
  <2> QED
    BY <1>10, <2>1
<1> HIDE DEF s, u
<1>12. ThreadOK(x, u)
  <2>1. CASE s = <<>>
    <3>1. Len(s) = 0
      BY <2>1
    <3>2. Len(u) = 1 /\ x \notin Processor
      BY <1>3, <1>8, <2>1, <3>1 DEF ThreadOK
    <3>3. \A k \in 1 .. 1 : k = 1
      OBVIOUS
    <3>4. Legal(x, u[1]) /\ u # <<>>
      BY <1>6, <1>8
    <3> QED
      BY <3>2, <3>3, <3>4 DEF ThreadOK
  <2>2. CASE s # <<>>
    <3>1. Len(s) = 1
      BY <1>10, <2>2 DEF s
    <3>2. Len(u) = 2 /\ u[2] = s[1]
      <4>1. 1 \in 1 .. Len(s) /\ 1 + 1 = 2
        BY <3>1
      <4>2. u[1 + 1] = s[1]
        BY <1>8, <4>1
      <4>3. Len(u) = Len(s) + 1
        BY <1>8
      <4> QED
        BY <3>1, <4>1, <4>2, <4>3
    <3>3. \A k \in 1 .. 2 : k = 1 \/ k = 2
      OBVIOUS
    <3>4. Legal(x, s[1]) /\ s[1].kind # "irq" /\ s[1].sub = 0 /\ Held(s[1].todo) = {}
      BY <1>10, <2>2 DEF s
    <3>5. x \in Processor => s[1].kind = "scheduler"
      BY <1>3, <3>1 DEF ThreadOK
    <3>6. Legal(x, u[1]) /\ u[1].kind = "irq" /\ u # <<>>
      BY <1>4, <1>6, <1>8
    <3> QED
      BY <3>2, <3>3, <3>4, <3>5, <3>6 DEF ThreadOK
  <2> QED
    BY <2>1, <2>2
<1>13. FrameOK(g, {}, 0, FALSE, intena[c], {irq}, {})
  BY <1>4, <1>6, <1>7, <1>9 DEF FrameOK
<1>14. stack' \in [Processor \cup Proc -> Seq(Frames)] /\ stack'[x] = u /\ \A y \in Processor \cup Proc : y # x => stack'[y] = stack[y]
  BY <1>1, <1>2, <1>3, <1>8 DEF TypeInv
<1>15. /\ isr' \in [Processor -> SUBSET Irqs] /\ IF_' \in [Processor -> BOOLEAN] /\ isr'[c] = {irq} /\ IF_'[c] = FALSE
       /\ \A d \in Processor : d # c => isr'[d] = isr[d] /\ IF_'[d] = IF_[d]
  BY <1>1, <1>2 DEF TypeInv
<1> HIDE DEF x
<1>16. Threads'
  BY <1>2, <1>12, <1>14 DEF Threads
<1>17. \A d : NotedBy(d)' = NotedBy(d)
  BY <1>1 DEF NotedBy
<1>18. Cpu(c)'
  <2>1. stack'[runs'[c]] = u /\ NotedBy(c)' = {}
    BY <1>1, <1>11, <1>14, <1>17 DEF x
  <2>2. inside'[c] = {} /\ ncli'[c] = 0 /\ IF_'[c] = FALSE /\ intena'[c] = intena[c] /\ isr'[c] = {irq}
    BY <1>1, <1>11, <1>15
  <2> QED
    BY <1>8, <1>13, <2>1, <2>2 DEF Cpu, CpuOK
<1>19. ASSUME NEW d \in Processor, d # c PROVE Cpu(d)'
  BY <1>1, <1>14, <1>15, <1>17, <1>19, OtherCpus DEF x
<1>20. Switches'
  BY <1>1, <1>14, SwitchesKept DEF x
<1>21. TypeInv'
  BY <1>1, <1>2, <1>14, <1>15 DEF TypeInv
<1>22. Exclusion'
  BY <1>1 DEF IrqInv, Exclusion
<1> QED
  BY <1>16, <1>18, <1>19, <1>20, <1>21, <1>22 DEF IrqInv, Cpus

-----------------------------------------------------------------------------
(* The theorem *)

LEMMA IrqInitInv == IrqInit => IrqInv
<1> SUFFICES ASSUME IrqInit PROVE IrqInv
  OBVIOUS
<1> DEFINE sf == Frame("scheduler", scheduler, FALSE)
           ff == Frame("forkret", forkret, TRUE)
<1>1. /\ lock = [l \in Lock |-> [locked |-> FALSE, cpu |-> nobody]]
      /\ ncli = [c \in Processor |-> 0] /\ intena = [c \in Processor |-> FALSE] /\ IF_ = [c \in Processor |-> FALSE]
      /\ runs = [c \in Processor |-> c]
      /\ stack = [x \in Processor \cup Proc |-> IF x \in Processor THEN <<sf>> ELSE <<ff>>]
      /\ pstate = [p \in Proc |-> <<"RUNNABLE", none>>]
      /\ isr = [c \in Processor |-> {}] /\ inside = [c \in Processor |-> {}] /\ irqPanicked = FALSE
  BY DEF IrqInit
<1>2. /\ sf.kind = "scheduler" /\ sf.todo = scheduler /\ sf.sub = 0 /\ sf.saved = FALSE /\ sf.intena = FALSE /\ sf \in Frames
  BY SchedulerCode DEF Frame, Frames, Kinds
<1>3. /\ ff.kind = "forkret" /\ ff.todo = forkret /\ ff.sub = 0 /\ ff.saved = TRUE /\ ff.intena = FALSE /\ ff \in Frames
  BY ForkretCode DEF Frame, Frames, Kinds
<1> HIDE DEF sf, ff
<1>4. ASSUME NEW c \in Processor PROVE Legal(c, sf)
  <2>1. sf.sub \in Subs(OpOf(sf))
    BY <1>2 DEF Subs
  <2> QED
    BY <1>2, <2>1, SchedulerCode DEF Legal
<1>5. ASSUME NEW p \in Proc PROVE Legal(p, ff)
  <2>1. ff.sub \in Subs(OpOf(ff))
    BY <1>3 DEF Subs
  <2> QED
    BY <1>3, <2>1, ForkretCode DEF Legal
<1>6. \A x \in Processor \cup Proc : stack[x] = IF x \in Processor THEN <<sf>> ELSE <<ff>>
  BY <1>1
<1>7. \A x \in Processor \cup Proc : stack[x] \in Seq(Frames) /\ Len(stack[x]) = 1 /\ stack[x] # <<>> /\ stack[x][1] = IF x \in Processor THEN sf ELSE ff
  BY <1>2, <1>3, <1>6
<1>8. TypeInv
  <2>1. stack \in [Processor \cup Proc -> Seq(Frames)]
    BY <1>1, <1>2, <1>3
  <2> QED
    BY <1>1, <2>1 DEF TypeInv, Pstates
<1>9. ASSUME NEW x \in Processor \cup Proc PROVE ThreadOK(x, stack[x])
  <2>1. Legal(x, stack[x][1])
    BY <1>4, <1>5, <1>7
  <2>2. \A k \in 1 .. 1 : k = 1
    OBVIOUS
  <2>3. x \in Processor => stack[x][1].kind = "scheduler"
    BY <1>2, <1>7
  <2>4. Len(stack[x]) = 1 /\ stack[x] # <<>>
    BY <1>7
  <2> QED
    BY <2>1, <2>2, <2>3, <2>4 DEF ThreadOK
<1>10. ASSUME NEW c \in Processor PROVE Cpu(c)
  <2>1. Pushed(sf) = {} /\ Inside(sf) = {} /\ Noted(sf) = {}
    BY <1>2, <1>4, FrameSets, SchedulerCode
  <2>2. NotedBy(c) = {}
    BY <1>1, NobodyElse DEF NotedBy
  <2>3. Cardinality({}) = 0
    BY FS_EmptySet
  <2>4. inside[c] = {} /\ ncli[c] = 0 /\ isr[c] = {} /\ runs[c] = c
    BY <1>1
  <2>5. FrameOK(sf, inside[c], ncli[c], IF_[c], intena[c], isr[c], NotedBy(c))
    BY <1>2, <2>1, <2>2, <2>3, <2>4 DEF FrameOK
  <2> QED
    BY <1>7, <2>4, <2>5 DEF Cpu, CpuOK
<1>11. Switches
  <2>1. ASSUME NEW p \in Proc PROVE WaitOK(stack[p]) /\ pstate[p][1] # "RUNNING" /\ \A c \in Processor : runs[c] # p
    <3>1. stack[p] # <<>> /\ stack[p][1] = ff
      BY <1>7, NobodyElse
    <3>2. WaitOK(stack[p])
      BY <1>3, <3>1, ForkretCode DEF WaitOK
    <3> QED
      BY <1>1, <3>2, NobodyElse
  <2> QED
    BY <1>1, <2>1 DEF Switches
<1>12. Exclusion
  BY <1>1 DEF Exclusion
<1> QED
  BY <1>8, <1>9, <1>10, <1>11, <1>12 DEF IrqInv, Threads, Cpus

LEMMA IrqStepInv == IrqInv /\ [IrqNext]_irqVars => IrqInv'
<1> SUFFICES ASSUME IrqInv, [IrqNext]_irqVars PROVE IrqInv'
  OBVIOUS
<1>1. CASE UNCHANGED irqVars
  <2>1. UNCHANGED <<lock, ncli, intena, IF_, runs, stack, pstate, isr, inside, irqPanicked>>
    BY <1>1 DEF irqVars
  <2>2. \A d : NotedBy(d)' = NotedBy(d)
    BY <2>1 DEF NotedBy
  <2>3. TypeInv' /\ Threads'
    BY <2>1 DEF IrqInv, TypeInv, Threads
  <2>4. Cpus'
    BY <2>1, <2>2 DEF IrqInv, Cpus, Cpu
  <2>5. Switches'
    BY <2>1 DEF IrqInv, Switches
  <2>6. Exclusion'
    BY <2>1 DEF IrqInv, Exclusion
  <2> QED
    BY <2>3, <2>4, <2>5, <2>6 DEF IrqInv
<1>2. ASSUME NEW c \in Processor,
             \/ acquire(c) \/ xchg(c) \/ acquired(c) \/ release(c) \/ released(c) \/ wakeup1(c)
             \/ goSleep(c) \/ giveUp(c) \/ resched(c) \/ sti(c) \/ run(c) \/ eoi(c) \/ iret(c) \/ call_(c)
             \/ \E irq \in Irqs : interrupt(c, irq)
      PROVE  IrqInv'
  <2>1. CASE acquire(c)
    BY <2>1, AcquireKeeps
  <2>2. CASE xchg(c)
    BY <2>2, XchgKeeps
  <2>3. CASE acquired(c)
    BY <2>3, AcquiredKeeps
  <2>4. CASE release(c)
    BY <2>4, ReleaseKeeps
  <2>5. CASE released(c)
    BY <2>5, ReleasedKeeps
  <2>6. CASE wakeup1(c)
    BY <2>6, WakeupKeeps
  <2>7. CASE goSleep(c) \/ giveUp(c)
    BY <2>7, SchedKeeps
  <2>8. CASE resched(c)
    BY <2>8, ReschedKeeps
  <2>9. CASE sti(c)
    BY <2>9, StiKeeps
  <2>10. CASE run(c)
    BY <2>10, RunKeeps
  <2>11. CASE eoi(c)
    BY <2>11, EoiKeeps
  <2>12. CASE iret(c)
    BY <2>12, IretKeeps
  <2>13. CASE call_(c)
    BY <2>13, CallKeeps
  <2>14. CASE \E irq \in Irqs : interrupt(c, irq)
    BY <2>14, InterruptKeeps
  <2> QED
    BY <1>2, <2>1, <2>2, <2>3, <2>4, <2>5, <2>6, <2>7, <2>8, <2>9, <2>10, <2>11, <2>12, <2>13, <2>14
<1> QED
  BY <1>1, <1>2 DEF IrqNext

LEMMA InvLocks == IrqInv => LocksInv
<1> SUFFICES ASSUME IrqInv PROVE LocksInv
  OBVIOUS
<1>1. ASSUME NEW c \in Processor
      PROVE  /\ inside[c] # {} => ~IF_[c] /\ ncli[c] = Cardinality(inside[c] \cup {l \in Lock : At(c, "acquire", 1) /\ l = Arg(c)})
             /\ ncli[c] = 0 => /\ Kstack(c) = <<>> \/ Top(c).kind = "user" => IF_[c]
                               /\ Kstack(c) # <<>> /\ Top(c).kind = "irq" => ~IF_[c]
             /\ isr[c] # {} => Kstack(c) # <<>> /\ Top(c).kind = "irq" /\ \E k \in DOMAIN Top(c).todo : Top(c).todo[k] = <<"eoi">>
  <2> DEFINE f == Top(c)
             w == {l \in Lock : At(c, "acquire", 1) /\ l = Arg(c)}
  <2>1. CASE stack[runs[c]] = <<>>
    <3>1. inside[c] = {} /\ ncli[c] = 0 /\ IF_[c] /\ isr[c] = {}
      BY <2>1, Contexts DEF Cpu, CpuOK
    <3> QED
      BY <2>1, <3>1 DEF Kstack
  <2>2. CASE stack[runs[c]] # <<>>
    <3>1. /\ Legal(runs[c], f) /\ FrameOK(f, inside[c], ncli[c], IF_[c], intena[c], isr[c], NotedBy(c))
          /\ Kstack(c) # <<>> /\ irqPanicked = FALSE /\ Arg(c) = Head(f.todo)[2]
      BY <2>2, TopFrame DEF Kstack, IrqInv, TypeInv, Arg
    <3>2. Pushed(f) = inside[c] \cup w
      <4>1. inside[c] = Inside(f) /\ f.sub \in Subs(OpOf(f))
        BY <3>1 DEF FrameOK, Legal
      <4>2. CASE OpOf(f) = "acquire" /\ f.sub = 1
        <5>1. At(c, "acquire", 1) /\ Arg(c) \in Lock
          BY <3>1, <4>2, NextOp DEF At, OpOf
        <5>2. w = {Arg(c)}
          BY <5>1
        <5> HIDE DEF w
        <5> QED
          BY <3>1, <4>1, <4>2, <5>2, FrameSets
      <4>3. CASE ~(OpOf(f) = "acquire" /\ f.sub = 1)
        <5>1. w = {}
          BY <4>3 DEF At, OpOf
        <5>2. Pushed(f) = Inside(f)
          <6>1. OpOf(f) = "acquire" => f.sub = 0 \/ f.sub = 2
            BY <4>1, <4>3 DEF Subs
          <6>2. OpOf(f) = "release" => f.sub = 0 \/ f.sub = 1
            BY <4>1 DEF Subs
          <6> HIDE DEF f
          <6> QED
            BY <3>1, <6>1, <6>2, FrameSets
        <5> HIDE DEF w
        <5> QED
          BY <4>1, <5>1, <5>2
      <4> QED
        BY <4>2, <4>3
    <3>3. Pushed(f) \in SUBSET Lock
      BY <3>1, FrameSets DEF Pushed, Wants
    <3>4. Cardinality(Pushed(f)) = 0 <=> Pushed(f) = {}
      BY <3>3, Count
    <3> HIDE DEF w
    <3>5. inside[c] # {} => ~IF_[c] /\ ncli[c] = Cardinality(inside[c] \cup w)
      BY <3>1, <3>2 DEF FrameOK
    <3>6. ncli[c] = 0 => (f.kind = "user" => IF_[c]) /\ (f.kind = "irq" => ~IF_[c])
      BY <3>1, <3>4 DEF FrameOK
    <3>7. isr[c] # {} => f.kind = "irq" /\ \E k \in DOMAIN f.todo : f.todo[k] = <<"eoi">>
      BY <3>1 DEF FrameOK
    <3> QED
      BY <3>1, <3>5, <3>6, <3>7 DEF w
  <2> QED
    BY <2>1, <2>2
<1>2. NoLockPanic
  BY DEF IrqInv, TypeInv, NoLockPanic
<1>3. LockedOut
  BY <1>1 DEF LockedOut, IrqInv, Exclusion
<1>4. FlagKept
  BY <1>1 DEF FlagKept
<1>5. AckedHere
  BY <1>1 DEF AckedHere
<1> QED
  BY <1>2, <1>3, <1>4, <1>5 DEF LocksInv

\* For any number of CPUs and processes, the checks of acquire(), release(),
\* popcli() and sched() never fire, a section under a lock has one CPU in it and
\* takes no interrupt there, code outside runs with the interrupt flag of its
\* own kind wherever the scheduler moved it, and an interrupt stays in service
\* only while its handler runs on that CPU.
THEOREM LocksAreSafe == IrqSpec => []LocksInv
<1>1. IrqInit => IrqInv
  BY IrqInitInv
<1>2. IrqInv /\ [IrqNext]_irqVars => IrqInv'
  BY IrqStepInv
<1>3. IrqInv => LocksInv
  BY InvLocks
<1> QED
  BY <1>1, <1>2, <1>3, PTL DEF IrqSpec

-----------------------------------------------------------------------------
(* The process table *)

\* No two CPUs run the same process, and the RUNNING ones are those on a CPU.
CpuInv == /\ \A c, d \in CPU : cpu[c] = cpu[d] /\ cpu[c] # 0 => c = d
          /\ \A s \in Slot : Running(s) <=> \E c \in CPU : cpu[c] = s

\* init is never reaped and has no parent; nobody is its own parent.
Family == /\ state[initproc] \notin {"UNUSED", "ZOMBIE"}
          /\ parent[initproc] = 0
          /\ \A s \in Slot : parent[s] # s

Inv == TypeOK /\ CpuInv /\ Family /\ SomeoneReaps /\ WaiterNotStranded

USE ProcAssumption DEF Slot, initproc, ticks, State, Phase

-----------------------------------------------------------------------------
\* The table scans of allocproc(), wait() and kill() return a slot they were
\* looking for: Min of a nonempty set of slots is in the set.
LEMMA MinIn == ASSUME NEW S \in SUBSET Slot, S # {}
               PROVE  Min(S) \in S
<1> DEFINE R == OpToRel(<, Nat)
<1>1. S \subseteq Nat
  OBVIOUS
<1>2. IsWellFoundedOn(R, Nat)
  BY NatLessThanWellFounded
<1>3. \A x, y \in Nat : y < x => <<y, x>> \in R
  BY DEF OpToRel
<1> HIDE DEF R
<1>4. PICK x \in S : \A y \in S : ~ (<<y, x>> \in R)
  BY <1>1, <1>2, WFMin, Zenon
<1>5. ASSUME NEW y \in S PROVE x <= y
  <2>1. x \in Nat /\ y \in Nat
    BY <1>1
  <2>2. ~ (y < x)
    BY <1>3, <1>4, <2>1, Zenon
  <2> QED
    BY <2>1, <2>2
<1> QED
  BY <1>5, Zenon DEF Min

LEMMA InitInv == Init => Inv
<1> SUFFICES ASSUME Init PROVE Inv
  OBVIOUS
<1>1. TypeOK
  BY DEF Init, TypeOK, Channel
<1>2. CpuInv
  BY DEF Init, CpuInv, Running
<1>3. Family /\ SomeoneReaps /\ WaiterNotStranded
  BY DEF Init, Family, SomeoneReaps, WaiterNotStranded
<1> QED
  BY <1>1, <1>2, <1>3 DEF Inv

\* A step that only moves a process to another place in the kernel.
LEMMA PcOnly == ASSUME Inv, pc' \in [Slot -> Phase],
                       UNCHANGED <<state, pid, parent, killed, chan, cpu, pos,
                                   nextpid>>
                PROVE  Inv'
BY DEF Inv, TypeOK, CpuInv, Family, SomeoneReaps, WaiterNotStranded, Running,
       Children, Zombies

\* A step in which nobody is born, dies or is reaped leaves the families and
\* what wait() finds in them as they are.
LEMMA SameKin == ASSUME Inv, parent' = parent,
                        \A u \in Slot : \A x \in {"UNUSED", "ZOMBIE"} :
                           state'[u] = x <=> state[u] = x
                 PROVE  /\ Family' /\ SomeoneReaps'
                        /\ \A u \in Slot : Children(u)' = Children(u)
                        /\ \A u \in Slot : Zombies(u)' = Zombies(u)
<1>1. parent \in [Slot -> 0..NPROC] /\ Family /\ SomeoneReaps
  BY DEF Inv, TypeOK
<1>2. \A u \in Slot : parent[u] # 0 => parent[u] \in Slot
  BY <1>1
<1>3. Family'
  BY <1>1 DEF Family
<1>4. SomeoneReaps'
  BY <1>1, <1>2 DEF SomeoneReaps
<1>5. \A u \in Slot : Children(u)' = Children(u)
  BY DEF Children
<1>6. ASSUME NEW u \in Slot PROVE Zombies(u)' = Zombies(u)
  <2>1. \A k \in Children(u) : k \in Slot
    BY DEF Children
  <2>2. \A k \in Children(u) : state'[k] = "ZOMBIE" <=> state[k] = "ZOMBIE"
    BY <2>1
  <2> QED
    BY <1>5, <2>2 DEF Zombies
<1> QED
  BY <1>3, <1>4, <1>5, <1>6

\* If besides nobody falls asleep in wait(), and nobody asleep there is killed,
\* no waiter is stranded.
LEMMA SameWaiters == ASSUME Inv, parent' = parent,
                            \A u \in Slot : \A x \in {"UNUSED", "ZOMBIE"} :
                               state'[u] = x <=> state[u] = x,
                            \A u \in Slot : state'[u] = "SLEEPING" /\ chan'[u] = u =>
                               /\ state[u] = "SLEEPING" /\ chan[u] = u
                               /\ killed'[u] = killed[u]
                     PROVE  WaiterNotStranded'
<1>1. /\ \A u \in Slot : Children(u)' = Children(u)
      /\ \A u \in Slot : Zombies(u)' = Zombies(u)
  BY SameKin
<1> SUFFICES ASSUME NEW u \in Slot, state'[u] = "SLEEPING", chan'[u] = u
             PROVE  Children(u)' # {} /\ Zombies(u)' = {} /\ ~killed'[u]
  BY DEF WaiterNotStranded
<1>2. Children(u) # {} /\ Zombies(u) = {} /\ ~killed[u]
  BY DEF Inv, WaiterNotStranded
<1> QED
  BY <1>1, <1>2

LEMMA ScheduleInv == ASSUME Inv, NEW c \in CPU, Schedule(c) PROVE Inv'
<1> DEFINE s == Min(Ahead(c))
<1>1. s \in Slot /\ state[s] = "RUNNABLE"
  <2>1. Ahead(c) \in SUBSET Slot /\ Ahead(c) # {}
    BY DEF Ahead, Schedule
  <2> QED
    BY <2>1, MinIn DEF Ahead
<1>2. /\ cpu[c] = 0
      /\ cpu' = [cpu EXCEPT ![c] = s]
      /\ pos' = [pos EXCEPT ![c] = s]
      /\ state' = [state EXCEPT ![s] = "RUNNING"]
      /\ chan' = [chan EXCEPT ![s] = 0]
      /\ UNCHANGED <<pid, parent, killed, pc, nextpid>>
  BY DEF Schedule
<1> HIDE DEF s
<1> USE <1>1, <1>2
<1>3. TypeOK'
  <2>1. state' \in [Slot -> State \ {"EMBRYO"}] /\ chan' \in [Slot -> Channel]
    BY DEF Inv, TypeOK, Channel
  <2>2. cpu' \in [CPU -> 0..NPROC] /\ pos' \in [CPU -> 0..NPROC]
    BY DEF Inv, TypeOK
  <2> QED
    BY <2>1, <2>2 DEF Inv, TypeOK
<1>4. CpuInv'
  <2>1. \A d \in CPU : cpu[d] # s
    BY DEF Inv, TypeOK, CpuInv, Running
  <2>2. /\ cpu \in [CPU -> 0..NPROC] /\ s # 0
        /\ \A d \in CPU : cpu'[d] = IF d = c THEN s ELSE cpu[d]
    BY DEF Inv, TypeOK
  <2>3. \A a, d \in CPU : cpu'[a] = cpu'[d] /\ cpu'[a] # 0 => a = d
    BY <2>1, <2>2 DEF Inv, CpuInv
  <2>4. \A u \in Slot : Running(u)' <=> (Running(u) \/ u = s)
    BY DEF Inv, TypeOK, Running
  <2>5. \A u \in Slot : (\E d \in CPU : cpu'[d] = u) <=> (u = s \/ \E d \in CPU : cpu[d] = u)
    BY <2>1, <2>2
  <2>6. \A u \in Slot : Running(u) <=> \E d \in CPU : cpu[d] = u
    BY DEF Inv, CpuInv
  <2>7. \A u \in Slot : Running(u)' <=> \E d \in CPU : cpu'[d] = u
    BY <2>4, <2>5, <2>6
  <2> QED
    BY <2>3, <2>7 DEF CpuInv
<1>k. /\ parent' = parent
      /\ \A u \in Slot : \A x \in {"UNUSED", "ZOMBIE"} : state'[u] = x <=> state[u] = x
  BY DEF Inv, TypeOK
<1>5. Family' /\ SomeoneReaps'
  BY <1>k, SameKin
<1>w. \A u \in Slot : state'[u] = "SLEEPING" /\ chan'[u] = u =>
         /\ state[u] = "SLEEPING" /\ chan[u] = u /\ killed'[u] = killed[u]
  BY DEF Inv, TypeOK
<1>6. WaiterNotStranded'
  BY <1>k, <1>w, SameWaiters
<1> QED
  BY <1>3, <1>4, <1>5, <1>6 DEF Inv

LEMMA NextPassInv == ASSUME Inv, NEW c \in CPU, NextPass(c) PROVE Inv'
BY DEF NextPass, Inv, TypeOK, CpuInv, Family, SomeoneReaps, WaiterNotStranded,
       Running, Children, Zombies

\* A process leaves its CPU for a state other than RUNNING.
LEMMA LeaveCpu == ASSUME TypeOK, CpuInv, NEW s \in Slot, Leave(s),
                         \A t \in Slot \ {s} : state'[t] = "RUNNING" <=> state[t] = "RUNNING",
                         state'[s] # "RUNNING"
                  PROVE  CpuInv' /\ cpu' \in [CPU -> 0..NPROC]
<1>1. cpu' \in [CPU -> 0..NPROC]
  BY DEF TypeOK, Leave
<1>2. \A c \in CPU : cpu'[c] = IF cpu[c] = s THEN 0 ELSE cpu[c]
  BY DEF Leave
<1>3. \A c, d \in CPU : cpu'[c] = cpu'[d] /\ cpu'[c] # 0 => c = d
  BY <1>2 DEF CpuInv
<1>4. ASSUME NEW t \in Slot PROVE Running(t)' <=> \E c \in CPU : cpu'[c] = t
  <2>1. CASE t = s
    BY <1>2, <2>1 DEF Running
  <2>2. CASE t # s
    <3>1. Running(t)' <=> Running(t)
      BY <2>2 DEF Running
    <3>2. \A c \in CPU : cpu'[c] = t <=> cpu[c] = t
      BY <1>2, <2>2
    <3> QED
      BY <3>1, <3>2 DEF CpuInv
  <2> QED
    BY <2>1, <2>2
<1> QED
  BY <1>1, <1>3, <1>4 DEF CpuInv

LEMMA TimerInv == ASSUME Inv, NEW s \in Slot, Timer(s) PROVE Inv'
<1>1. CASE pc[s] = "user" /\ killed[s]
  BY <1>1, PcOnly DEF Timer, Inv, TypeOK
<1>2. CASE ~(pc[s] = "user" /\ killed[s])
  <2> /\ state' = [state EXCEPT ![s] = "RUNNABLE"]
      /\ Leave(s)
      /\ pc' = [pc EXCEPT ![s] = IF @ = "user" THEN "ret" ELSE @]
      /\ UNCHANGED <<pid, parent, killed, chan, pos, nextpid>>
      /\ state[s] = "RUNNING"
    BY <1>2 DEF Timer, Running
  <2>1. CpuInv' /\ cpu' \in [CPU -> 0..NPROC]
    BY LeaveCpu DEF Inv, TypeOK
  <2>2. TypeOK'
    BY <2>1 DEF Inv, TypeOK
  <2>3. Family' /\ SomeoneReaps'
    BY DEF Inv, TypeOK, Family, SomeoneReaps
  <2>4. WaiterNotStranded'
    BY DEF Inv, TypeOK, WaiterNotStranded, Children, Zombies
  <2> QED
    BY <2>1, <2>2, <2>3, <2>4 DEF Inv
<1> QED
  BY <1>1, <1>2

LEMMA WakeupInv == ASSUME Inv, NEW ch, Wakeup(ch) PROVE Inv'
<1> /\ state' = [t \in Slot |-> IF state[t] = "SLEEPING" /\ chan[t] = ch
                                 THEN "RUNNABLE" ELSE state[t]]
    /\ UNCHANGED <<pid, parent, killed, chan, pc, cpu, pos, nextpid>>
  BY DEF Wakeup, Wakeup1
<1>1. TypeOK'
  BY DEF Inv, TypeOK
<1>2. CpuInv'
  BY DEF Inv, TypeOK, CpuInv, Running
<1>3. Family' /\ SomeoneReaps'
  BY DEF Inv, TypeOK, Family, SomeoneReaps
<1>4. WaiterNotStranded'
  BY DEF Inv, TypeOK, WaiterNotStranded, Children, Zombies
<1> QED
  BY <1>1, <1>2, <1>3, <1>4 DEF Inv

LEMMA FaultInv == ASSUME Inv, NEW s \in Slot, Fault(s) PROVE Inv'
<1> USE DEF Fault, Running
<1>1. TypeOK'
  BY DEF Inv, TypeOK
<1>2. CpuInv' /\ Family' /\ SomeoneReaps'
  BY DEF Inv, TypeOK, CpuInv, Family, SomeoneReaps
<1>3. WaiterNotStranded'
  BY DEF Inv, TypeOK, WaiterNotStranded, Children, Zombies
<1> QED
  BY <1>1, <1>2, <1>3 DEF Inv

\* allocproc() takes an UNUSED slot, which is not init's.
LEMMA UnusedSlot == ASSUME Inv, Unused # {}
                    PROVE  /\ Min(Unused) \in Slot \ {initproc}
                           /\ state[Min(Unused)] = "UNUSED"
<1>1. Unused \in SUBSET Slot
  BY DEF Unused
<1>2. Min(Unused) \in Unused
  BY <1>1, MinIn
<1> QED
  BY <1>2 DEF Unused, Inv, Family

LEMMA ForkNoMemoryInv == ASSUME Inv, NEW s \in Slot, ForkNoMemory(s) PROVE Inv'
<1> DEFINE n == Min(Unused)
<1>1. /\ n \in Slot
      /\ nextpid <= MaxPid
      /\ pid' = [pid EXCEPT ![n] = nextpid]
      /\ nextpid' = nextpid + 1
      /\ pc' = [pc EXCEPT ![s] = "ret"]
      /\ UNCHANGED <<state, parent, killed, chan, cpu, pos>>
  BY UnusedSlot DEF ForkNoMemory
<1> HIDE DEF n
<1>2. TypeOK'
  <2>1. pid' \in [Slot -> 0..MaxPid] /\ nextpid' \in 1..(MaxPid + 1)
    BY <1>1 DEF Inv, TypeOK
  <2>2. pc' \in [Slot -> Phase]
    BY <1>1 DEF Inv, TypeOK
  <2> QED
    BY <1>1, <2>1, <2>2 DEF Inv, TypeOK
<1>3. CpuInv' /\ Family' /\ SomeoneReaps'
  BY <1>1 DEF Inv, CpuInv, Family, SomeoneReaps, Running
<1>4. WaiterNotStranded'
  BY <1>1 DEF Inv, WaiterNotStranded, Children, Zombies
<1> QED
  BY <1>2, <1>3, <1>4 DEF Inv

LEMMA ForkInv == ASSUME Inv, NEW s \in Slot, Fork(s) PROVE Inv'
<1> DEFINE n == Min(Unused)
<1>1. /\ n \in Slot \ {initproc}
      /\ state[n] = "UNUSED"
      /\ state[s] = "RUNNING"
      /\ nextpid <= MaxPid
      /\ pid' = [pid EXCEPT ![n] = nextpid]
      /\ parent' = [parent EXCEPT ![n] = s]
      /\ state' = [state EXCEPT ![n] = "RUNNABLE"]
      /\ pc' = [pc EXCEPT ![n] = "user", ![s] = "ret"]
      /\ nextpid' = nextpid + 1
      /\ UNCHANGED <<killed, chan, cpu, pos>>
  BY UnusedSlot DEF Fork, Syscall, Running
<1> HIDE DEF n
<1> USE <1>1
<1>2. TypeOK'
  <2>1. pid' \in [Slot -> 0..MaxPid] /\ nextpid' \in 1..(MaxPid + 1)
    BY DEF Inv, TypeOK
  <2>2. state' \in [Slot -> State \ {"EMBRYO"}] /\ parent' \in [Slot -> 0..NPROC]
    BY DEF Inv, TypeOK
  <2>3. pc' \in [Slot -> Phase]
    BY DEF Inv, TypeOK
  <2> QED
    BY <2>1, <2>2, <2>3 DEF Inv, TypeOK
<1>3. CpuInv'
  BY DEF Inv, TypeOK, CpuInv, Running
<1>4. Family' /\ SomeoneReaps'
  BY DEF Inv, TypeOK, Family, SomeoneReaps
<1>5. WaiterNotStranded'
  <2> SUFFICES ASSUME NEW w \in Slot, state'[w] = "SLEEPING", chan'[w] = w
               PROVE  Children(w)' # {} /\ Zombies(w)' = {} /\ ~killed'[w]
    BY DEF WaiterNotStranded
  <2>1. state[w] = "SLEEPING" /\ chan[w] = w /\ w # s
    BY DEF Inv, TypeOK
  <2>2. Children(w) # {} /\ Zombies(w) = {} /\ ~killed[w]
    BY <2>1 DEF Inv, WaiterNotStranded
  <2>3. n \notin Children(w)
    BY DEF Inv, TypeOK, SomeoneReaps, Children
  <2> QED
    BY <2>1, <2>2, <2>3 DEF Inv, TypeOK, Children, Zombies
<1> QED
  BY <1>2, <1>3, <1>4, <1>5 DEF Inv

\* exit(): the parent, and init when it inherits a zombie, are woken, so that
\* nobody sleeps in wait() over a zombie; the children go to init, so that
\* nobody has a zombie for a parent.
LEMMA ExitInv == ASSUME Inv, NEW s \in Slot, Exit(s) PROVE Inv'
<1>1. CASE s = initproc
  BY <1>1, PcOnly DEF Exit, Inv, TypeOK
<1>2. CASE s # initproc
  <2> DEFINE told == Wakeup1(parent[s], state)
             orphans == \E k \in Children(s) : state[k] = "ZOMBIE"
             after == IF orphans THEN Wakeup1(initproc, told) ELSE told
  <2>1. /\ state' = [after EXCEPT ![s] = "ZOMBIE"]
        /\ parent' = [k \in Slot |-> IF parent[k] = s THEN initproc ELSE parent[k]]
        /\ Leave(s)
        /\ UNCHANGED <<pc, pid, killed, chan, pos, nextpid>>
        /\ state[s] = "RUNNING"
    BY <1>2 DEF Exit, Running, Children
  <2>2. /\ DOMAIN after = Slot
        /\ \A t \in Slot :
              /\ after[t] = state[t] \/ (state[t] = "SLEEPING" /\ after[t] = "RUNNABLE")
              /\ after[t] = "SLEEPING" => chan[t] # parent[s]
              /\ after[t] = "SLEEPING" /\ orphans => chan[t] # initproc
    BY DEF Wakeup1
  <2> HIDE DEF after
  <2>3. DOMAIN state' = Slot /\ state'[s] = "ZOMBIE"
    BY <2>1, <2>2
  <2>4. ASSUME NEW t \in Slot, t # s
        PROVE  /\ state'[t] = state[t] \/ (state[t] = "SLEEPING" /\ state'[t] = "RUNNABLE")
               /\ state'[t] = "SLEEPING" => chan[t] # parent[s]
               /\ state'[t] = "SLEEPING" /\ orphans => chan[t] # initproc
    BY <2>1, <2>2, <2>4
  <2>5. state' \in [Slot -> State \ {"EMBRYO"}]
    <3>1. state' = [t \in Slot |-> state'[t]]
      BY <2>1, <2>2
    <3>2. \A t \in Slot : state'[t] \in State \ {"EMBRYO"}
      BY <2>3, <2>4 DEF Inv, TypeOK
    <3> QED
      BY <3>1, <3>2
  <2>6. CpuInv' /\ cpu' \in [CPU -> 0..NPROC]
    BY <2>1, <2>3, <2>4, LeaveCpu DEF Inv
  <2>7. parent' \in [Slot -> 0..NPROC]
    BY <2>1 DEF Inv, TypeOK
  <2>8. TypeOK'
    BY <2>1, <2>5, <2>6, <2>7 DEF Inv, TypeOK
  <2>9. Family'
    BY <1>2, <2>1, <2>4 DEF Inv, TypeOK, Family
  <2>10. SomeoneReaps'
    <3> SUFFICES ASSUME NEW t \in Slot \ {initproc}
                 PROVE  IF state'[t] = "UNUSED" THEN parent'[t] = 0
                        ELSE parent'[t] # 0 /\ state'[parent'[t]] \notin {"UNUSED", "ZOMBIE"}
      BY DEF SomeoneReaps
    <3>1. state'[t] = "UNUSED" <=> state[t] = "UNUSED"
      BY <2>1, <2>3, <2>4
    <3>2. CASE parent[t] = s
      BY <1>2, <2>1, <2>4, <2>9, <3>1, <3>2 DEF Family, Inv, SomeoneReaps
    <3>3. CASE parent[t] # s
      <4>1. parent'[t] = parent[t]
        BY <2>1, <3>3
      <4>2. CASE state[t] = "UNUSED"
        BY <3>1, <4>1, <4>2 DEF Inv, SomeoneReaps
      <4>3. CASE state[t] # "UNUSED"
        <5>1. parent[t] \in Slot /\ state[parent[t]] \notin {"UNUSED", "ZOMBIE"}
          BY <4>3 DEF Inv, TypeOK, SomeoneReaps
        <5> QED
          BY <2>4, <3>1, <3>3, <4>1, <4>3, <5>1
      <4> QED
        BY <4>2, <4>3
    <3> QED
      BY <3>2, <3>3
  <2>11. WaiterNotStranded'
    <3> SUFFICES ASSUME NEW w \in Slot, state'[w] = "SLEEPING", chan'[w] = w
                 PROVE  Children(w)' # {} /\ Zombies(w)' = {} /\ ~killed'[w]
      BY DEF WaiterNotStranded
    <3>1. w # s /\ state[w] = "SLEEPING" /\ chan[w] = w /\ w # parent[s]
      BY <2>1, <2>3, <2>4
    <3>2. Children(w) # {} /\ Zombies(w) = {} /\ ~killed[w]
      BY <3>1 DEF Inv, WaiterNotStranded
    <3>3. Children(w)' # {}
      BY <2>1, <3>1, <3>2 DEF Children
    <3>4. ASSUME NEW k \in Slot, parent'[k] = w PROVE state'[k] # "ZOMBIE"
      <4>1. k # s
        BY <2>1, <3>1, <3>4 DEF Inv, Family
      <4>2. state[k] # "ZOMBIE"
        <5>1. CASE parent[k] = s
          BY <2>1, <2>4, <3>1, <3>4, <5>1 DEF Children
        <5>2. CASE parent[k] # s
          BY <2>1, <3>2, <3>4, <5>2 DEF Children, Zombies
        <5> QED
          BY <5>1, <5>2
      <4> QED
        BY <2>4, <4>1, <4>2
    <3> QED
      BY <2>1, <3>2, <3>3, <3>4 DEF Children, Zombies
  <2> QED
    BY <2>6, <2>8, <2>9, <2>10, <2>11 DEF Inv
<1> QED
  BY <1>1, <1>2

\* wait() frees the slot of a zombie, which is nobody's parent.
LEMMA WaitReapInv == ASSUME Inv, NEW s \in Slot, WaitReap(s) PROVE Inv'
<1> DEFINE k == Min(Zombies(s))
<1>1. k \in Slot /\ parent[k] = s /\ state[k] = "ZOMBIE"
  <2>1. Zombies(s) \in SUBSET Slot /\ Zombies(s) # {}
    BY DEF WaitReap, Zombies, Children
  <2>2. Min(Zombies(s)) \in Zombies(s)
    BY <2>1, MinIn
  <2> QED
    BY <2>2 DEF Zombies, Children
<1>2. /\ pid' = [pid EXCEPT ![k] = 0]
      /\ parent' = [parent EXCEPT ![k] = 0]
      /\ killed' = [killed EXCEPT ![k] = FALSE]
      /\ state' = [state EXCEPT ![k] = "UNUSED"]
      /\ pc' = [pc EXCEPT ![s] = "ret", ![k] = "user"]
      /\ UNCHANGED <<chan, cpu, pos, nextpid>>
      /\ state[s] = "RUNNING"
  BY DEF WaitReap, Running
<1> HIDE DEF k
<1> USE <1>1, <1>2
<1>3. TypeOK'
  <2>1. pc' \in [Slot -> Phase]
    BY DEF Inv, TypeOK
  <2>2. pid' \in [Slot -> 0..MaxPid] /\ parent' \in [Slot -> 0..NPROC]
    BY DEF Inv, TypeOK
  <2>3. killed' \in [Slot -> BOOLEAN] /\ state' \in [Slot -> State \ {"EMBRYO"}]
    BY DEF Inv, TypeOK
  <2> QED
    BY <2>1, <2>2, <2>3 DEF Inv, TypeOK
<1>4. CpuInv'
  BY DEF Inv, TypeOK, CpuInv, Running
<1>5. Family'
  BY DEF Inv, TypeOK, Family
<1>6. ASSUME NEW t \in Slot PROVE parent[t] # k
  <2>1. CASE t = initproc
    BY <2>1 DEF Inv, Family
  <2>2. CASE t # initproc
    <3>1. IF state[t] = "UNUSED" THEN parent[t] = 0
          ELSE parent[t] # 0 /\ state[parent[t]] \notin {"UNUSED", "ZOMBIE"}
      BY <2>2 DEF Inv, SomeoneReaps
    <3> QED
      BY <3>1
  <2> QED
    BY <2>1, <2>2
<1>7. SomeoneReaps'
  BY <1>6 DEF Inv, TypeOK, Family, SomeoneReaps
<1>8. WaiterNotStranded'
  <2> SUFFICES ASSUME NEW w \in Slot, state'[w] = "SLEEPING", chan'[w] = w
               PROVE  Children(w)' # {} /\ Zombies(w)' = {} /\ ~killed'[w]
    BY DEF WaiterNotStranded
  <2>1. w # k /\ w # s /\ state[w] = "SLEEPING" /\ chan[w] = w
    BY DEF Inv, TypeOK
  <2>2. Children(w) # {} /\ Zombies(w) = {} /\ ~killed[w]
    BY <2>1 DEF Inv, WaiterNotStranded
  <2>3. Children(w)' = Children(w) /\ k \notin Children(w)
    BY <2>1 DEF Inv, TypeOK, Children
  <2> QED
    BY <2>1, <2>2, <2>3 DEF Inv, TypeOK, Zombies
<1> QED
  BY <1>3, <1>4, <1>5, <1>7, <1>8 DEF Inv

\* A process goes to sleep: in wait(), only with a child alive and none to
\* collect; elsewhere, on a channel that is no process.
LEMMA AsleepInv == ASSUME Inv, NEW s \in Slot, NEW ch \in Channel,
                          Running(s), Leave(s),
                          chan' = [chan EXCEPT ![s] = ch],
                          state' = [state EXCEPT ![s] = "SLEEPING"],
                          pc' \in [Slot -> Phase],
                          UNCHANGED <<pid, parent, killed, pos, nextpid>>,
                          ch = s => /\ Children(s) # {} /\ Zombies(s) = {}
                                    /\ ~killed[s]
                   PROVE  Inv'
<1>1. CpuInv' /\ cpu' \in [CPU -> 0..NPROC]
  BY LeaveCpu DEF Inv, TypeOK
<1>2. TypeOK'
  BY <1>1 DEF Inv, TypeOK
<1>k. \A u \in Slot : \A x \in {"UNUSED", "ZOMBIE"} : state'[u] = x <=> state[u] = x
  BY DEF Inv, TypeOK, Running
<1>3. /\ Family' /\ SomeoneReaps'
      /\ \A u \in Slot : Children(u)' = Children(u)
      /\ \A u \in Slot : Zombies(u)' = Zombies(u)
  BY <1>k, SameKin
<1>4. WaiterNotStranded'
  <2> SUFFICES ASSUME NEW u \in Slot, state'[u] = "SLEEPING", chan'[u] = u
               PROVE  Children(u)' # {} /\ Zombies(u)' = {} /\ ~killed'[u]
    BY DEF WaiterNotStranded
  <2>1. CASE u = s
    BY <1>3, <2>1 DEF Inv, TypeOK
  <2>2. CASE u # s
    <3>1. state[u] = "SLEEPING" /\ chan[u] = u
      BY <2>2 DEF Inv, TypeOK
    <3> QED
      BY <1>3, <3>1 DEF Inv, WaiterNotStranded
  <2> QED
    BY <2>1, <2>2
<1> QED
  BY <1>1, <1>2, <1>3, <1>4 DEF Inv

LEMMA WaitSleepInv == ASSUME Inv, NEW s \in Slot, WaitSleep(s) PROVE Inv'
<1>1. s \in Channel
  BY DEF Channel
<1>2. pc' \in [Slot -> Phase]
  BY DEF WaitSleep, Inv, TypeOK
<1> QED
  BY <1>1, <1>2, AsleepInv DEF WaitSleep

LEMMA SleepInv == ASSUME Inv, NEW s \in Slot, Sleep(s) PROVE Inv'
<1>1. PICK ch \in Devices \cup {ticks} : chan' = [chan EXCEPT ![s] = ch]
  BY DEF Sleep
<1>2. ch \in Channel /\ ch # s
  BY <1>1 DEF Channel
<1>3. pc' \in [Slot -> Phase]
  BY DEF Sleep, Inv, TypeOK
<1> QED
  BY <1>1, <1>2, <1>3, AsleepInv DEF Sleep

LEMMA KillInv == ASSUME Inv, NEW s \in Slot, NEW k, Kill(s, k) PROVE Inv'
<1> DEFINE hit == {t \in Slot : pid[t] = k}
<1>1. pc' \in [Slot -> Phase]
  BY DEF Kill, Inv, TypeOK
<1>2. CASE hit = {}
  BY <1>1, <1>2, PcOnly DEF Kill
<1>3. CASE hit # {}
  <2> DEFINE t == Min(hit)
  <2>1. t \in Slot
    <3>1. hit \in SUBSET Slot
      OBVIOUS
    <3> QED
      BY <1>3, <3>1, MinIn
  <2>2. /\ killed' = [killed EXCEPT ![t] = TRUE]
        /\ state' = [state EXCEPT ![t] = IF state[t] = "SLEEPING" THEN "RUNNABLE"
                                         ELSE state[t]]
        /\ UNCHANGED <<pid, parent, chan, cpu, pos, nextpid>>
    BY <1>3 DEF Kill
  <2> HIDE DEF t
  <2>3. TypeOK'
    BY <1>1, <2>1, <2>2 DEF Inv, TypeOK
  <2>4. CpuInv'
    BY <2>1, <2>2 DEF Inv, TypeOK, CpuInv, Running
  <2>5. /\ parent' = parent
        /\ \A u \in Slot : \A x \in {"UNUSED", "ZOMBIE"} : state'[u] = x <=> state[u] = x
    BY <2>1, <2>2 DEF Inv, TypeOK
  <2>6. Family' /\ SomeoneReaps'
    BY <2>5, SameKin
  <2>7. \A u \in Slot : state'[u] = "SLEEPING" /\ chan'[u] = u =>
           /\ state[u] = "SLEEPING" /\ chan[u] = u /\ killed'[u] = killed[u]
    BY <2>1, <2>2 DEF Inv, TypeOK
  <2>8. WaiterNotStranded'
    BY <2>5, <2>7, SameWaiters
  <2> QED
    BY <2>3, <2>4, <2>6, <2>8 DEF Inv
<1> QED
  BY <1>2, <1>3

LEMMA StepInv == Inv /\ [Next]_vars => Inv'
<1> SUFFICES ASSUME Inv, [Next]_vars PROVE Inv'
  OBVIOUS
<1>1. CASE UNCHANGED vars
  BY <1>1, PcOnly DEF vars, Inv, TypeOK
<1>2. ASSUME NEW c \in CPU, Schedule(c) \/ NextPass(c) PROVE Inv'
  BY <1>2, ScheduleInv, NextPassInv
<1>3. ASSUME NEW s \in Slot, Timer(s) \/ User(s) \/ Kernel(s) \/ BlockDone(s)
      PROVE  Inv'
  <2>1. CASE Timer(s)
    BY <2>1, TimerInv
  <2>2. CASE \/ SyscallKilled(s) \/ ForkNoSlot(s) \/ CallExit(s) \/ CallWait(s)
            \/ CallBlock(s) \/ Return(s) \/ WaitGiveUp(s) \/ BlockTest(s)
            \/ BlockDone(s)
    <3>1. pc' \in [Slot -> Phase]
      BY <2>2 DEF Inv, TypeOK, SyscallKilled, ForkNoSlot, CallExit, CallWait,
                  CallBlock, Return, WaitGiveUp, BlockTest, BlockDone
    <3>2. UNCHANGED <<state, pid, parent, killed, chan, cpu, pos, nextpid>>
      BY <2>2 DEF SyscallKilled, ForkNoSlot, CallExit, CallWait, CallBlock,
                  Return, WaitGiveUp, BlockTest, BlockDone
    <3> QED
      BY <3>1, <3>2, PcOnly
  <2>3. CASE Fault(s) \/ ForkNoMemory(s) \/ Fork(s)
    BY <2>3, FaultInv, ForkNoMemoryInv, ForkInv
  <2>4. CASE \E k \in Targets : Kill(s, k)
    BY <2>4, KillInv
  <2>5. CASE Exit(s) \/ WaitReap(s) \/ WaitSleep(s) \/ Sleep(s)
    BY <2>5, ExitInv, WaitReapInv, WaitSleepInv, SleepInv
  <2> QED
    BY <1>3, <2>1, <2>2, <2>3, <2>4, <2>5 DEF User, Kernel
<1>4. ASSUME NEW ch \in Devices \cup {ticks}, Wakeup(ch) PROVE Inv'
  BY <1>4, WakeupInv
<1> QED
  BY <1>1, <1>2, <1>3, <1>4 DEF Next

LEMMA InvHolds == Spec => []Inv
BY InitInv, StepInv, PTL DEF Spec

-----------------------------------------------------------------------------
\* Type correctness; no slot stays EMBRYO outside of ptable.lock.
THEOREM TypeCorrect == Spec => []TypeOK
BY InvHolds, PTL DEF Inv

\* No process is ever on two CPUs, and a RUNNING one is on one (scheduler(),
\* wakeup1(), kill()).
THEOREM NeverTwoCpus == Spec => []OneCpuEach
<1>1. Inv => OneCpuEach
  <2> SUFFICES ASSUME Inv, NEW s \in Slot
               PROVE  Cardinality({c \in CPU : cpu[c] = s}) =
                         IF Running(s) THEN 1 ELSE 0
    BY DEF OneCpuEach
  <2>1. CASE Running(s)
    <3>1. PICK c \in CPU : cpu[c] = s
      BY <2>1 DEF Inv, CpuInv
    <3>2. {d \in CPU : cpu[d] = s} = {c}
      BY <3>1 DEF Inv, CpuInv
    <3> QED
      BY <2>1, <3>2, FS_Singleton
  <2>2. CASE ~Running(s)
    <3>1. {c \in CPU : cpu[c] = s} = {}
      BY <2>2 DEF Inv, CpuInv
    <3> QED
      BY <2>2, <3>1, FS_EmptySet
  <2> QED
    BY <2>1, <2>2
<1> QED
  BY <1>1, InvHolds, PTL

\* exit() and wait() never lose a process: its parent lives and can reap it.
THEOREM EveryoneReapable == Spec => []SomeoneReaps
BY InvHolds, PTL DEF Inv

\* No wakeup of wait() is lost, whatever the order of exit(), kill() and
\* wait() on any number of CPUs, reparenting to init included.
THEOREM WaitMissesNothing == Spec => []WaiterNotStranded
BY InvHolds, PTL DEF Inv

-----------------------------------------------------------------------------
(* The start of the machine: the firmware's tables *)

FirmwareType == [ebda : Pointers, base : Pointers, rom : Pointers, conf : Tables]

\* Some place has a first one of the positions that are of interest in it.
LEMMA FirstOne ==
    ASSUME NEW S \in SUBSET Nat, S # {}
    PROVE  \E k \in S : \A j \in S : k <= j
<1> DEFINE R == OpToRel(<, Nat)
<1>1. IsWellFoundedOn(R, Nat)
  BY NatLessThanWellFounded
<1>2. \A x, y \in Nat : y < x => <<y, x>> \in R
  BY DEF OpToRel
<1> HIDE DEF R
<1>3. PICK x \in S : \A y \in S : ~ (<<y, x>> \in R)
  BY <1>1, WFMin, Zenon
<1>4. ASSUME NEW y \in S PROVE x <= y
  <2>1. x \in Nat /\ y \in Nat
    OBVIOUS
  <2>2. ~ (y < x)
    BY <1>2, <1>3, <2>1, Zenon
  <2> QED BY <2>1, <2>2
<1> QED BY <1>4

\* mpsearch1() finds the first sound pointer, if there is one.
LEMMA SearchOne ==
    ASSUME NEW place \in Pointers
    PROVE  /\ mpsearch1(place) = <<>> <=> Void(place)
           /\ mpsearch1(place) # <<>> => /\ Len(mpsearch1(place)) = 1
                                         /\ mpsearch1(place)[1].physaddr <=> Leads(place)
<1> DEFINE ok == {k \in DOMAIN place : place[k].sig /\ place[k].sum = 0}
           k == CHOOSE x \in ok : \A j \in ok : x <= j
<1>0. DOMAIN place = 1 .. Len(place) /\ Len(place) \in Nat
  BY DEF Pointers
<1>1. ok \in SUBSET Nat /\ \A j \in 1 .. Len(place) : j \in ok <=> Sound(place[j])
  BY <1>0 DEF Sound
<1>2. mpsearch1(place) = IF ok = {} THEN <<>> ELSE <<place[k]>>
  BY DEF mpsearch1
<1>3. ok = {} <=> Void(place)
  BY <1>0, <1>1 DEF Void
<1>4. ok \subseteq 1 .. Len(place)
  BY <1>0
<1> HIDE DEF ok
<1>5. CASE ok = {}
  BY <1>2, <1>3, <1>5
<1>6. CASE ok # {}
  <2>1. k \in ok /\ \A j \in ok : k <= j
    BY <1>1, <1>6, FirstOne
  <2> HIDE DEF k
  <2>2. /\ mpsearch1(place) = <<place[k]>>
        /\ mpsearch1(place) # <<>> /\ Len(mpsearch1(place)) = 1 /\ mpsearch1(place)[1] = place[k]
    BY <1>2, <1>6
  <2>3. k \in 1 .. Len(place) /\ Sound(place[k])
    BY <1>1, <1>4, <2>1
  <2>4. \A j \in 1 .. k - 1 : ~Sound(place[j])
    BY <1>0, <1>1, <2>1, <2>3
  <2>5. ASSUME NEW j \in 1 .. Len(place), Sound(place[j]), \A i \in 1 .. j - 1 : ~Sound(place[i])
        PROVE  j = k
    BY <1>0, <2>3, <2>4, <2>5
  <2>6. place[k].physaddr <=> Leads(place)
    BY <1>0, <2>3, <2>4, <2>5 DEF Leads
  <2> QED BY <1>3, <1>6, <2>2, <2>6
<1> QED BY <1>5, <1>6

\* mpconfig() accepts the table exactly when the first sound pointer leads to
\* it and it is sound.
Usable == LET low == IF fw.ebda # <<>> THEN fw.ebda ELSE fw.base IN
          /\ Leads(low) \/ (Void(low) /\ Leads(fw.rom))
          /\ Sound(fw.conf) /\ fw.conf.version \in {1, 4}

LEMMA Accepted == ASSUME fw \in FirmwareType PROVE mpconfig # <<>> <=> Usable
<1> DEFINE low == IF fw.ebda # <<>> THEN fw.ebda ELSE fw.base
           one == mpsearch1(low)
           two == mpsearch1(fw.rom)
<1>1. low \in Pointers /\ fw.rom \in Pointers
  BY DEF FirmwareType
<1>2. mpsearch = IF one # <<>> THEN one ELSE two
  BY DEF mpsearch
<1>3. /\ one = <<>> <=> Void(low)
      /\ one # <<>> => (one[1].physaddr <=> Leads(low))
  BY <1>1, SearchOne
<1>4. /\ two = <<>> <=> Void(fw.rom)
      /\ two # <<>> => (two[1].physaddr <=> Leads(fw.rom))
  BY <1>1, SearchOne
<1>5. ~(Void(low) /\ Leads(low)) /\ ~(Void(fw.rom) /\ Leads(fw.rom))
  BY DEF Void, Leads
<1>6. mpconfig # <<>> <=> /\ mpsearch # <<>> /\ mpsearch[1].physaddr
                          /\ fw.conf.sig /\ fw.conf.version \in {1, 4} /\ fw.conf.sum = 0
  BY DEF mpconfig
<1>7. Usable <=> /\ Leads(low) \/ (Void(low) /\ Leads(fw.rom))
                 /\ fw.conf.sig /\ fw.conf.sum = 0 /\ fw.conf.version \in {1, 4}
  BY DEF Usable, Sound
<1> HIDE DEF low, one, two
<1>8. mpsearch # <<>> /\ mpsearch[1].physaddr <=> Leads(low) \/ (Void(low) /\ Leads(fw.rom))
  <2>1. CASE one # <<>>
    BY <1>2, <1>3, <1>5, <2>1
  <2>2. CASE one = <<>>
    <3>1. mpsearch = two
      BY <1>2, <2>2
    <3>2. Void(low) /\ ~Leads(low)
      BY <1>3, <1>5, <2>2
    <3>3. two # <<>> /\ two[1].physaddr <=> Leads(fw.rom)
      BY <1>4, <1>5
    <3> QED BY <3>1, <3>2, <3>3
  <2> QED BY <2>1, <2>2
<1> QED BY <1>6, <1>7, <1>8, Zenon

\* The processors among the entries, counted from the front.
LEMMA ProcsCount ==
    ASSUME NEW n \in Nat
    PROVE  /\ Procs(n) \in 0 .. n
           /\ Procs(n + 1) = IF fw.conf.entries[n + 1].type = "proc" THEN Procs(n) + 1 ELSE Procs(n)
           /\ \A k \in 0 .. n : Procs(k) <= Procs(n)
<1> DEFINE S(m) == {k \in 1 .. m : fw.conf.entries[k].type = "proc"}
<1>1. ASSUME NEW m \in Nat PROVE IsFiniteSet(S(m)) /\ Cardinality(S(m)) \in 0 .. m
  <2>1. IsFiniteSet(1 .. m) /\ Cardinality(1 .. m) = m
    BY FS_Interval
  <2>2. S(m) \in SUBSET (1 .. m)
    OBVIOUS
  <2> HIDE DEF S
  <2>3. IsFiniteSet(S(m)) /\ Cardinality(S(m)) <= m
    BY <2>1, <2>2, FS_Subset
  <2> QED BY <2>3, FS_CardinalityType
<1>2. \A m : Procs(m) = Cardinality(S(m))
  BY DEF Procs
<1>3. ASSUME fw.conf.entries[n + 1].type = "proc"
      PROVE  Procs(n + 1) = Procs(n) + 1
  <2>1. S(n + 1) = S(n) \cup {n + 1} /\ n + 1 \notin S(n)
    BY <1>3
  <2> HIDE DEF S
  <2>2. IsFiniteSet(S(n)) /\ n + 1 \in Nat
    BY <1>1
  <2>3. Cardinality(S(n) \cup {n + 1}) = Cardinality(S(n)) + 1
    BY <2>1, <2>2, FS_AddElement
  <2> QED BY <1>2, <2>1, <2>3
<1>4. fw.conf.entries[n + 1].type # "proc" => S(n + 1) = S(n)
  OBVIOUS
<1>5. ASSUME NEW k \in 0 .. n PROVE Cardinality(S(k)) <= Cardinality(S(n))
  <2>1. S(k) \in SUBSET S(n)
    OBVIOUS
  <2> HIDE DEF S
  <2> QED BY <1>1, <2>1, FS_Subset
<1> HIDE DEF S
<1>6. Procs(n) \in 0 .. n
  BY <1>1, <1>2
<1>7. \A k \in 0 .. n : Procs(k) <= Procs(n)
  BY <1>2, <1>5
<1> QED BY <1>2, <1>3, <1>4, <1>6, <1>7

-----------------------------------------------------------------------------
(* The start of the machine: the segments of the kernel *)

\* A segment is in memory, its rest zero.
Whole(ph, m) == \A i \in 0 .. ph.memsz - 1 :
                    m[ph.pa + i] = IF i < ph.filesz THEN <<"image", ph.off + i>> ELSE <<"zero", 0>>

LEMMA Quotient ==
    ASSUME NEW a \in Nat, NEW d \in Nat \ {0}
    PROVE  a \div d \in Nat /\ a % d \in 0 .. d - 1 /\ a = (a \div d) * d + (a % d)
OBVIOUS

\* Whole sectors reach at least as far as the bytes that are wanted.
LEMMA SectorsReach ==
    ASSUME NEW x \in Nat, NEW d \in Nat \ {0}
    PROVE  ((x + d - 1) \div d) * d >= x /\ ((x + d - 1) \div d) * d \in Nat
<1> DEFINE q == (x + d - 1) \div d
           r == (x + d - 1) % d
<1>1. q \in Nat /\ r \in 0 .. d - 1 /\ x + d - 1 = q * d + r
  OBVIOUS
<1> HIDE DEF q, r
<1>2. q * d \in Nat
  BY <1>1
<1> DEFINE p == q * d
<1> HIDE DEF p
<1>3. x + d - 1 = p + r /\ p \in Nat
  BY <1>1, <1>2 DEF p
<1>4. p >= x
  BY <1>1, <1>3
<1> QED BY <1>3, <1>4 DEF p, q

\* A byte of the file that is wanted is among the sectors that are read.
LEMMA ByteRead ==
    ASSUME NEW o \in Nat, NEW b \in Nat, NEW f \in Nat, NEW n \in Nat, NEW c \in Nat, n >= o + c, NEW i \in Nat, i < c
    PROVE  (f + o) + i \in f .. f + n - 1 /\ b + ((f + o) + i) - f = (b + o) + i
OBVIOUS

\* The memory s is m with n bytes of the image, from its byte b on, at the
\* address f; r is s with the rest of the segment 0. The address f is as far in
\* front of the segment as the byte b is, and the bytes reach to its end.
Loading(ph, m, s, r, o, b, f, n) ==
    /\ ph \in [pa : Nat, off : Nat, filesz : Nat, memsz : Nat] /\ PHYSTOP \in Nat
    /\ DOMAIN m = 0 .. PHYSTOP - 1 /\ ph.pa + ph.memsz <= PHYSTOP
    /\ o \in Nat /\ b \in Nat /\ f \in Nat /\ n \in Nat
    /\ ph.pa = f + o /\ ph.off = b + o /\ n >= o + ph.filesz
    /\ s = [a \in DOMAIN m |-> IF a \in f .. f + n - 1 THEN <<"image", b + a - f>> ELSE m[a]]
    /\ r = [a \in DOMAIN s |-> IF a \in ph.pa + ph.filesz .. ph.pa + ph.memsz - 1 THEN <<"zero", 0>> ELSE s[a]]

LEMMA BytesLoaded ==
    ASSUME NEW ph, NEW m, NEW s, NEW r, NEW o, NEW b, NEW f, NEW n, Loading(ph, m, s, r, o, b, f, n)
    PROVE  /\ DOMAIN r = 0 .. PHYSTOP - 1
           /\ Whole(ph, r)
           /\ \A a \in 0 .. PHYSTOP - 1 : a < f => r[a] = m[a]
<1> DEFINE pa == ph.pa  c == ph.filesz  z == ph.memsz
<1>1. /\ pa \in Nat /\ ph.off \in Nat /\ c \in Nat /\ z \in Nat /\ PHYSTOP \in Nat
      /\ o \in Nat /\ b \in Nat /\ f \in Nat /\ n \in Nat
  BY DEF Loading
<1>2. /\ DOMAIN s = 0 .. PHYSTOP - 1 /\ DOMAIN r = 0 .. PHYSTOP - 1
      /\ \A a \in 0 .. PHYSTOP - 1 : s[a] = IF a \in f .. f + n - 1 THEN <<"image", b + a - f>> ELSE m[a]
      /\ \A a \in 0 .. PHYSTOP - 1 : r[a] = IF a \in pa + c .. pa + z - 1 THEN <<"zero", 0>> ELSE s[a]
  BY DEF Loading
<1>3. pa + z <= PHYSTOP /\ pa = f + o /\ ph.off = b + o
  BY DEF Loading
<1>4. n >= o + c
  BY DEF Loading
<1>5. \A i \in Nat : i < c => pa + i \in f .. f + n - 1 /\ b + (pa + i) - f = ph.off + i
  <2> HIDE DEF pa, c
  <2>1. ASSUME NEW i \in Nat, i < c
        PROVE  (f + o) + i \in f .. f + n - 1 /\ b + ((f + o) + i) - f = (b + o) + i
    BY <1>1, <1>4, <2>1, ByteRead
  <2> QED BY <1>3, <2>1
<1> HIDE DEF pa, c, z
<1>6. ASSUME NEW i \in 0 .. z - 1
      PROVE  r[pa + i] = IF i < c THEN <<"image", ph.off + i>> ELSE <<"zero", 0>>
  <2>1. pa + i \in 0 .. PHYSTOP - 1 /\ (pa + i \in pa + c .. pa + z - 1 <=> ~(i < c))
    BY <1>1, <1>3
  <2>2. CASE i < c
    <3>1. i \in Nat /\ pa + i \in f .. f + n - 1 /\ b + (pa + i) - f = ph.off + i
      BY <1>5, <2>2
    <3>2. s[pa + i] = <<"image", b + (pa + i) - f>>
      BY <1>2, <2>1, <3>1
    <3> QED BY <1>2, <2>1, <2>2, <3>1, <3>2
  <2>3. CASE ~(i < c)
    BY <1>2, <2>1, <2>3
  <2> QED BY <2>2, <2>3
<1>7. ASSUME NEW a \in 0 .. PHYSTOP - 1, a < f PROVE r[a] = m[a]
  <2>1. ~(a \in f .. f + n - 1) /\ ~(a \in pa + c .. pa + z - 1)
    BY <1>1, <1>3, <1>7
  <2> QED BY <1>2, <2>1
<1> QED BY <1>2, <1>6, <1>7 DEF Whole, pa, c, z

Loads(r, ph, m) ==
    /\ ph \in [pa : Nat, off : Nat, filesz : Nat, memsz : Nat]
    /\ DOMAIN m = 0 .. PHYSTOP - 1 /\ ph.off % SECTSIZE <= ph.pa /\ ph.pa + ph.memsz <= PHYSTOP
    /\ r = stosb(readseg(m, ph.pa, ph.filesz, ph.off), ph)
\* One round of the loop of bootmain() loads its segment, and changes nothing in
\* front of the sector the segment begins in.
LEMMA LoadOne ==
    ASSUME NEW ph, NEW m, NEW r, Loads(r, ph, m), SECTSIZE \in Nat \ {0}, PHYSTOP \in Nat
    PROVE  /\ DOMAIN r = 0 .. PHYSTOP - 1
           /\ Whole(ph, r)
           /\ \A a \in 0 .. PHYSTOP - 1 : a < ph.pa - (ph.off % SECTSIZE) => r[a] = m[a]
<1> DEFINE o == ph.off % SECTSIZE
           q == ph.off \div SECTSIZE
           b == q * SECTSIZE
           f == ph.pa - o
           n == Span(f, ph.pa + ph.filesz)
           s == readseg(m, ph.pa, ph.filesz, ph.off)
<1>0. /\ ph \in [pa : Nat, off : Nat, filesz : Nat, memsz : Nat]
      /\ DOMAIN m = 0 .. PHYSTOP - 1 /\ o <= ph.pa /\ ph.pa + ph.memsz <= PHYSTOP
  BY DEF Loads
<1>1. o \in 0 .. SECTSIZE - 1 /\ q \in Nat /\ ph.off = q * SECTSIZE + o
  BY <1>0, Quotient
<1>2. s = [a \in DOMAIN m |-> IF a \in f .. f + n - 1 THEN <<"image", b + a - f>> ELSE m[a]]
  BY DEF readseg, Sectors
<1>3. r = [a \in DOMAIN s |-> IF a \in ph.pa + ph.filesz .. ph.pa + ph.memsz - 1 THEN <<"zero", 0>> ELSE s[a]]
  BY DEF Loads, stosb
<1>4. n = (((ph.pa + ph.filesz) - f + SECTSIZE - 1) \div SECTSIZE) * SECTSIZE
  BY DEF Span
<1>5. o <= ph.pa
  BY <1>0
<1> HIDE DEF o, q
<1>6. b \in Nat
  BY <1>1
<1>7. ph.off = b + o
  BY <1>1
<1> HIDE DEF b, n, s
<1>8. ph.pa \in Nat /\ ph.filesz \in Nat /\ o \in Nat
  BY <1>0, <1>1
<1>9. f \in Nat /\ f + o = ph.pa /\ (ph.pa + ph.filesz) - f = o + ph.filesz /\ o + ph.filesz \in Nat
  BY <1>5, <1>8
<1>10. n >= o + ph.filesz /\ n \in Nat
  <2> DEFINE x == o + ph.filesz
  <2>1. x \in Nat /\ n = ((x + SECTSIZE - 1) \div SECTSIZE) * SECTSIZE
    BY <1>4, <1>9
  <2> HIDE DEF x
  <2>2. n >= x /\ n \in Nat
    BY <2>1, SectorsReach
  <2> QED BY <2>2 DEF x
<1> HIDE DEF f
<1>11. Loading(ph, m, s, r, o, b, f, n)
  BY <1>0, <1>2, <1>3, <1>6, <1>7, <1>8, <1>9, <1>10 DEF Loading
<1>12. /\ DOMAIN r = 0 .. PHYSTOP - 1
       /\ Whole(ph, r)
       /\ \A a \in 0 .. PHYSTOP - 1 : a < f => r[a] = m[a]
  BY <1>11, BytesLoaded
<1> QED BY <1>12 DEF f, o

-----------------------------------------------------------------------------
(* The start of the machine: the invariant *)

MpType == [pc : {"start", "table", "done", "boot"}, at : Nat, ismp : BOOLEAN, lapic : BOOLEAN,
           cpus : Seq(Nat), ioapicid : Nat]
StartTypes ==
    /\ fw \in FirmwareType
    /\ mp \in MpType
    /\ elf \in [ph : Segments, n : Nat]

\* In front of p the entries are known and noted; it stops at an unknown one.
Scan == /\ Usable /\ mp.lapic
        /\ mp.at \in 1 .. Len(fw.conf.entries) + 1
        /\ \A k \in 1 .. mp.at - 1 : Known(fw.conf.entries[k])
        /\ Listed(mp.at - 1)
        /\ ~mp.ismp => mp.at <= Len(fw.conf.entries) /\ ~Known(fw.conf.entries[mp.at])

\* The first segments of a kernel are loaded.
Boot == /\ elf.ph \in Kernels /\ elf.n <= Len(elf.ph)
        /\ DOMAIN phys = 0 .. PHYSTOP - 1
        /\ \A k \in 1 .. elf.n : Whole(elf.ph[k], phys)

StartInv == /\ StartTypes
            /\ mp.pc = "start" => mp = Mp("start")
            /\ mp.pc = "table" => Scan
            /\ mp.pc = "boot" => Boot
            /\ MpFound

LEMMA StartInitInv == StartInit => StartInv
<1> SUFFICES ASSUME StartInit PROVE StartInv
  OBVIOUS
<1>1. <<>> \in Pointers /\ <<>> \in Segments
  BY DEF Pointers, Segments
<1>2. NoFirmware \in FirmwareType
  BY <1>1 DEF NoFirmware, FirmwareType, Tables
<1>3. NoKernel \in [ph : Segments, n : Nat]
  BY <1>1 DEF NoKernel
<1>4. StartTypes /\ mp.pc \in {"start", "boot"}
  <2>1. fw \in FirmwareType
    BY <1>2, StartAssumption DEF StartInit, FirmwareType
  <2>2. mp \in {Mp("start"), Mp("boot")}
    BY DEF StartInit
  <2>4. ASSUME NEW c \in {"start", "boot"} PROVE Mp(c) \in MpType /\ Mp(c).pc = c
    <3>1. <<>> \in Seq(Nat)
      OBVIOUS
    <3> QED BY <3>1 DEF Mp, MpType
  <2>3. elf \in [ph : Segments, n : Nat]
    BY <1>3, StartAssumption DEF StartInit
  <2> QED BY <2>1, <2>2, <2>3, <2>4 DEF StartTypes
<1>5. mp.pc = "start" => mp = Mp("start")
  BY DEF StartInit, Mp
<1>6. mp.pc = "boot" => Boot
  BY StartAssumption DEF StartInit, Boot, Mp, Segments
<1> QED BY <1>4, <1>5, <1>6 DEF StartInv, MpFound

\* One more entry is noted.
LEMMA EntryNoted ==
    ASSUME StartTypes, Scan, mp.pc = "table", entry, NCPU \in Nat \ {0}
    PROVE  StartTypes' /\ Scan' /\ mp'.pc = "table"
<1>1. PICK a : a = mp.at
  OBVIOUS
<1> DEFINE t == fw.conf.entries
           e == t[a]
<1>2. fw' = fw /\ elf' = elf /\ a \in Nat \ {0} /\ a <= Len(t) /\ mp' = Entered(e)
  BY <1>1 DEF entry, Scan
<1>3. t \in Seq([type : STRING, id : Nat])
  BY DEF StartTypes, FirmwareType, Tables
<1>4. Len(t) \in Nat /\ e \in [type : STRING, id : Nat] /\ e.id \in Nat
  <2> HIDE DEF t
  <2>1. Len(t) \in Nat /\ a \in 1 .. Len(t)
    BY <1>2, <1>3
  <2>2. t[a] \in [type : STRING, id : Nat]
    BY <1>3, <2>1, ElementOfSeq
  <2> QED BY <2>1, <2>2
<1>5. (Usable' <=> Usable) /\ \A k : Procs(k)' = Procs(k)
  BY <1>2 DEF Usable, Procs
<1>6. /\ Procs(a - 1) \in 0 .. a - 1
      /\ Procs(a) = IF e.type = "proc" THEN Procs(a - 1) + 1 ELSE Procs(a - 1)
      /\ \A k \in 1 .. a - 1 : Procs(k) <= Procs(a - 1) /\ Procs(k) \in Nat
      /\ \A k \in 1 .. a : t[k].type = "proc" => Procs(k) >= 1
  <2>1. a - 1 \in Nat /\ (a - 1) + 1 = a
    BY <1>2
  <2>2. ASSUME NEW k \in 1 .. a - 1 PROVE Procs(k) <= Procs(a - 1) /\ Procs(k) \in Nat
    BY <2>1, ProcsCount
  <2>3. ASSUME NEW k \in 1 .. a, t[k].type = "proc" PROVE Procs(k) >= 1
    <3>1. k - 1 \in Nat /\ (k - 1) + 1 = k
      BY <1>2
    <3>2. Procs(k - 1) \in Nat /\ Procs(k) = Procs(k - 1) + 1
      BY <2>3, <3>1, ProcsCount
    <3> QED BY <3>2
  <2> QED BY <2>1, <2>2, <2>3, ProcsCount
<1>7. /\ Usable /\ mp.lapic /\ \A k \in 1 .. a - 1 : Known(t[k])
      /\ ~mp.ismp => ~Known(e)
      /\ Len(mp.cpus) = IF Procs(a - 1) < NCPU THEN Procs(a - 1) ELSE NCPU
      /\ \A k \in 1 .. a - 1 :
            /\ t[k].type = "proc" /\ Procs(k) <= NCPU => mp.cpus[Procs(k)] = t[k].id
            /\ t[k].type = "ioapic" /\ (\A j \in k + 1 .. a - 1 : t[j].type # "ioapic") => mp.ioapicid = t[k].id
  BY <1>1 DEF Scan, Listed
<1>8. mp \in MpType /\ mp.cpus \in Seq(Nat) /\ Len(mp.cpus) \in Nat
  BY DEF StartTypes, MpType
\* What is to be shown when p goes on, with the entry noted in c and o.
<1>9. ASSUME NEW c, NEW o, mp' \in MpType, mp'.pc = mp.pc, mp'.at = a + 1, mp'.cpus = c, mp'.ioapicid = o,
             mp'.ismp = mp.ismp, mp'.lapic = mp.lapic,
             Known(e), Len(c) = IF Procs(a) < NCPU THEN Procs(a) ELSE NCPU,
             \A k \in 1 .. a : /\ t[k].type = "proc" /\ Procs(k) <= NCPU => c[Procs(k)] = t[k].id
                               /\ t[k].type = "ioapic" /\ (\A j \in k + 1 .. a : t[j].type # "ioapic") => o = t[k].id
      PROVE  StartTypes' /\ Scan' /\ mp'.pc = "table"
  <2>1. /\ mp' \in MpType /\ mp'.pc = mp.pc /\ mp'.at = a + 1 /\ mp'.cpus = c /\ mp'.ioapicid = o
        /\ mp'.ismp = mp.ismp /\ mp'.lapic = mp.lapic
    BY <1>9
  <2>2. mp'.at - 1 = a /\ a + 1 \in 1 .. Len(t) + 1
    BY <1>2, <1>4, <2>1
  <2>3. \A k \in 1 .. a : Known(t[k])
    BY <1>2, <1>7, <1>9
  <2>4. mp'.ismp
    BY <1>7, <1>9, <2>1
  <2>5. StartTypes'
    BY <1>2, <2>1 DEF StartTypes
  <2>6. (Listed(mp.at - 1))'
    <3>1. (Procs(mp.at - 1))' = Procs(a)
      BY <1>2, <2>2 DEF Procs
    <3>2. Len(mp'.cpus) = IF (Procs(mp.at - 1))' < NCPU THEN (Procs(mp.at - 1))' ELSE NCPU
      BY <1>9, <2>1, <3>1
    <3>3. ASSUME NEW k \in 1 .. mp'.at - 1, fw'.conf.entries[k].type = "proc", Procs(k)' <= NCPU
          PROVE  mp'.cpus[Procs(k)'] = fw'.conf.entries[k].id
      <4>1. k \in 1 .. a /\ fw.conf.entries[k].type = "proc"
        BY <1>2, <2>2, <3>3
      <4>2. Procs(k)' = Procs(k)
        BY <1>5
      <4>3. Procs(k) <= NCPU
        BY <3>3, <4>2
      <4>4. c[Procs(k)] = fw.conf.entries[k].id
        BY <1>9, <4>1, <4>3
      <4> QED BY <1>2, <2>1, <4>2, <4>4
    <3>4. ASSUME NEW k \in 1 .. mp'.at - 1, fw'.conf.entries[k].type = "ioapic",
                 \A j \in k + 1 .. mp'.at - 1 : fw'.conf.entries[j].type # "ioapic"
          PROVE  mp'.ioapicid = fw'.conf.entries[k].id
      BY <1>2, <1>9, <2>1, <2>2, <3>4
    <3> QED BY <3>2, <3>3, <3>4 DEF Listed
  <2>7. (\A k \in 1 .. mp.at - 1 : Known(fw.conf.entries[k]))'
    BY <1>2, <2>2, <2>3 DEF Known
  <2> QED BY <1>2, <1>5, <1>7, <2>1, <2>2, <2>4, <2>5, <2>6, <2>7 DEF Scan
<1>10. CASE e.type = "proc"
  <2> DEFINE c == mp.cpus
  <2>1. PICK d : d = IF Len(c) < NCPU THEN Append(c, e.id) ELSE c
    OBVIOUS
  <2>2. mp' = [mp EXCEPT !.cpus = d, !.at = a + 1]
    BY <1>1, <1>2, <1>10, <2>1 DEF Entered
  <2>3. /\ d \in Seq(Nat)
        /\ Len(d) = IF Len(c) < NCPU THEN Len(c) + 1 ELSE Len(c)
        /\ \A i \in 1 .. Len(c) : d[i] = c[i]
        /\ Len(c) < NCPU => d[Len(c) + 1] = e.id
    BY <1>4, <1>8, <2>1
  <2>4. /\ mp' \in MpType /\ mp'.pc = mp.pc /\ mp'.at = a + 1 /\ mp'.cpus = d /\ mp'.ioapicid = mp.ioapicid
        /\ mp'.ismp = mp.ismp /\ mp'.lapic = mp.lapic
    <3>1. /\ mp'.pc = mp.pc /\ mp'.at = a + 1 /\ mp'.cpus = d /\ mp'.ioapicid = mp.ioapicid
          /\ mp'.ismp = mp.ismp /\ mp'.lapic = mp.lapic
      BY <1>8, <2>2 DEF MpType
    <3>2. a + 1 \in Nat
      BY <1>2
    <3>3. mp' \in MpType
      BY <1>8, <2>2, <2>3, <3>2, ZenonT(40) DEF MpType
    <3> QED BY <3>1, <3>3
  <2> HIDE DEF c
  <2>5. Procs(a) = Procs(a - 1) + 1 /\ Procs(a - 1) \in Nat
    BY <1>6, <1>10
  <2>6. Len(c) = IF Procs(a - 1) < NCPU THEN Procs(a - 1) ELSE NCPU
    BY <1>7 DEF c
  <2>7. ASSUME NEW k \in 1 .. a, t[k].type = "proc", Procs(k) <= NCPU
        PROVE  d[Procs(k)] = t[k].id
    <3>1. CASE k = a
      BY <2>3, <2>5, <2>6, <2>7, <3>1
    <3>2. CASE k # a
      <4>1. k \in 1 .. a - 1
        BY <1>2, <3>2
      <4>2. c[Procs(k)] = t[k].id
        BY <1>7, <2>7, <4>1 DEF c
      <4>3. Procs(k) \in 1 .. Len(c)
        BY <1>6, <2>5, <2>6, <2>7, <4>1
      <4> QED BY <2>3, <4>2, <4>3
    <3> QED BY <3>1, <3>2
  <2>8. ASSUME NEW k \in 1 .. a, t[k].type = "ioapic", \A j \in k + 1 .. a : t[j].type # "ioapic"
        PROVE  mp.ioapicid = t[k].id
    <3>1. k \in 1 .. a - 1 /\ \A j \in k + 1 .. a - 1 : t[j].type # "ioapic"
      BY <1>2, <1>10, <2>8
    <3> QED BY <1>7, <2>8, <3>1
  <2>9. Len(d) = IF Procs(a) < NCPU THEN Procs(a) ELSE NCPU
    BY <2>3, <2>5, <2>6
  <2>10. Known(e) /\ mp.ioapicid \in Nat
    BY <1>8, <1>10 DEF Known, MpType
  <2> QED BY <1>9, <2>4, <2>3, <2>7, <2>8, <2>9, <2>10
<1>11. CASE e.type \in {"ioapic", "other"}
  <2>1. PICK o : o = IF e.type = "ioapic" THEN e.id ELSE mp.ioapicid
    OBVIOUS
  <2>2. mp' = [mp EXCEPT !.ioapicid = o, !.at = a + 1]
    BY <1>1, <1>2, <1>8, <1>11, <2>1 DEF Entered, MpType
  <2>3. /\ mp' \in MpType /\ mp'.pc = mp.pc /\ mp'.at = a + 1 /\ mp'.cpus = mp.cpus /\ mp'.ioapicid = o
        /\ mp'.ismp = mp.ismp /\ mp'.lapic = mp.lapic
    <3>1. o \in Nat
      BY <1>4, <1>8, <2>1 DEF MpType
    <3>2. /\ mp'.pc = mp.pc /\ mp'.at = a + 1 /\ mp'.cpus = mp.cpus /\ mp'.ioapicid = o
          /\ mp'.ismp = mp.ismp /\ mp'.lapic = mp.lapic
      BY <1>8, <2>2 DEF MpType
    <3>3. a + 1 \in Nat
      BY <1>2
    <3>4. mp' \in MpType
      BY <1>8, <2>2, <3>1, <3>3, ZenonT(40) DEF MpType
    <3> QED BY <3>2, <3>4
  <2>4. Procs(a) = Procs(a - 1) /\ e.type # "proc"
    BY <1>6, <1>11
  <2>5. ASSUME NEW k \in 1 .. a, t[k].type = "proc", Procs(k) <= NCPU
        PROVE  mp.cpus[Procs(k)] = t[k].id
    <3>1. k \in 1 .. a - 1
      BY <1>2, <2>4, <2>5
    <3> QED BY <1>7, <2>5, <3>1
  <2>6. ASSUME NEW k \in 1 .. a, t[k].type = "ioapic", \A j \in k + 1 .. a : t[j].type # "ioapic"
        PROVE  o = t[k].id
    <3>1. CASE k = a
      BY <2>1, <2>6, <3>1
    <3>2. CASE k # a
      <4>1. k \in 1 .. a - 1 /\ a \in k + 1 .. a /\ \A j \in k + 1 .. a - 1 : t[j].type # "ioapic"
        BY <1>2, <2>6, <3>2
      <4>2. e.type # "ioapic"
        BY <2>6, <4>1
      <4> QED BY <1>7, <2>1, <2>6, <4>1, <4>2
    <3> QED BY <3>1, <3>2
  <2>7. Len(mp.cpus) = IF Procs(a) < NCPU THEN Procs(a) ELSE NCPU
    BY <1>7, <2>4
  <2>8. Known(e)
    BY <1>11 DEF Known
  <2> QED BY <1>8, <1>9, <2>3, <2>5, <2>6, <2>7, <2>8
<1>12. CASE e.type \notin {"proc", "ioapic", "other"}
  <2>1. mp' = [mp EXCEPT !.ismp = FALSE]
    BY <1>2, <1>12 DEF Entered
  <2>2. /\ mp' \in MpType /\ mp'.pc = mp.pc /\ mp'.at = a /\ mp'.cpus = mp.cpus /\ mp'.ioapicid = mp.ioapicid
        /\ mp'.ismp = FALSE /\ mp'.lapic = mp.lapic
    BY <1>1, <1>8, <2>1 DEF MpType
  <2>3. StartTypes'
    BY <1>2, <2>2 DEF StartTypes
  <2>4. (Listed(mp.at - 1))'
    <3>1. (Procs(mp.at - 1))' = Procs(a - 1)
      BY <1>2, <2>2 DEF Procs
    <3> QED BY <1>2, <1>5, <1>7, <2>2, <3>1 DEF Listed
  <2>5. (\A k \in 1 .. mp.at - 1 : Known(fw.conf.entries[k]))'
    BY <1>2, <1>7, <2>2 DEF Known
  <2>6. (mp.at <= Len(fw.conf.entries) /\ ~Known(fw.conf.entries[mp.at]))'
    BY <1>2, <1>12, <2>2 DEF Known
  <2>7. mp'.at \in 1 .. Len(fw'.conf.entries) + 1
    BY <1>2, <1>4, <2>2
  <2> QED BY <1>2, <1>5, <1>7, <2>2, <2>3, <2>4, <2>5, <2>6, <2>7 DEF Scan
<1> QED BY <1>10, <1>11, <1>12

\* No step of mpinit() or bootmain() breaks the invariant.
LEMMA StartStep == StartInv /\ [StartNext]_startVars => StartInv'
<1> SUFFICES ASSUME StartInv, [StartNext]_startVars PROVE StartInv'
  OBVIOUS
<1>1. StartTypes /\ NCPU \in Nat \ {0} /\ SECTSIZE \in Nat \ {0} /\ PHYSTOP \in Nat
  BY StartAssumption DEF StartInv
<1>2. <<>> \in Seq(Nat)
  OBVIOUS
<1>3. CASE mpinit
  <2>1. fw' = fw /\ elf' = elf /\ phys' = phys /\ mp = Mp("start") /\ mp \in MpType
    BY <1>1, <1>3 DEF mpinit, StartInv, StartTypes
  <2>2. mpconfig # <<>> <=> Usable
    BY <1>1, Accepted DEF StartTypes
  <2>3. Usable' <=> Usable
    BY <2>1 DEF Usable
  <2>4. CASE mpconfig = <<>>
    <3>1. mp' = [mp EXCEPT !.pc = "done"]
      BY <1>3, <2>4 DEF mpinit
    <3>2. /\ mp' \in MpType /\ mp'.pc = "done" /\ mp'.ismp = FALSE /\ mp'.lapic = FALSE /\ mp'.cpus = <<>>
      BY <2>1, <3>1 DEF MpType, Mp
    <3>3. ~Usable'
      BY <2>2, <2>3, <2>4
    <3>4. MpFound'
      BY <3>2, <3>3 DEF MpFound, Usable
    <3> QED BY <1>1, <2>1, <3>2, <3>4 DEF StartInv, StartTypes
  <2>5. CASE mpconfig # <<>>
    <3>1. mp' = [mp EXCEPT !.pc = "table", !.ismp = TRUE, !.lapic = TRUE]
      BY <1>3, <2>5 DEF mpinit
    <3>2. /\ mp'.pc = "table" /\ mp'.ismp = TRUE /\ mp'.lapic = TRUE /\ mp'.cpus = <<>> /\ mp'.at = 1
      BY <2>1, <3>1 DEF MpType, Mp
    <3>3. mp' \in MpType
      BY <2>1, <3>1 DEF MpType, Mp
    <3>4. Usable'
      BY <2>2, <2>3, <2>5
    <3>5. Len(fw'.conf.entries) \in Nat
      BY <1>1, <2>1 DEF StartTypes, FirmwareType, Tables
    <3>6. (Procs(mp.at - 1))' = 0
      <4>1. mp'.at - 1 = 0
        BY <3>2
      <4>2. {k \in 1 .. 0 : fw'.conf.entries[k].type = "proc"} = {}
        OBVIOUS
      <4> QED BY <4>1, <4>2, FS_EmptySet DEF Procs
    <3>7. (Listed(mp.at - 1))'
      <4>1. mp'.at - 1 = 0 /\ Len(mp'.cpus) = 0
        BY <3>2
      <4> QED BY <1>1, <3>6, <4>1 DEF Listed
    <3>8. Scan'
      BY <3>2, <3>4, <3>5, <3>7 DEF Scan
    <3> QED BY <1>1, <2>1, <3>2, <3>3, <3>8 DEF StartInv, StartTypes, MpFound
  <2> QED BY <2>4, <2>5
<1>4. CASE entry
  <2>1. Scan /\ mp.pc = "table"
    BY <1>4 DEF entry, StartInv
  <2>2. StartTypes' /\ Scan' /\ mp'.pc = "table"
    BY <1>1, <1>4, <2>1, EntryNoted
  <2> QED BY <2>2 DEF StartInv, MpFound
<1>5. CASE mpend
  <2>1. Scan /\ mp.pc = "table" /\ mp.at > Len(fw.conf.entries) /\ fw' = fw /\ elf' = elf /\ phys' = phys
    BY <1>5 DEF mpend, StartInv
  <2>2. mp.at \in Nat /\ Len(fw.conf.entries) \in Nat /\ mp \in MpType
    BY <1>1 DEF StartTypes, MpType, FirmwareType, Tables
  <2>3. mp.at - 1 = Len(fw.conf.entries) /\ mp.ismp
    <3>1. mp.at <= Len(fw.conf.entries) + 1
      BY <2>1, <2>2 DEF Scan
    <3>2. ~(mp.at <= Len(fw.conf.entries)) /\ mp.at - 1 = Len(fw.conf.entries)
      BY <2>1, <2>2, <3>1
    <3>3. mp.ismp \in BOOLEAN
      BY <2>2 DEF MpType
    <3> QED BY <2>1, <3>2, <3>3 DEF Scan
  <2>4. mp' = [mp EXCEPT !.pc = "done"]
    BY <1>5, <2>3 DEF mpend
  <2>5. /\ mp' \in MpType /\ mp'.pc = "done" /\ mp'.ismp = mp.ismp /\ mp'.cpus = mp.cpus /\ mp'.ioapicid = mp.ioapicid
    BY <2>2, <2>4 DEF MpType
  <2>6. Usable'
    BY <2>1 DEF Usable, Scan
  <2>7. (Listed(Len(fw.conf.entries)))'
    <3>1. Listed(Len(fw.conf.entries))
      BY <2>1, <2>3 DEF Scan
    <3>2. (Procs(Len(fw.conf.entries)))' = Procs(Len(fw.conf.entries)) /\ \A k : Procs(k)' = Procs(k)
      BY <2>1 DEF Procs
    <3> QED BY <2>1, <2>5, <3>1, <3>2 DEF Listed
  <2>8. (\A k \in DOMAIN fw.conf.entries : Known(fw.conf.entries[k]))'
    <3>1. DOMAIN fw.conf.entries = 1 .. Len(fw.conf.entries)
      BY <1>1 DEF StartTypes, FirmwareType, Tables
    <3> QED BY <2>1, <2>3, <3>1 DEF Scan, Known
  <2>9. MpFound'
    BY <2>3, <2>5, <2>6, <2>7, <2>8 DEF MpFound, Usable
  <2> QED BY <1>1, <2>1, <2>5, <2>9 DEF StartInv, StartTypes
<1>6. CASE bootmain
  <2> DEFINE k == elf.ph
             n == elf.n
             ph == k[n + 1]
  <2>1. /\ Boot /\ mp.pc = "boot" /\ fw' = fw /\ mp' = mp /\ n < Len(k)
        /\ phys' = stosb(readseg(phys, ph.pa, ph.filesz, ph.off), ph) /\ elf' = [elf EXCEPT !.n = n + 1]
    BY <1>6 DEF bootmain, StartInv
  <2>2. k \in Segments /\ InOrder(k) /\ n \in Nat /\ Len(k) \in Nat /\ DOMAIN k = 1 .. Len(k)
    BY <1>1, <2>1, StartAssumption DEF Boot, StartTypes, Segments
  <2>3. n + 1 \in 1 .. Len(k) /\ ph \in [pa : Nat, off : Nat, filesz : Nat, memsz : Nat]
    <3>1. n + 1 \in 1 .. Len(k)
      BY <2>1, <2>2
    <3>2. k \in Seq([pa : Nat, off : Nat, filesz : Nat, memsz : Nat])
      BY <2>2 DEF Segments
    <3> HIDE DEF k, n
    <3>3. k[n + 1] \in [pa : Nat, off : Nat, filesz : Nat, memsz : Nat]
      BY <3>1, <3>2, ElementOfSeq
    <3> QED BY <3>1, <3>3
  <2>4. /\ ph.off % SECTSIZE <= ph.pa /\ ph.pa + ph.memsz <= PHYSTOP
        /\ \A i \in 1 .. n : k[i].pa + k[i].memsz <= ph.pa - (ph.off % SECTSIZE)
    BY <2>2, <2>3 DEF InOrder
  <2>5. /\ elf'.ph = k /\ elf'.n = n + 1 /\ elf' \in [ph : Segments, n : Nat]
    BY <1>1, <2>1, <2>2 DEF StartTypes
  <2> HIDE DEF k, n, ph
  <2>6. /\ DOMAIN phys' = 0 .. PHYSTOP - 1
        /\ Whole(ph, phys')
        /\ \A a \in 0 .. PHYSTOP - 1 : a < ph.pa - (ph.off % SECTSIZE) => phys'[a] = phys[a]
    <3>1. phys' = stosb(readseg(phys, ph.pa, ph.filesz, ph.off), ph)
      BY <2>1 DEF ph, k, n
    <3>2. DOMAIN phys = 0 .. PHYSTOP - 1
      BY <2>1 DEF Boot
    <3>3. Loads(phys', ph, phys)
      BY <2>3, <2>4, <3>1, <3>2 DEF Loads
    <3> QED BY <1>1, <3>3, LoadOne
  <2>7. ASSUME NEW i \in 1 .. n PROVE Whole(k[i], phys')
    <3>1. k[i] \in [pa : Nat, off : Nat, filesz : Nat, memsz : Nat]
      <4>1. k \in Seq([pa : Nat, off : Nat, filesz : Nat, memsz : Nat]) /\ i \in 1 .. Len(k)
        BY <2>2, <2>3 DEF Segments
      <4> QED BY <4>1, ElementOfSeq
    <3>2. Whole(k[i], phys)
      BY <2>1 DEF Boot, k, n
    <3>3. k[i].pa + k[i].memsz <= ph.pa - (ph.off % SECTSIZE) /\ k[i].pa + k[i].memsz <= PHYSTOP
      BY <2>2, <2>3, <2>4 DEF InOrder
    <3>4. ASSUME NEW j \in 0 .. k[i].memsz - 1 PROVE phys'[k[i].pa + j] = phys[k[i].pa + j]
      <4>1. k[i].pa \in Nat /\ k[i].memsz \in Nat /\ j \in Nat /\ j < k[i].memsz
        BY <3>1
      <4>2. k[i].pa + j \in 0 .. PHYSTOP - 1
        BY <1>1, <3>3, <4>1
      <4>3. ph.pa - (ph.off % SECTSIZE) \in Int
        BY <1>1, <2>3
      <4>4. k[i].pa + j < ph.pa - (ph.off % SECTSIZE)
        <5> DEFINE b == ph.pa - (ph.off % SECTSIZE)
        <5>1. b \in Int /\ k[i].pa + k[i].memsz <= b
          BY <3>3, <4>3
        <5> HIDE DEF b
        <5>2. k[i].pa + j < b
          BY <4>1, <5>1
        <5> QED BY <5>2 DEF b
      <4> QED BY <2>6, <4>2, <4>4
    <3> QED BY <3>2, <3>4 DEF Whole
  <2>8. Boot'
    <3>1. \A i \in 1 .. n + 1 : Whole(k[i], phys')
      BY <2>2, <2>6, <2>7 DEF ph
    <3>2. elf'.ph \in Kernels /\ elf'.n <= Len(elf'.ph)
      BY <2>1, <2>3, <2>5 DEF Boot, k
    <3> QED BY <2>5, <2>6, <3>1, <3>2 DEF Boot, Whole
  <2>9. MpFound'
    <3>1. mp'.pc # "done"
      BY <2>1
    <3> QED BY <3>1 DEF MpFound
  <2> QED BY <1>1, <2>1, <2>5, <2>8, <2>9 DEF StartInv, StartTypes
<1>7. CASE UNCHANGED startVars
  <2>1. fw' = fw /\ mp' = mp /\ elf' = elf /\ phys' = phys
    BY <1>7 DEF startVars
  <2>2. Scan' <=> Scan
    BY <2>1 DEF Scan, Usable, Listed, Procs, Known
  <2>3. MpFound' <=> MpFound
    BY <2>1 DEF MpFound, Listed, Procs, Known
  <2>4. Boot' <=> Boot
    BY <2>1 DEF Boot, Whole
  <2> QED BY <2>1, <2>2, <2>3, <2>4 DEF StartInv, StartTypes, Mp
<1> QED BY <1>3, <1>4, <1>5, <1>6, <1>7 DEF StartNext

\* What the tables hold is found, and every segment of the kernel is whole
\* when bootmain() jumps into it.
THEOREM StartIsRight == StartSpec => []StartedRight
<1>1. StartInv => StartedRight
  <2> SUFFICES ASSUME StartInv PROVE MpFound /\ KernelLoaded
    BY DEF StartedRight
  <2>1. ASSUME mp.pc = "boot", elf.n = Len(elf.ph), NEW k \in DOMAIN elf.ph
        PROVE  \A i \in 0 .. elf.ph[k].memsz - 1 :
                  phys[elf.ph[k].pa + i] = IF i < elf.ph[k].filesz THEN <<"image", elf.ph[k].off + i>> ELSE <<"zero", 0>>
    <3>1. k \in 1 .. elf.n
      BY <2>1 DEF StartInv, StartTypes, Segments
    <3> QED BY <2>1, <3>1 DEF StartInv, Boot, Whole
  <2> QED BY <2>1 DEF StartInv, KernelLoaded
<1> QED BY <1>1, StartInitInv, StartStep, PTL DEF StartSpec
=============================================================================
