---------------------------- MODULE ConsoleProofs ---------------------------
(* Proofs about the console, for a screen and a ring of any size, any keys   *)
(* and any editing sessions, and about the keyboard driver before it.  The   *)
(* last part is about mkfs.                                                  *)
EXTENDS Console, Kbd, Mkfs, FiniteSetTheorems, SequenceTheorems, TLAPS

-----------------------------------------------------------------------------
(* The inductive invariant *)

MoveLabels == {"v_clear", "v_origin", "r_clear", "r_origin", "v_home", "v_status",
               "v_restore", "v_sync", "q_clear", "q_home"}
Labels == MoveLabels \cup {"sh", "v_copy", "v_copied", "r_copy", "r_copied", "v_get",
             "v_got", "v_print", "v_printed", "v_flag1", "v_flag2", "v_read", "v_cmd",
             "q_flag1", "q_flag2"}
Shapes == Keys \cup Chars \cup {"a", "none", "backspace"}
Places == 0 .. (BYTE * BYTE - 1)
Calls == [at : 0 .. 8, call : {"none", "put", "get", "set"}, c : Shapes,
          locked : BOOLEAN, pos : Nat]

\* Where a call is, and that what it has read or will write fits the registers.
CallGood(o) == /\ o.at \in 1 .. 4 => o.call \in {"put", "get"}
               /\ o.at \in 5 .. 8 => o.call \in {"put", "set"}
               /\ o.at \in {3, 4} => o.pos <= BYTE * BYTE - BYTE
ScreenType == /\ idx \in {14, 15} /\ reg \in [{14, 15} -> 0 .. (BYTE - 1)]
              /\ port \in [Actor -> Calls] /\ \A a \in Actor : CallGood(port[a])
              /\ panicked \in BOOLEAN /\ cur \in Nat /\ last \in Actor /\ saved \in Places
              /\ ~panicked => \A a \in Actor : port[a].pos \in Places

RingInv == /\ buf \in [0 .. (INPUT_BUF - 1) -> Keys \cup {"none"}]
           /\ r \in Nat /\ w \in Nat /\ e \in Nat /\ r <= w /\ w <= e /\ e <= r + INPUT_BUF
           /\ committed \in Seq(Keys \cup {"none"}) /\ Len(committed) = w
           /\ InputIsQueue

ReadInv == /\ fg \in Labels /\ read \in {"no", "try", "in", "asleep"}
           /\ want \in Nat /\ left \in Nat /\ left <= want
           /\ read # "no" => left >= 1 /\ fg \in {"sh", "v_read"} /\ Outside("fg")
           /\ SleepsOnEmpty

\* cons.lock is held where the code is between acquire() and release(), and the
\* calls that are to run under it do.
LockInv == /\ consLock \in {"none", "intr", "fg"}
           /\ intr \in {"off", "getc", "kill", "commit", "dump", "dumped"}
           /\ consLock = "intr" <=> intr \in {"getc", "kill", "commit", "dumped"}
           /\ consLock = "fg" <=> read = "in" \/ fg = "v_printed"
           /\ \A a \in Actor : ~Outside(a) /\ port[a].locked => consLock = a
           /\ ~Outside("intr") => port["intr"].locked
           /\ intr = "commit" => e > w

EofInv == zeros \in Nat /\ EofOnce

\* The switches follow the editor: where it is, unless one was killed on the way.
Inside == {"v_read", "v_get", "v_got", "v_status", "v_print", "v_printed", "v_restore",
           "v_cmd", "v_sync", "r_clear", "r_origin", "r_copy", "r_copied", "q_flag1"}
FlagInv == /\ bufferFlag \in {0, 1} /\ showAtonce \in {0, 1} /\ viKilled \in BOOLEAN
           /\ fg \in Inside => bufferFlag = 0 /\ showAtonce = 0
           /\ fg = "v_flag2" => bufferFlag = 0
           /\ ~viKilled /\ fg \notin Inside =>
                 /\ fg # "v_flag2" => bufferFlag = 1
                 /\ fg # "q_flag2" => showAtonce = 1

\* With bufferFlag off at most the character just stored is uncommitted.
QuietHere == /\ Outside("intr") \/ intr = "dumped"
             /\ e # w => intr = "commit"
QuietInside == fg \in Inside /\ ~ahead => QuietHere

\* Calls that do not overlap: one at a time, and the registers hold the cursor.
Stage(o) == /\ o.at = 2 => idx = 14
            /\ o.at \in {3, 4} => o.pos = reg[14] * BYTE
            /\ o.at = 4 => idx = 15
            /\ o.at = 6 => idx = 14
            /\ o.at \in {7, 8} => reg[14] = o.pos \div BYTE
            /\ o.at = 8 => idx = 15
            /\ o.at \in {0, 5, 6, 7, 8} => o.pos < CELLS
            /\ o.at \in 1 .. 6 => Cursor = cur
Alone == \A a \in Actor \ {last} : Outside(a)
Whole == /\ Alone /\ cur < CELLS /\ saved < CELLS
         /\ (\A a \in Actor : Outside(a)) => Cursor = cur
         /\ ~panicked => \A a \in Actor : Stage(port[a])
         /\ panicked => "tabbed" \in marks
WholeInv == "raced" \notin marks => Whole

\* What vi draws: it knows the cursor before each character, as long as nobody
\* else has moved it.
Clean == marks \cap {"raced", "mixed", "tabbed"} = {}
Drawing == fg \in {"v_copy", "r_copy"}
Draw == /\ "scrolled" \notin marks
        /\ Drawing /\ Outside("fg") /\ last = "fg" => port["fg"].pos = cur
        /\ Drawing /\ ~Outside("fg") => \/ port["fg"].call = "get"
                                        \/ port["fg"].call = "set" /\ port["fg"].pos = 0
        /\ port["fg"].at \in 1 .. 4 /\ port["fg"].call = "put" /\ ~port["fg"].locked =>
              ~CopyEnds(cur, port["fg"].c)
DrawInv == Clean => Draw

Inv == /\ ScreenType /\ RingInv /\ ReadInv /\ LockInv /\ EofInv
       /\ FlagInv /\ QuietInside /\ WholeInv /\ DrawInv

-----------------------------------------------------------------------------
(* Arithmetic *)

\* A division by a number with a remainder.
LEMMA DivMod ==
    ASSUME NEW a \in Nat, NEW b \in Nat \ {0}
    PROVE  /\ a \div b \in Nat /\ a % b \in 0 .. (b - 1)
           /\ a = b * (a \div b) + (a % b)
<1>1. a = b * (a \div b) + (a % b) /\ a \div b \in Nat
  OBVIOUS
<1>2. a % b \in 0 .. (b - 1)
  OBVIOUS
<1> QED BY <1>1, <1>2

\* Less than n rows is before row n.
LEMMA DivLess ==
    ASSUME NEW a \in Nat, NEW b \in Nat \ {0}, NEW n \in Nat, a < n * b
    PROVE  a \div b < n /\ (a \div b) * b <= a /\ (a \div b + 1) * b <= n * b
<1> DEFINE q == a \div b
           m == a % b
<1>1. q \in Nat /\ m \in 0 .. (b - 1) /\ a = b * q + m
  BY DivMod
<1> HIDE DEF q, m
<1>2. q * b = b * q /\ q * b <= a
  BY <1>1
<1>3. q < n
  <2> SUFFICES ASSUME q >= n PROVE FALSE
    BY <1>1
  <2>1. PICK d \in Nat : q = n + d
    <3>1. q - n \in Nat /\ q = n + (q - n)
      BY <1>1
    <3> QED BY <3>1
  <2>2. q * b = n * b + d * b /\ d * b \in Nat /\ n * b \in Nat
    BY <1>1, <2>1
  <2> QED BY <1>1, <1>2, <2>2
<1>4. (q + 1) * b <= n * b
  <2>1. PICK d \in Nat : n = q + 1 + d
    <3>1. n - q - 1 \in Nat /\ n = q + 1 + (n - q - 1)
      BY <1>1, <1>3
    <3> QED BY <3>1
  <2>2. n * b = (q + 1) * b + d * b /\ d * b \in Nat /\ (q + 1) * b \in Nat
    BY <1>1, <2>1
  <2> QED BY <2>2
<1> QED BY <1>2, <1>3, <1>4 DEF q

\* At most n - 1 in its row number is before row n.
LEMMA DivBelow ==
    ASSUME NEW a \in Nat, NEW b \in Nat \ {0}, NEW n \in Nat \ {0}, a \div b <= n - 1
    PROVE  a < n * b
<1> DEFINE q == a \div b
           m == a % b
<1>1. q \in Nat /\ m \in 0 .. (b - 1) /\ a = b * q + m /\ q <= n - 1
  BY DivMod
<1> HIDE DEF q, m
<1>2. PICK d \in Nat : n = q + 1 + d
  <2>1. n - q - 1 \in Nat /\ n = q + 1 + (n - q - 1)
    BY <1>1
  <2> QED BY <2>1
<1>3. n * b = b * q + b + d * b /\ d * b \in Nat /\ b * q \in Nat
  BY <1>1, <1>2
<1> QED BY <1>1, <1>3

\* Numbers less than b apart have different places in a ring of b.
LEMMA ModApart ==
    ASSUME NEW b \in Nat \ {0}, NEW i \in Nat, NEW j \in Nat, i < j, j < i + b
    PROVE  i % b # j % b
<1>1. ASSUME NEW a \in Nat PROVE \E q \in Nat : a = b * q + (a % b) /\ a % b \in Nat
  <2>1. a = b * (a \div b) + (a % b) /\ a \div b \in Nat /\ a % b \in 0 .. (b - 1)
    BY DivMod
  <2>2. a % b \in Nat
    BY <2>1
  <2> DEFINE q == a \div b
             m == a % b
  <2>3. q \in Nat /\ a = b * q + m /\ m \in Nat
    BY <2>1, <2>2
  <2> HIDE DEF q, m
  <2>4. \E k \in Nat : a = b * k + m /\ m \in Nat
    BY <2>3
  <2> QED BY <2>4 DEF m
<1>2. PICK x \in Nat : i = b * x + (i % b) /\ i % b \in Nat
  BY <1>1
<1>3. PICK y \in Nat : j = b * y + (j % b)
  BY <1>1
<1> SUFFICES ASSUME i % b = j % b PROVE FALSE
  OBVIOUS
<1>4. b * (y - x) = j - i
  BY <1>2, <1>3
<1>5. CASE y - x >= 1
  <2>1. b * (y - x) >= b
    BY <1>5
  <2> QED BY <1>4, <2>1
<1>6. CASE y - x <= 0
  <2>1. b * (y - x) <= 0
    BY <1>6
  <2> QED BY <1>4, <2>1
<1> QED BY <1>5, <1>6

\* The sizes of the screen.
LEMMA Sizes ==
    /\ ROWS \in Nat \ {0} /\ COLS \in Nat \ {0} /\ TABW \in Nat /\ BYTE \in Nat \ {0, 1}
    /\ CELLS \in Nat \ {0} /\ StatusLine \in Nat /\ CELLS = StatusLine + COLS
    /\ CELLS <= BYTE * BYTE /\ BYTE * BYTE \in Nat /\ BYTE * BYTE >= BYTE
    /\ Actor = {"intr", "fg"}
<1>1. /\ ROWS \in Nat \ {0} /\ COLS \in Nat \ {0} /\ TABW \in Nat /\ BYTE \in Nat \ {0, 1}
      /\ ROWS * COLS <= BYTE * BYTE /\ Actor = {"intr", "fg"}
  BY ScreenAssumption, ConsoleAssumption
<1>2. PICK k \in Nat : ROWS = k + 1
  <2>1. ROWS - 1 \in Nat /\ ROWS = (ROWS - 1) + 1
    BY <1>1
  <2> QED BY <2>1
<1>3. ROWS * COLS = k * COLS + COLS /\ k * COLS \in Nat /\ ROWS - 1 = k
  BY <1>1, <1>2
<1>4. CELLS \in Nat \ {0} /\ StatusLine \in Nat /\ CELLS = StatusLine + COLS
  BY <1>1, <1>3 DEF CELLS, StatusLine
<1>5. BYTE * BYTE \in Nat /\ BYTE * BYTE >= BYTE
  BY <1>1
<1> QED BY <1>1, <1>4, <1>5 DEF CELLS

\* A position in two registers.
LEMMA Registers ==
    ASSUME NEW p \in Places
    PROVE  /\ p \div BYTE \in 0 .. (BYTE - 1) /\ p % BYTE \in 0 .. (BYTE - 1)
           /\ (p \div BYTE) * BYTE + (p % BYTE) = p
<1>1. BYTE \in Nat \ {0} /\ p \in Nat /\ p < BYTE * BYTE
  BY Sizes DEF Places
<1>2. p \div BYTE < BYTE
  <2> DEFINE b == BYTE
  <2>1. b \in Nat \ {0} /\ b \in Nat /\ p < b * b
    BY <1>1
  <2> HIDE DEF b
  <2>2. \A n \in Nat : p < n * b => p \div b < n
    BY <1>1, <2>1, DivLess
  <2>3. p \div b < b
    BY <2>1, <2>2
  <2> QED BY <2>3 DEF b
<1>3. p \div BYTE \in Nat /\ p % BYTE \in 0 .. (BYTE - 1) /\ p = BYTE * (p \div BYTE) + (p % BYTE)
  BY <1>1, DivMod
<1>4. (p \div BYTE) * BYTE = BYTE * (p \div BYTE)
  BY <1>1, <1>3
<1> QED BY <1>1, <1>2, <1>3, <1>4

\* What two registers hold.
LEMMA Held ==
    ASSUME NEW h \in 0 .. (BYTE - 1), NEW l \in 0 .. (BYTE - 1)
    PROVE  /\ h * BYTE \in Nat /\ h * BYTE <= BYTE * BYTE - BYTE
           /\ h * BYTE + l \in Places
<1>1. BYTE \in Nat \ {0} /\ h \in Nat /\ BYTE * BYTE \in Nat
  BY Sizes
<1>2. PICK d \in Nat : BYTE = h + 1 + d
  <2>1. BYTE - h - 1 \in Nat /\ BYTE = h + 1 + (BYTE - h - 1)
    BY <1>1
  <2> QED BY <2>1
<1>3. BYTE * BYTE = h * BYTE + BYTE + d * BYTE /\ d * BYTE \in Nat /\ h * BYTE \in Nat
  BY <1>1, <1>2
<1> QED BY <1>1, <1>3 DEF Places

\* One character on: where the cursor goes, when it is out of the screen, and
\* when that scrolls.
LEMMA Advances ==
    ASSUME NEW c, NEW p \in Nat
    PROVE  /\ Advance(c, p) \in Nat
           /\ ScrollUp(Advance(c, p)) \in Nat
           /\ ~OutOfScreen(Advance(c, p)) => ScrollUp(Advance(c, p)) < CELLS
           /\ p < CELLS /\ c # "tab" => ~OutOfScreen(Advance(c, p))
           /\ p < CELLS /\ ~CopyEnds(p, c) /\ ~(c = "tab" /\ Advance(c, p) >= CELLS) =>
                 ScrollUp(Advance(c, p)) = Advance(c, p)
<1> DEFINE new == Advance(c, p)
           q == p \div COLS
           m == p % COLS
<1>1. /\ ROWS \in Nat \ {0} /\ COLS \in Nat \ {0} /\ TABW \in Nat
      /\ CELLS = ROWS * COLS /\ CELLS \in Nat /\ StatusLine \in Nat
      /\ CELLS = StatusLine + COLS /\ StatusLine = (ROWS - 1) * COLS
  BY Sizes DEF CELLS, StatusLine
<1>2. q \in Nat /\ m \in 0 .. (COLS - 1) /\ p = COLS * q + m
  BY <1>1, DivMod
<1>3. /\ c = "nl" => new = p + COLS - m
      /\ c = "backspace" => new = IF p > 0 THEN p - 1 ELSE 0
      /\ c = "tab" => new = p + TABW
      /\ c \notin {"nl", "backspace", "tab"} => new = p + 1
  BY DEF Advance
<1>4. /\ p < CELLS => (q + 1) * COLS <= CELLS
      /\ p < StatusLine => (q + 1) * COLS <= StatusLine
  <2>1. COLS \in Nat \ {0} /\ ROWS \in Nat /\ ROWS - 1 \in Nat
    BY <1>1
  <2>2. \A n \in Nat : p < n * COLS => (q + 1) * COLS <= n * COLS
    BY <2>1, DivLess
  <2> HIDE DEF q
  <2>3. /\ p < ROWS * COLS => (q + 1) * COLS <= ROWS * COLS
        /\ p < (ROWS - 1) * COLS => (q + 1) * COLS <= (ROWS - 1) * COLS
    BY <2>1, <2>2
  <2> QED BY <1>1, <2>3
<1>5. (q + 1) * COLS = COLS * q + COLS
  BY <1>1, <1>2
<1> HIDE DEF q, m
<1>6. new \in Nat
  BY <1>1, <1>2, <1>3
<1> HIDE DEF new
<1>7. ScrollUp(new) = IF new \div COLS > ROWS - 1 THEN new - COLS ELSE new
  BY DEF ScrollUp
<1>8. /\ new \div COLS > ROWS - 1 => new >= CELLS
      /\ ~(new \div COLS > ROWS - 1) => new < CELLS
  <2>1. new < CELLS => new \div COLS < ROWS
    BY <1>1, <1>6, DivLess
  <2>2. new \div COLS <= ROWS - 1 => new < CELLS
    BY <1>1, <1>6, DivBelow
  <2>3. new \div COLS \in Nat
    BY <1>1, <1>6, DivMod
  <2> QED BY <1>1, <1>6, <2>1, <2>2, <2>3
<1>9. ScrollUp(new) \in Nat
  BY <1>1, <1>6, <1>7, <1>8
<1>10. ~OutOfScreen(new) => ScrollUp(new) < CELLS
  BY <1>1, <1>6, <1>7, <1>8 DEF OutOfScreen
<1>11. p < CELLS /\ c # "tab" => ~OutOfScreen(new)
  BY <1>1, <1>2, <1>3, <1>4, <1>5 DEF OutOfScreen
<1>12. p < CELLS /\ ~CopyEnds(p, c) /\ ~(c = "tab" /\ new >= CELLS) => ScrollUp(new) = new
  <2>1. CopyEnds(p, c) <=> p = CELLS - 1 \/ (p >= StatusLine /\ c = "nl")
    BY DEF CopyEnds, StatusLine
  <2> SUFFICES ASSUME p < CELLS, p # CELLS - 1, ~(p >= StatusLine /\ c = "nl"),
                      ~(c = "tab" /\ new >= CELLS)
               PROVE  new < CELLS
    BY <1>1, <1>6, <1>7, <1>8, <2>1
  <2> QED BY <1>1, <1>2, <1>3, <1>4, <1>5
<1> QED BY <1>6, <1>9, <1>10, <1>11, <1>12 DEF new

-----------------------------------------------------------------------------
(* The screen *)

\* A call is made as the code makes it.
Entered(a, call, at, c, pos, locked) ==
    /\ Enter(a, call, at, c, pos, locked)
    /\ \/ call = "put" /\ at = 1 /\ pos = 0
       \/ call = "get" /\ at = 1 /\ pos = 0 /\ ~locked
       \/ call = "set" /\ at = 5 /\ pos \in Places /\ ~locked

LEMMA EnterType ==
    ASSUME ScreenType, saved' \in Places, ~panicked,
           NEW a \in Actor, NEW call, NEW at, NEW c \in Shapes, NEW pos, NEW locked \in BOOLEAN,
           Entered(a, call, at, c, pos, locked)
    PROVE  ScreenType'
<1> DEFINE o == [at |-> at, call |-> call, c |-> c, locked |-> locked, pos |-> pos]
<1>1. /\ port' = [port EXCEPT ![a] = o] /\ idx' = idx /\ reg' = reg
      /\ panicked' = panicked /\ cur' = cur /\ last' = a
  BY DEF Entered, Enter
<1>2. at \in 0 .. 8 /\ call \in {"none", "put", "get", "set"} /\ pos \in Nat /\ pos \in Places
  BY Sizes DEF Entered, Places
<1>3. o \in Calls /\ CallGood(o) /\ o.pos \in Places
  <2>1. o \in Calls
    BY <1>2 DEF Calls
  <2>2. CallGood(o)
    BY DEF CallGood, Entered
  <2> QED BY <1>2, <2>1, <2>2
<1> HIDE DEF o
<1>4. port \in [Actor -> Calls] /\ (\A b \in Actor : CallGood(port[b]) /\ port[b].pos \in Places)
  BY DEF ScreenType
<1>5. port' \in [Actor -> Calls] /\ \A b \in Actor : port'[b] = IF b = a THEN o ELSE port[b]
  BY <1>1, <1>3, <1>4
<1>6. \A b \in Actor : CallGood(port'[b]) /\ port'[b].pos \in Places
  BY <1>3, <1>4, <1>5
<1> QED BY <1>1, <1>5, <1>6 DEF ScreenType

\* A call goes on.
Goes(a, at, pos) ==
    /\ port'[a].at = at /\ port'[a].pos = pos
    /\ port'[a].call = port[a].call /\ port'[a].c = port[a].c /\ port'[a].locked = port[a].locked

LEMMA GoesOn ==
    ASSUME port \in [Actor -> Calls], NEW a \in Actor, NEW at \in 0 .. 8, NEW pos \in Nat,
           port' = [port EXCEPT ![a].at = at, ![a].pos = pos]
    PROVE  Goes(a, at, pos) /\ port' \in [Actor -> Calls] /\ \A b \in Actor \ {a} : port'[b] = port[b]
<1> DEFINE o == [port[a] EXCEPT !.at = at, !.pos = pos]
<1>1. o \in Calls /\ o.at = at /\ o.pos = pos
      /\ o.call = port[a].call /\ o.c = port[a].c /\ o.locked = port[a].locked
  BY DEF Calls
<1>2. port'[a] = o /\ \A b \in Actor \ {a} : port'[b] = port[b]
  OBVIOUS
<1> HIDE DEF o
<1>3. port' \in [Actor -> Calls]
  BY <1>1, <1>2
<1> QED BY <1>1, <1>2, <1>3 DEF Goes

\* Each port access, and what it does.
LEMMA AccessIs ==
    ASSUME ScreenType, NEW a \in Actor, Access(a)
    PROVE  /\ ~panicked /\ last' = last /\ port[a].at \in 1 .. 8
           /\ port' \in [Actor -> Calls] /\ \A b \in Actor \ {a} : port'[b] = port[b]
           /\ port[a].at \in {1, 2, 3, 5, 6, 7} =>
                 /\ Goes(a, port[a].at + 1, IF port[a].at = 2 THEN reg[idx] * BYTE ELSE port[a].pos)
                 /\ UNCHANGED <<panicked, cur, marks>>
           /\ idx' = IF port[a].at \in {1, 5} THEN 14 ELSE IF port[a].at \in {3, 7} THEN 15 ELSE idx
           /\ reg' = IF port[a].at = 6 THEN [reg EXCEPT ![idx] = port[a].pos \div BYTE]
                     ELSE IF port[a].at = 8 THEN [reg EXCEPT ![idx] = port[a].pos % BYTE] ELSE reg
           /\ port[a].at = 4 =>
                 /\ GotPos(a, port[a].pos + reg[idx]) /\ cur' = cur
                 /\ port[a].call = "get" => Goes(a, 0, port[a].pos + reg[idx])
                 /\ port[a].call # "get" => Goes(a, 5, ScrollUp(Advance(port[a].c, port[a].pos + reg[idx])))
           /\ port[a].at = 8 => port'[a] = Idle /\ cur' = port[a].pos /\ UNCHANGED <<panicked, marks>>
<1> DEFINE o == port[a]
<1>1. /\ port \in [Actor -> Calls] /\ o \in Calls /\ o.at \in 1 .. 8 /\ ~panicked /\ last' = last
      /\ o.pos \in Nat
  BY DEF ScreenType, Access, Outside, Calls
<1>2. /\ BYTE \in Nat \ {0, 1} /\ idx \in {14, 15}
      /\ reg[idx] \in 0 .. (BYTE - 1) /\ reg[idx] * BYTE \in Nat
  BY Sizes DEF ScreenType
<1>3. CASE o.at \in {1, 3, 5, 6, 7}
  <2>1. port' = [port EXCEPT ![a].at = o.at + 1] /\ UNCHANGED <<panicked, cur, marks>>
    BY <1>3 DEF Access
  <2>2. port' = [port EXCEPT ![a].at = o.at + 1, ![a].pos = o.pos]
    <3>1. [o EXCEPT !.at = o.at + 1] = [o EXCEPT !.at = o.at + 1, !.pos = o.pos]
      BY <1>1 DEF Calls
    <3> QED BY <1>1, <2>1, <3>1
  <2>3. o.at + 1 \in 0 .. 8
    BY <1>3
  <2>4. /\ Goes(a, o.at + 1, o.pos) /\ port' \in [Actor -> Calls]
        /\ \A b \in Actor \ {a} : port'[b] = port[b]
    BY <1>1, <2>2, <2>3, GoesOn
  <2>5. idx' = IF o.at \in {1, 5} THEN 14 ELSE IF o.at \in {3, 7} THEN 15 ELSE idx
    BY <1>3 DEF Access
  <2>6. reg' = IF o.at = 6 THEN [reg EXCEPT ![idx] = o.pos \div BYTE] ELSE reg
    BY <1>3 DEF Access
  <2> QED BY <1>1, <1>3, <2>1, <2>4, <2>5, <2>6
<1>4. CASE o.at = 2
  <2> DEFINE pos == reg[idx] * BYTE
  <2>1. /\ port' = [port EXCEPT ![a].at = 3, ![a].pos = pos]
        /\ UNCHANGED <<panicked, cur, marks, reg, idx>>
    BY <1>1, <1>4 DEF Access
  <2>2. /\ Goes(a, 3, pos) /\ port' \in [Actor -> Calls]
        /\ \A b \in Actor \ {a} : port'[b] = port[b]
    <3>1. pos \in Nat /\ 3 \in 0 .. 8
      BY <1>2
    <3> HIDE DEF pos
    <3> QED BY <1>1, <2>1, <3>1, GoesOn
  <2> QED BY <1>1, <1>4, <2>1, <2>2
<1>5. CASE o.at = 4
  <2>1. GotPos(a, o.pos + reg[idx]) /\ UNCHANGED <<idx, reg, cur>>
    BY <1>5 DEF Access
  <2> DEFINE pos == o.pos + reg[idx]
             new == Advance(o.c, pos)
             at == IF o.call = "get" THEN 0 ELSE 5
             res == IF o.call = "get" THEN pos ELSE ScrollUp(new)
  <2>2. pos \in Nat
    BY <1>1, <1>2 DEF Calls
  <2>3. res \in Nat /\ at \in 0 .. 8
    BY <2>2, Advances
  <2>4. port' = [port EXCEPT ![a].at = at, ![a].pos = res]
    BY <2>1 DEF GotPos
  <2>5. /\ Goes(a, at, res) /\ port' \in [Actor -> Calls]
        /\ \A b \in Actor \ {a} : port'[b] = port[b]
    <3> HIDE DEF at, res
    <3> QED BY <1>1, <2>3, <2>4, GoesOn
  <2>6. /\ o.call = "get" => Goes(a, 0, pos)
        /\ o.call # "get" => Goes(a, 5, ScrollUp(new))
    BY <2>5
  <2> HIDE DEF at, res, new
  <2> QED BY <1>1, <1>5, <2>1, <2>5, <2>6 DEF new
<1>6. CASE o.at = 8
  <2>1. /\ port' = [port EXCEPT ![a] = Idle] /\ UNCHANGED <<panicked, marks, idx>>
        /\ reg' = [reg EXCEPT ![idx] = o.pos % BYTE] /\ cur' = o.pos
    BY <1>6 DEF Access
  <2>2. Idle \in Calls
    BY DEF Idle, Calls, Shapes
  <2>3. port'[a] = Idle /\ port' \in [Actor -> Calls] /\ \A b \in Actor \ {a} : port'[b] = port[b]
    BY <1>1, <2>1, <2>2
  <2> QED BY <1>1, <1>6, <2>1, <2>3
<1> QED BY <1>1, <1>3, <1>4, <1>5, <1>6

LEMMA AccessType ==
    ASSUME ScreenType, saved' \in Places, NEW a \in Actor, Access(a)
    PROVE  ScreenType'
<1> DEFINE o == port[a]
<1>1. /\ ~panicked /\ last' = last /\ o.at \in 1 .. 8
      /\ port' \in [Actor -> Calls] /\ \A b \in Actor \ {a} : port'[b] = port[b]
  BY AccessIs
<1>2. /\ o \in Calls /\ CallGood(o) /\ o.pos \in Places /\ idx \in {14, 15}
      /\ reg \in [{14, 15} -> 0 .. (BYTE - 1)] /\ reg[idx] \in 0 .. (BYTE - 1)
      /\ \A b \in Actor : CallGood(port[b]) /\ port[b].pos \in Places
      /\ cur \in Nat /\ last \in Actor /\ panicked \in BOOLEAN
  BY <1>1 DEF ScreenType
<1>3. /\ reg[idx] * BYTE \in Nat /\ reg[idx] * BYTE <= BYTE * BYTE - BYTE
      /\ reg[idx] * BYTE \in Places
  <2>1. 0 \in 0 .. (BYTE - 1) /\ reg[idx] \in 0 .. (BYTE - 1)
    BY <1>2, Sizes
  <2>2. reg[idx] * BYTE + 0 \in Places /\ reg[idx] * BYTE \in Nat
    BY <2>1, Held
  <2>3. reg[idx] * BYTE <= BYTE * BYTE - BYTE
    BY <2>1, Held
  <2> QED BY <2>2, <2>3
<1>4. /\ o.pos \div BYTE \in 0 .. (BYTE - 1) /\ o.pos % BYTE \in 0 .. (BYTE - 1)
  BY <1>2, Registers
<1>5. reg' \in [{14, 15} -> 0 .. (BYTE - 1)] /\ idx' \in {14, 15}
  <2>1. reg' \in {reg, [reg EXCEPT ![idx] = o.pos \div BYTE], [reg EXCEPT ![idx] = o.pos % BYTE]}
    BY AccessIs
  <2>2. idx' \in {14, 15}
    BY <1>2, AccessIs
  <2> HIDE DEF o
  <2> QED BY <1>2, <1>4, <2>1, <2>2
<1>6. panicked' \in BOOLEAN /\ cur' \in Nat /\ CallGood(port'[a]) /\ (~panicked' => port'[a].pos \in Places)
  <2>1. CASE o.at \in {1, 2, 3, 5, 6, 7}
    <3>1. /\ Goes(a, o.at + 1, IF o.at = 2 THEN reg[idx] * BYTE ELSE o.pos)
          /\ UNCHANGED <<panicked, cur, marks>>
      BY <2>1, AccessIs
    <3>2. port'[a].at = o.at + 1 /\ port'[a].call = o.call
          /\ port'[a].pos = IF o.at = 2 THEN reg[idx] * BYTE ELSE o.pos
      BY <3>1 DEF Goes
    <3>3. CallGood(port'[a])
      BY <1>2, <1>3, <2>1, <3>2 DEF CallGood
    <3> QED BY <1>2, <1>3, <3>1, <3>2, <3>3
  <2>2. CASE o.at = 4 /\ o.call = "get"
    <3>1. Goes(a, 0, o.pos + reg[idx]) /\ GotPos(a, o.pos + reg[idx]) /\ cur' = cur
      BY <2>2, AccessIs
    <3>2. panicked' = panicked
      BY <2>2, <3>1 DEF GotPos
    <3>3. o.pos + reg[idx] \in Places
      <4>1. o.pos \in Nat /\ o.pos <= BYTE * BYTE - BYTE /\ reg[idx] \in 0 .. (BYTE - 1)
        BY <1>2, <2>2 DEF CallGood, Places
      <4> HIDE DEF o
      <4> QED BY <4>1, Sizes DEF Places
    <3>4. port'[a].at = 0 /\ port'[a].pos = o.pos + reg[idx] /\ CallGood(port'[a])
      BY <3>1 DEF Goes, CallGood
    <3> QED BY <1>2, <3>1, <3>2, <3>3, <3>4
  <2>3. CASE o.at = 4 /\ o.call # "get"
    <3> DEFINE p == o.pos + reg[idx]
               new == Advance(o.c, p)
    <3>1. Goes(a, 5, ScrollUp(new)) /\ GotPos(a, p) /\ cur' = cur
      BY <2>3, AccessIs
    <3>2. panicked' = OutOfScreen(new)
      BY <2>3, <3>1 DEF GotPos
    <3>3. p \in Nat
      BY <1>2 DEF Places
    <3>4. ScrollUp(new) \in Nat /\ (~OutOfScreen(new) => ScrollUp(new) < CELLS)
      BY <3>3, Advances
    <3> HIDE DEF p, new
    <3>5. ~OutOfScreen(new) => ScrollUp(new) \in Places
      BY <3>4, Sizes DEF Places
    <3>6. o.call = "put"
      BY <1>2, <2>3 DEF CallGood
    <3>7. port'[a].at = 5 /\ port'[a].pos = ScrollUp(new) /\ CallGood(port'[a])
      BY <3>1, <3>6 DEF Goes, CallGood
    <3>8. panicked' \in BOOLEAN
      BY <3>2 DEF OutOfScreen
    <3> QED BY <1>2, <3>1, <3>2, <3>5, <3>7, <3>8
  <2>4. CASE o.at = 8
    <3>1. port'[a] = Idle /\ cur' = o.pos /\ panicked' = panicked
      BY <2>4, AccessIs
    <3>2. CallGood(Idle) /\ Idle.pos \in Places
      BY Sizes DEF CallGood, Idle, Places
    <3> QED BY <1>2, <3>1, <3>2 DEF Places
  <2> QED BY <1>1, <2>1, <2>2, <2>3, <2>4
<1> HIDE DEF o
<1>7. \A b \in Actor : CallGood(port'[b]) /\ (~panicked' => port'[b].pos \in Places)
  BY <1>1, <1>2, <1>6
<1> QED BY <1>1, <1>2, <1>5, <1>6, <1>7 DEF ScreenType

\* Calls that overlap are marked when the second one is made.
LEMMA EnterWhole ==
    ASSUME ScreenType, WholeInv, ~panicked, saved' = saved,
           NEW a \in Actor, NEW call, NEW at, NEW c, NEW pos, NEW locked \in BOOLEAN,
           Entered(a, call, at, c, pos, locked),
           locked => \A b \in Actor \ {a} : port[b].locked => Outside(b),
           "raced" \in marks \/ pos < CELLS
    PROVE  WholeInv'
<1> DEFINE o == [at |-> at, call |-> call, c |-> c, locked |-> locked, pos |-> pos]
<1> SUFFICES ASSUME "raced" \notin marks' PROVE Whole'
  BY DEF WholeInv
<1>1. /\ port' = [port EXCEPT ![a] = o] /\ idx' = idx /\ reg' = reg /\ panicked' = panicked
      /\ cur' = cur /\ last' = a /\ marks \subseteq marks' /\ Outside(a) /\ ~Overlap(a, locked)
  BY DEF Entered, Enter
<1>2. Whole /\ pos < CELLS
  BY <1>1 DEF WholeInv
<1>3. \A b \in Actor : Outside(b)
  BY <1>1 DEF Overlap
<1>4. Cursor = cur /\ Cursor' = cur'
  BY <1>1, <1>2, <1>3 DEF Whole, Cursor
<1>5. o.at \in {1, 5} /\ o.pos = pos
  BY DEF Entered
<1> HIDE DEF o
<1>6. port \in [Actor -> Calls] /\ \A b \in Actor : port'[b] = IF b = a THEN o ELSE port[b]
  BY <1>1 DEF ScreenType
<1>7. Alone'
  BY <1>1, <1>3, <1>6 DEF Alone, Outside
<1>8. \A b \in Actor : Stage(port[b])
  BY <1>2 DEF Whole
<1>9. ASSUME NEW b \in Actor \ {a} PROVE Stage(port[b])'
  <2>1. Stage(port[b]) /\ port'[b] = port[b] /\ port[b].at = 0
    BY <1>3, <1>6, <1>8 DEF Outside
  <2> QED BY <2>1 DEF Stage
<1>10. Stage(port[a])'
  <2>1. port'[a] = o
    BY <1>6
  <2> QED BY <1>2, <1>4, <1>5, <2>1 DEF Stage
<1>11. panicked' => "tabbed" \in marks'
  BY <1>1
<1>12. cur' < CELLS /\ saved' < CELLS
  BY <1>1, <1>2 DEF Whole
<1> QED BY <1>4, <1>7, <1>9, <1>10, <1>11, <1>12 DEF Whole

\* One call at a time leaves the cursor where it means to.
LEMMA AccessWhole ==
    ASSUME ScreenType, WholeInv, saved' = saved, NEW a \in Actor, Access(a)
    PROVE  WholeInv'
<1> DEFINE o == port[a]
<1>1. /\ ~panicked /\ last' = last /\ o.at \in 1 .. 8
      /\ \A b \in Actor \ {a} : port'[b] = port[b]
  BY AccessIs
<1> SUFFICES ASSUME "raced" \notin marks' PROVE Whole'
  BY DEF WholeInv
<1>2. marks \subseteq marks' /\ Whole
  <2>1. marks \subseteq marks'
    BY DEF Access, GotPos
  <2> QED BY <2>1 DEF WholeInv
<1>3. last = a /\ \A b \in Actor \ {a} : port[b].at = 0 /\ Stage(port[b])
  BY <1>1, <1>2 DEF Whole, Alone, Outside
<1>4. Alone'
  BY <1>1, <1>3 DEF Alone, Outside
<1>5. /\ Stage(o) /\ o \in Calls /\ CallGood(o) /\ o.pos \in Places /\ idx \in {14, 15}
      /\ reg \in [{14, 15} -> 0 .. (BYTE - 1)] /\ BYTE \in Nat
      /\ cur < CELLS /\ saved < CELLS /\ cur \in Nat
  BY <1>1, <1>2, Sizes DEF ScreenType, Whole
<1>6. ASSUME NEW b \in Actor \ {a} PROVE Stage(port[b])'
  BY <1>1, <1>3 DEF Stage
<1>7. CASE o.at \in {1, 2, 3, 5, 6, 7}
  <2>1. /\ Goes(a, o.at + 1, IF o.at = 2 THEN reg[idx] * BYTE ELSE o.pos)
        /\ UNCHANGED <<panicked, cur, marks>>
    BY <1>7, AccessIs
  <2>2. port'[a].at = o.at + 1 /\ port'[a].pos = IF o.at = 2 THEN reg[idx] * BYTE ELSE o.pos
    BY <2>1 DEF Goes
  <2>3. /\ idx' = IF o.at \in {1, 5} THEN 14 ELSE IF o.at \in {3, 7} THEN 15 ELSE idx
        /\ reg' = IF o.at = 6 THEN [reg EXCEPT ![idx] = o.pos \div BYTE] ELSE reg
    BY <1>7, AccessIs
  <2>4. o.at \in 1 .. 5 => Cursor' = cur'
    BY <1>5, <2>1, <2>3 DEF Stage, Cursor
  <2>5. o.at = 2 => port'[a].pos = reg'[14] * BYTE
    BY <1>5, <2>2, <2>3 DEF Stage
  <2>6. o.at = 3 => port'[a].pos = reg'[14] * BYTE
    BY <1>5, <2>2, <2>3 DEF Stage
  <2>7. o.at \in {6, 7} => reg'[14] = port'[a].pos \div BYTE
    <3>1. o.at = 6 => idx = 14 /\ reg' = [reg EXCEPT ![14] = o.pos \div BYTE]
      BY <1>5, <2>3 DEF Stage
    <3>2. o.at = 7 => reg' = reg /\ reg[14] = o.pos \div BYTE
      BY <1>5, <2>3 DEF Stage
    <3> HIDE DEF o
    <3> QED BY <1>5, <2>2, <3>1, <3>2
  <2>8. o.at \in {5, 6, 7} => port'[a].pos < CELLS
    BY <1>5, <2>2 DEF Stage
  <2>9. Stage(port[a])'
    <3>1. port'[a].at \in {2, 3, 4, 6, 7, 8} /\ port'[a].at = o.at + 1 /\ o.at \in {1, 2, 3, 5, 6, 7}
      BY <1>7, <2>2
    <3>2. /\ port'[a].at = 2 => idx' = 14
          /\ port'[a].at \in {3, 4} => port'[a].pos = reg'[14] * BYTE
          /\ port'[a].at = 4 => idx' = 15
          /\ port'[a].at = 6 => idx' = 14
      BY <2>3, <2>5, <2>6, <3>1
    <3>3. /\ port'[a].at \in {7, 8} => reg'[14] = port'[a].pos \div BYTE
          /\ port'[a].at = 8 => idx' = 15
          /\ port'[a].at \in {0, 5, 6, 7, 8} => port'[a].pos < CELLS
      BY <2>3, <2>7, <2>8, <3>1
    <3>4. port'[a].at \in 1 .. 6 => Cursor' = cur'
      BY <2>4, <3>1
    <3> QED BY <3>2, <3>3, <3>4 DEF Stage
  <2>10. ~Outside(a)'
    BY <1>7, <2>2 DEF Outside
  <2> HIDE DEF o
  <2> QED BY <1>1, <1>2, <1>4, <1>5, <1>6, <2>1, <2>9, <2>10 DEF Whole
<1>8. CASE o.at = 4
  <2> DEFINE p == o.pos + reg[idx]
             new == Advance(o.c, p)
  <2>1. GotPos(a, p) /\ cur' = cur /\ reg' = reg
    BY <1>8, AccessIs
  <2>2. p = cur /\ Cursor = cur /\ Cursor' = cur
    BY <1>5, <1>8, <2>1 DEF Stage, Cursor
  <2>3. CASE o.call = "get"
    <3>1. port'[a].at = 0 /\ port'[a].pos = p /\ panicked' = panicked
      BY <1>8, <2>1, <2>3, AccessIs DEF Goes, GotPos
    <3> HIDE DEF p, o
    <3>2. Stage(port[a])'
      BY <1>5, <2>2, <3>1 DEF Stage
    <3> QED BY <1>1, <1>2, <1>4, <1>5, <1>6, <2>1, <2>2, <3>1, <3>2 DEF Whole
  <2>4. CASE o.call # "get"
    <3>1. /\ port'[a].at = 5 /\ port'[a].pos = ScrollUp(new) /\ panicked' = OutOfScreen(new)
          /\ o.c = "tab" /\ new >= CELLS => "tabbed" \in marks'
      BY <1>8, <2>1, <2>4, AccessIs DEF Goes, GotPos
    <3>2. /\ ~OutOfScreen(new) => ScrollUp(new) < CELLS
          /\ o.c # "tab" => ~OutOfScreen(new)
          /\ new \in Nat
      BY <1>5, <2>2, Advances
    <3> HIDE DEF p, o, new
    <3>3. OutOfScreen(new) => "tabbed" \in marks'
      BY <3>1, <3>2, Sizes DEF OutOfScreen
    <3>4. ~panicked' => Stage(port[a])'
      BY <2>1, <2>2, <3>1, <3>2 DEF Stage
    <3>5. ~Outside(a)'
      BY <3>1 DEF Outside
    <3> QED BY <1>1, <1>2, <1>4, <1>5, <1>6, <2>1, <3>1, <3>3, <3>4, <3>5 DEF Whole
  <2> QED BY <2>3, <2>4
<1>9. CASE o.at = 8
  <2>1. port'[a] = Idle /\ cur' = o.pos /\ panicked' = panicked
    BY <1>9, AccessIs
  <2>2. reg' = [reg EXCEPT ![15] = o.pos % BYTE] /\ reg[14] = o.pos \div BYTE /\ o.pos < CELLS
    <3>1. reg' = [reg EXCEPT ![idx] = o.pos % BYTE]
      BY <1>9, AccessIs
    <3> QED BY <1>5, <1>9, <3>1 DEF Stage
  <2>3. Cursor' = cur'
    <3>1. (o.pos \div BYTE) * BYTE + (o.pos % BYTE) = o.pos
      BY <1>5, Registers
    <3>2. reg'[14] = o.pos \div BYTE /\ reg'[15] = o.pos % BYTE
      BY <1>5, <2>2
    <3> QED BY <2>1, <3>1, <3>2 DEF Cursor
  <2> HIDE DEF o
  <2>4. Stage(port[a])'
    BY <2>1, Sizes DEF Stage, Idle
  <2> QED BY <1>1, <1>2, <1>4, <1>5, <1>6, <2>1, <2>2, <2>3, <2>4 DEF Whole
<1> QED BY <1>1, <1>7, <1>8, <1>9

-----------------------------------------------------------------------------
(* Drawing *)

LEMMA CleanBefore ==
    ASSUME marks \subseteq marks', Clean'
    PROVE  Clean
BY DEF Clean

\* The interrupt prints under the lock: after that vi's next character would be
\* "mixed".
LEMMA IntrEnterDraw ==
    ASSUME ScreenType, DrawInv, NEW c, Entered("intr", "put", 1, c, 0, TRUE), fg' = fg
    PROVE  DrawInv'
<1> SUFFICES ASSUME Clean' PROVE Draw'
  BY DEF DrawInv
<1>1. /\ port' = [port EXCEPT !["intr"] = [at |-> 1, call |-> "put", c |-> c, locked |-> TRUE, pos |-> 0]]
      /\ cur' = cur /\ last' = "intr" /\ marks \subseteq marks'
      /\ "scrolled" \in marks' => "scrolled" \in marks
  BY DEF Entered, Enter
<1>2. Draw
  BY <1>1, CleanBefore DEF DrawInv
<1>3. port'["fg"] = port["fg"]
  BY <1>1, Sizes DEF ScreenType
<1> QED BY <1>1, <1>2, <1>3 DEF Draw, Drawing, Outside

\* The calls of the foreground process.
LEMMA FgEnterDraw ==
    ASSUME ScreenType, DrawInv, NEW call, NEW at, NEW c, NEW pos, NEW locked \in BOOLEAN,
           Entered("fg", call, at, c, pos, locked),
           \/ call = "get"
           \/ call = "set" /\ (Drawing' => pos = 0)
           \/ call = "put" /\ ~Drawing' /\ (locked \/ (Drawing /\ ~CopyEnds(port["fg"].pos, c)))
    PROVE  DrawInv'
<1> SUFFICES ASSUME Clean' PROVE Draw'
  BY DEF DrawInv
<1> DEFINE o == [at |-> at, call |-> call, c |-> c, locked |-> locked, pos |-> pos]
<1>1. /\ port' = [port EXCEPT !["fg"] = o]
      /\ cur' = cur /\ last' = "fg" /\ marks \subseteq marks' /\ Outside("fg")
      /\ "scrolled" \in marks' => "scrolled" \in marks
      /\ call = "put" /\ ~locked /\ last # "fg" => "mixed" \in marks'
  BY DEF Entered, Enter
<1>2. Draw
  BY <1>1, CleanBefore DEF DrawInv
<1>3. /\ o.call = call /\ o.pos = pos /\ o.c = c /\ o.locked = locked
      /\ o.at # 0 /\ (o.at \in 1 .. 4 => call \in {"put", "get"}) /\ (call = "put" => o.at = 1)
  BY DEF Entered
<1> HIDE DEF o
<1>4. port'["fg"] = o
  BY <1>1, Sizes DEF ScreenType
<1>5. call = "put" /\ ~locked => ~CopyEnds(cur, c)
  <2>1. call = "put" /\ ~locked => last = "fg"
    BY <1>1 DEF Clean
  <2> QED BY <1>1, <1>2, <2>1 DEF Draw
<1>6. ~CopyEnds(cur, c) => ~CopyEnds(cur, c)'
  BY <1>1 DEF CopyEnds
<1>7. Drawing' => o.call = "get" \/ (o.call = "set" /\ o.pos = 0)
  <2> SUFFICES ASSUME Drawing' PROVE o.call = "get" \/ (o.call = "set" /\ o.pos = 0)
    OBVIOUS
  <2>1. call = "get" \/ (call = "set" /\ pos = 0)
    OBVIOUS
  <2> QED BY <1>3, <2>1
<1>8. o.at \in 1 .. 4 /\ o.call = "put" /\ ~o.locked => ~CopyEnds(cur', o.c)
  BY <1>1, <1>3, <1>5
<1>9. "scrolled" \notin marks'
  BY <1>1, <1>2 DEF Draw
<1>10. ~Outside("fg")'
  BY <1>3, <1>4 DEF Outside
<1>11. Drawing' => \/ port'["fg"].call = "get"
                   \/ port'["fg"].call = "set" /\ port'["fg"].pos = 0
  BY <1>4, <1>7
<1>12. port'["fg"].at \in 1 .. 4 /\ port'["fg"].call = "put" /\ ~port'["fg"].locked =>
          ~CopyEnds(cur', port'["fg"].c)
  BY <1>4, <1>8
<1> QED BY <1>9, <1>10, <1>11, <1>12 DEF Draw

\* A character that vi puts before the end of the screen does not scroll it.
LEMMA AccessDraw ==
    ASSUME ScreenType, WholeInv, DrawInv, LockInv, NEW a \in Actor, Access(a), fg' = fg
    PROVE  DrawInv'
<1> SUFFICES ASSUME Clean' PROVE Draw'
  BY DEF DrawInv
<1>1. /\ ~panicked /\ last' = last /\ port[a].at \in 1 .. 8
      /\ \A b \in Actor \ {a} : port'[b] = port[b]
  BY AccessIs
<1>2. marks \subseteq marks' /\ Draw /\ Whole
  <2>1. marks \subseteq marks'
    BY DEF Access, GotPos
  <2>2. Clean
    BY <2>1, CleanBefore
  <2>3. "raced" \notin marks
    BY <2>2 DEF Clean
  <2> QED BY <2>1, <2>2, <2>3 DEF DrawInv, WholeInv
<1>3. last = a /\ \A b \in Actor \ {a} : port[b].at = 0
  BY <1>1, <1>2 DEF Whole, Alone, Outside
<1>4. a \in {"intr", "fg"} /\ "fg" \in Actor
  BY Sizes
<1>5. CASE a = "intr"
  <2>1. port'["fg"] = port["fg"] /\ port["fg"].at = 0 /\ last' = "intr"
    BY <1>1, <1>3, <1>4, <1>5
  <2>2. "scrolled" \in marks' => "scrolled" \in marks
    <3>1. port["intr"].locked
      BY <1>1, <1>5 DEF LockInv, Outside
    <3> QED BY <1>5, <3>1 DEF Access, GotPos
  <2> QED BY <1>2, <2>1, <2>2 DEF Draw, Drawing, Outside
<1>6. CASE a = "fg"
  <2> DEFINE o == port["fg"]
  <2>1. /\ o \in Calls /\ CallGood(o) /\ Stage(o) /\ o.at \in 1 .. 8 /\ cur \in Nat /\ cur < CELLS
    BY <1>1, <1>2, <1>4, <1>6 DEF ScreenType, Whole
  <2>2. Drawing' <=> Drawing
    BY DEF Drawing
  <2>3. Drawing => o.call = "get" \/ (o.call = "set" /\ o.pos = 0)
    <3>1. ~Outside("fg")
      BY <2>1 DEF Outside
    <3> QED BY <1>2, <3>1 DEF Draw
  <2>4. o.at \in 1 .. 4 /\ o.call = "put" /\ ~o.locked => ~CopyEnds(cur, o.c)
    BY <1>2 DEF Draw
  <2>5. CASE o.at \in {1, 2, 3, 5, 6, 7}
    <3>1. /\ Goes("fg", o.at + 1, IF o.at = 2 THEN reg[idx] * BYTE ELSE o.pos)
          /\ UNCHANGED <<panicked, cur, marks>>
      BY <1>6, <2>5, AccessIs
    <3>2. /\ port'["fg"].at = o.at + 1 /\ port'["fg"].call = o.call /\ port'["fg"].c = o.c
          /\ port'["fg"].locked = o.locked /\ (o.at # 2 => port'["fg"].pos = o.pos)
      BY <3>1 DEF Goes
    <3>3. ~Outside("fg")'
      BY <2>5, <3>2 DEF Outside
    <3>4. Drawing => port'["fg"].call = "get" \/ (port'["fg"].call = "set" /\ port'["fg"].pos = 0)
      <4> SUFFICES ASSUME Drawing
                   PROVE  port'["fg"].call = "get" \/ (port'["fg"].call = "set" /\ port'["fg"].pos = 0)
        OBVIOUS
      <4>1. o.call = "get" \/ (o.call = "set" /\ o.pos = 0)
        BY <2>3
      <4>2. o.call = "set" => o.at # 2
        BY <2>1 DEF CallGood
      <4> HIDE DEF o
      <4> QED BY <3>2, <4>1, <4>2
    <3>5. port'["fg"].at \in 1 .. 4 /\ port'["fg"].call = "put" /\ ~port'["fg"].locked =>
             ~CopyEnds(cur', port'["fg"].c)
      BY <2>4, <2>5, <3>1, <3>2
    <3>6. "scrolled" \notin marks'
      BY <1>2, <3>1 DEF Draw
    <3> HIDE DEF o
    <3> QED BY <2>2, <3>3, <3>4, <3>5, <3>6 DEF Draw
  <2>6. CASE o.at = 4
    <3> DEFINE p == o.pos + reg[idx]
               new == Advance(o.c, p)
    <3>1. /\ GotPos("fg", p) /\ cur' = cur
          /\ o.call = "get" => Goes("fg", 0, p)
          /\ o.call # "get" => Goes("fg", 5, ScrollUp(new))
      BY <1>6, <2>6, AccessIs
    <3>2. p = cur
      BY <2>1, <2>6 DEF Stage, Cursor
    <3>3. CASE o.call = "get"
      <4>1. port'["fg"].at = 0 /\ port'["fg"].pos = cur' /\ marks' = marks
        BY <3>1, <3>2, <3>3 DEF Goes, GotPos
      <4> QED BY <1>2, <4>1 DEF Draw, Outside
    <3>4. CASE o.call # "get"
      <4>1. /\ port'["fg"].at = 5 /\ o.call = "put" /\ ~Drawing
            /\ o.c = "tab" /\ new >= CELLS => "tabbed" \in marks'
            /\ "scrolled" \in marks' => \/ "scrolled" \in marks
                                        \/ ~o.locked /\ ScrollUp(new) # new
        BY <2>1, <2>3, <2>6, <3>1, <3>4 DEF Goes, GotPos, CallGood
      <4>2. ~(o.c = "tab" /\ new >= CELLS)
        BY <4>1 DEF Clean
      <4>3. ~o.locked => ScrollUp(new) = new
        <5>1. ~o.locked => ~CopyEnds(p, o.c)
          BY <2>4, <2>6, <3>2, <4>1
        <5>2. p \in Nat /\ p < CELLS
          BY <2>1, <3>2
        <5> HIDE DEF o, p
        <5> QED BY <4>2, <5>1, <5>2, Advances
      <4>4. "scrolled" \notin marks'
        BY <1>2, <4>1, <4>3 DEF Draw
      <4> HIDE DEF o, p, new
      <4> QED BY <2>2, <4>1, <4>4 DEF Draw
    <3> QED BY <3>3, <3>4
  <2>7. CASE o.at = 8
    <3>1. port'["fg"] = Idle /\ cur' = o.pos /\ marks' = marks
      BY <1>6, <2>7, AccessIs
    <3>2. Drawing => o.pos = 0
      BY <2>1, <2>3, <2>7 DEF CallGood
    <3>3. Idle.pos = 0 /\ Idle.at = 0
      BY DEF Idle
    <3> HIDE DEF o
    <3> QED BY <1>2, <2>2, <3>1, <3>2, <3>3 DEF Draw, Outside
  <2> QED BY <2>1, <2>5, <2>6, <2>7
<1> QED BY <1>4, <1>5, <1>6

\* Steps that leave the screen alone and do not begin to draw.
LEMMA StillScreen ==
    ASSUME ScreenType, UNCHANGED screenVars, saved' = saved
    PROVE  ScreenType' /\ (WholeInv => WholeInv')
           /\ (DrawInv /\ (Drawing' => Drawing) => DrawInv')
<1>1. /\ idx' = idx /\ reg' = reg /\ port' = port /\ panicked' = panicked /\ cur' = cur
      /\ last' = last /\ marks' = marks /\ saved' = saved
  BY DEF screenVars
<1>2. ScreenType'
  BY <1>1 DEF ScreenType
<1>3. WholeInv => WholeInv'
  BY <1>1 DEF WholeInv, Whole, Alone, Stage, Cursor, Outside
<1>4. DrawInv /\ (Drawing' => Drawing) => DrawInv'
  BY <1>1 DEF DrawInv, Draw, Clean, Outside
<1> QED BY <1>2, <1>3, <1>4

-----------------------------------------------------------------------------
(* What steps leave as it was *)

\* The three parts of the invariant that say where screen and cursor are.
Screens == ScreenType /\ WholeInv /\ DrawInv

LEMMA SameScreens ==
    ASSUME Screens, UNCHANGED screenVars, saved' = saved, Drawing' => Drawing
    PROVE  Screens' /\ port' = port
<1>1. port' = port
  BY DEF screenVars
<1> QED BY <1>1, StillScreen DEF Screens

LEMMA SameRing == ASSUME RingInv, UNCHANGED ringVars PROVE RingInv'
BY DEF RingInv, InputIsQueue, ringVars

LEMMA SameEof == ASSUME EofInv, zeros' = zeros, r' = r, committed' = committed PROVE EofInv'
BY DEF EofInv, EofOnce

LEMMA SameRead ==
    ASSUME ReadInv, UNCHANGED <<read, want, left, r, w, fg>>, read # "no" => port'["fg"] = port["fg"]
    PROVE  ReadInv'
BY DEF ReadInv, SleepsOnEmpty, Outside

LEMMA SameFlags ==
    ASSUME FlagInv, UNCHANGED <<bufferFlag, showAtonce, viKilled, fg>>
    PROVE  FlagInv'
BY DEF FlagInv

\* The process that has just made a call is in it, the other one is where it was.
LEMMA EnterOp ==
    ASSUME ScreenType, NEW a \in Actor, NEW call, NEW at, NEW c, NEW pos, NEW locked,
           Entered(a, call, at, c, pos, locked)
    PROVE  /\ Outside(a) /\ port'[a].at # 0 /\ port'[a].locked = locked
           /\ \A b \in Actor \ {a} : port'[b] = port[b]
<1>1. port' = [port EXCEPT ![a] = [at |-> at, call |-> call, c |-> c, locked |-> locked, pos |-> pos]]
      /\ Outside(a)
  BY DEF Entered, Enter
<1> QED BY <1>1 DEF ScreenType, Entered

LEMMA AccessOp ==
    ASSUME ScreenType, NEW a \in Actor, Access(a)
    PROVE  /\ ~Outside(a) /\ \A b \in Actor \ {a} : port'[b] = port[b]
           /\ port'[a].at # 0 => port'[a].locked = port[a].locked
<1>1. port[a].at \in 1 .. 8 /\ \A b \in Actor \ {a} : port'[b] = port[b]
  BY AccessIs
<1>2. port[a].at \in {1, 2, 3, 5, 6, 7} \/ port[a].at = 4 => port'[a].locked = port[a].locked
  BY AccessIs DEF Goes
<1>3. port[a].at = 8 => port'[a].at = 0
  BY AccessIs DEF Idle
<1> QED BY <1>1, <1>2, <1>3 DEF Outside

\* A port access.
LEMMA AccessKeeps ==
    ASSUME Inv, NEW a \in Actor, Access(a),
           UNCHANGED <<ringVars, flagVars, consLock, intrVars, fgVars>>
    PROVE  Inv'
<1>1. /\ UNCHANGED <<buf, r, w, e, committed, bufferFlag, showAtonce, consLock, intr, doprocdump, keys>>
      /\ UNCHANGED <<fg, read, want, left, saved, killed, zeros, sessions, viKilled, ahead>>
  BY DEF ringVars, flagVars, intrVars, fgVars
<1>2. /\ ~Outside(a) /\ \A b \in Actor \ {a} : port'[b] = port[b]
      /\ port'[a].at # 0 => port'[a].locked = port[a].locked
  BY AccessOp DEF Inv
<1>3. Actor = {"intr", "fg"}
  BY Sizes
<1>4. ScreenType' /\ WholeInv' /\ DrawInv'
  BY <1>1, AccessType, AccessWhole, AccessDraw DEF Inv, ScreenType
<1>5. RingInv' /\ EofInv' /\ FlagInv'
  BY <1>1, SameRing, SameEof, SameFlags DEF Inv, ringVars
<1>6. ReadInv'
  <2>1. read # "no" => port'["fg"] = port["fg"]
    BY <1>2, <1>3 DEF Inv, ReadInv
  <2> QED BY <1>1, <2>1, SameRead DEF Inv
<1>7. LockInv'
  BY <1>1, <1>2, <1>3 DEF Inv, LockInv, Outside
<1>8. QuietInside'
  <2> SUFFICES ASSUME fg \in Inside, ~ahead PROVE QuietHere'
    BY <1>1 DEF QuietInside
  <2>1. QuietHere
    BY DEF Inv, QuietInside
  <2>2. Outside("intr") => Outside("intr")'
    BY <1>2, <1>3 DEF Outside
  <2> QED BY <1>1, <2>1, <2>2 DEF QuietHere
<1> QED BY <1>4, <1>5, <1>6, <1>7, <1>8 DEF Inv

-----------------------------------------------------------------------------
(* The interrupt *)

LEMMA IntrEnterKeeps == ASSUME Inv, IntrEnter PROVE Inv'
<1>1. /\ UNCHANGED <<buf, r, w, e, committed, bufferFlag, showAtonce, doprocdump, keys>>
      /\ UNCHANGED <<fg, read, want, left, saved, killed, zeros, sessions, viKilled, ahead>>
      /\ UNCHANGED screenVars /\ consLock = "none" /\ consLock' = "intr" /\ intr = "off" /\ intr' = "getc"
  BY DEF IntrEnter, acquireCons, ringVars, flagVars, fgVars
<1>2. Screens' /\ port' = port
  BY <1>1, SameScreens DEF Inv, Screens, Drawing
<1>3. RingInv' /\ EofInv' /\ FlagInv' /\ ReadInv'
  BY <1>1, <1>2, SameRing, SameEof, SameFlags, SameRead DEF Inv, ringVars
<1>4. LockInv'
  BY <1>1, <1>2, Sizes DEF Inv, LockInv, Outside
<1>5. QuietInside'
  BY <1>1, <1>2 DEF Inv, QuietInside, QuietHere, Outside
<1> QED BY <1>2, <1>3, <1>4, <1>5 DEF Inv, Screens

LEMMA IntrLeaveKeeps == ASSUME Inv, IntrLeave PROVE Inv'
<1>1. /\ UNCHANGED <<buf, r, w, e, committed, bufferFlag, showAtonce, doprocdump, keys>>
      /\ UNCHANGED <<fg, read, want, left, saved, killed, zeros, sessions, viKilled, ahead>>
      /\ UNCHANGED screenVars /\ consLock' = "none" /\ Outside("intr")
      /\ intr = "getc" /\ intr' \in {"dump", "off"}
  BY DEF IntrLeave, releaseCons, ringVars, flagVars, fgVars
<1>2. Screens' /\ port' = port
  BY <1>1, SameScreens DEF Inv, Screens, Drawing
<1>3. RingInv' /\ EofInv' /\ FlagInv' /\ ReadInv'
  BY <1>1, <1>2, SameRing, SameEof, SameFlags, SameRead DEF Inv, ringVars
<1>4. LockInv'
  BY <1>1, <1>2, Sizes DEF Inv, LockInv, Outside
<1>5. QuietInside'
  BY <1>1, <1>2 DEF Inv, QuietInside, QuietHere, Outside
<1> QED BY <1>2, <1>3, <1>4, <1>5 DEF Inv, Screens

\* The interrupt prints a character under the lock.
LEMMA IntrPuts ==
    ASSUME Inv, ~panicked, NEW c \in Shapes, cgaputc("intr", c, TRUE), UNCHANGED fgVars,
           consLock \in {"none", "intr"}
    PROVE  /\ Screens' /\ Outside("intr") /\ port'["intr"].at # 0 /\ port'["intr"].locked
           /\ port'["fg"] = port["fg"]
<1>1. Entered("intr", "put", 1, c, 0, TRUE) /\ saved' = saved /\ fg' = fg
  BY DEF cgaputc, Entered, fgVars
<1>2. "intr" \in Actor /\ "fg" \in Actor /\ Actor = {"intr", "fg"}
  BY Sizes
<1>3. ScreenType /\ WholeInv /\ DrawInv /\ LockInv /\ saved' \in Places
  BY <1>1 DEF Inv, ScreenType
<1>4. \A b \in Actor \ {"intr"} : port[b].locked => Outside(b)
  BY <1>2, <1>3 DEF LockInv
<1>5. ScreenType'
  BY <1>1, <1>2, <1>3, EnterType
<1>6. WholeInv'
  <2>1. 0 < CELLS
    BY Sizes
  <2> QED BY <1>1, <1>2, <1>3, <1>4, <2>1, EnterWhole
<1>7. DrawInv'
  BY <1>1, <1>3, IntrEnterDraw
<1>8. /\ Outside("intr") /\ port'["intr"].at # 0 /\ port'["intr"].locked /\ port'["fg"] = port["fg"]
  <2>1. /\ Outside("intr") /\ port'["intr"].at # 0 /\ port'["intr"].locked = TRUE
        /\ \A b \in Actor \ {"intr"} : port'[b] = port[b]
    BY <1>1, <1>2, <1>3, EnterOp
  <2> QED BY <1>2, <2>1
<1> QED BY <1>5, <1>6, <1>7, <1>8 DEF Screens

LEMMA ProcdumpKeeps == ASSUME Inv, ~panicked, Procdump PROVE Inv'
<1>1. /\ UNCHANGED <<buf, r, w, e, committed, bufferFlag, showAtonce, keys>>
      /\ UNCHANGED <<fg, read, want, left, saved, killed, zeros, sessions, viKilled, ahead>>
      /\ consLock = "none" /\ consLock' = "intr" /\ intr = "dump" /\ intr' = "dumped"
      /\ cgaputc("intr", "a", TRUE) /\ UNCHANGED fgVars
  BY DEF Procdump, acquireCons, ringVars, flagVars, fgVars
<1>2. /\ Screens' /\ Outside("intr") /\ port'["intr"].at # 0 /\ port'["intr"].locked
      /\ port'["fg"] = port["fg"]
  BY <1>1, IntrPuts DEF Shapes
<1>3. RingInv' /\ EofInv' /\ FlagInv' /\ ReadInv'
  BY <1>1, <1>2, SameRing, SameEof, SameFlags, SameRead DEF Inv, ringVars
<1>4. LockInv'
  BY <1>1, <1>2, Sizes DEF Inv, LockInv, Outside
<1>5. QuietInside'
  BY <1>1, <1>2 DEF Inv, QuietInside, QuietHere, LockInv
<1> QED BY <1>2, <1>3, <1>4, <1>5 DEF Inv, Screens

LEMMA ProcdumpEndKeeps == ASSUME Inv, ProcdumpEnd PROVE Inv'
<1>1. /\ UNCHANGED <<buf, r, w, e, committed, bufferFlag, showAtonce, doprocdump, keys>>
      /\ UNCHANGED <<fg, read, want, left, saved, killed, zeros, sessions, viKilled, ahead>>
      /\ UNCHANGED screenVars /\ consLock' = "none" /\ Outside("intr") /\ intr = "dumped" /\ intr' = "off"
  BY DEF ProcdumpEnd, releaseCons, ringVars, flagVars, fgVars
<1>2. Screens' /\ port' = port
  BY <1>1, SameScreens DEF Inv, Screens, Drawing
<1>3. RingInv' /\ EofInv' /\ FlagInv' /\ ReadInv'
  BY <1>1, <1>2, SameRing, SameEof, SameFlags, SameRead DEF Inv, ringVars
<1>4. LockInv'
  BY <1>1, <1>2, Sizes DEF Inv, LockInv, Outside
<1>5. QuietInside'
  BY <1>1, <1>2 DEF Inv, QuietInside, QuietHere, Outside
<1> QED BY <1>2, <1>3, <1>4, <1>5 DEF Inv, Screens

LEMMA IntrDumpKeeps == ASSUME Inv, IntrDump PROVE Inv'
<1>1. /\ UNCHANGED <<buf, r, w, e, committed, bufferFlag, showAtonce, intr, consLock>>
      /\ UNCHANGED <<fg, read, want, left, saved, killed, zeros, sessions, viKilled, ahead>>
      /\ UNCHANGED screenVars
  BY DEF IntrDump, ringVars, flagVars, fgVars
<1>2. Screens' /\ port' = port
  BY <1>1, SameScreens DEF Inv, Screens, Drawing
<1>3. RingInv' /\ EofInv' /\ FlagInv' /\ ReadInv'
  BY <1>1, <1>2, SameRing, SameEof, SameFlags, SameRead DEF Inv, ringVars
<1>4. LockInv' /\ QuietInside'
  BY <1>1, <1>2 DEF Inv, LockInv, QuietInside, QuietHere, Outside
<1> QED BY <1>2, <1>3, <1>4 DEF Inv, Screens

\* Erasing takes back a character that is not committed.
LEMMA IntrEraseKeeps ==
    ASSUME Inv, ~panicked, NEW k \in {"U", "H"}, IntrErase(k)
    PROVE  Inv'
<1>1. /\ UNCHANGED <<buf, r, w, committed, bufferFlag, showAtonce, consLock>>
      /\ UNCHANGED <<fg, read, want, left, saved, killed, zeros, sessions, viKilled, ahead>>
      /\ UNCHANGED fgVars /\ Outside("intr") /\ intr \in {"getc", "kill"} /\ intr' \in {"getc", "kill"}
  BY DEF IntrErase, ringVars, flagVars, fgVars, Erase
<1>2. consLock = "intr" /\ RingInv
  BY <1>1 DEF Inv, LockInv
<1>3. /\ Screens' /\ port'["fg"] = port["fg"] /\ (~Outside("intr")' => port'["intr"].locked)
      /\ \/ e' = e - 1 /\ e # w
         \/ e' = e /\ port' = port
  <2>1. CASE CanErase(k)
    <3>1. e' = e - 1 /\ cgaputc("intr", "backspace", TRUE) /\ e # w
      BY <2>1 DEF IntrErase, Erase, CanErase
    <3>2. Screens' /\ port'["intr"].locked /\ port'["fg"] = port["fg"]
      BY <1>1, <1>2, <3>1, IntrPuts DEF Shapes
    <3> QED BY <3>1, <3>2
  <2>2. CASE ~CanErase(k)
    <3>1. UNCHANGED screenVars /\ e' = e
      BY <2>2 DEF IntrErase, ringVars
    <3>2. Screens' /\ port' = port
      BY <1>1, <3>1, SameScreens DEF Inv, Screens, Drawing
    <3> QED BY <1>1, <3>1, <3>2 DEF Outside
  <2> QED BY <2>1, <2>2
<1>4. RingInv'
  <2>1. /\ r \in Nat /\ w \in Nat /\ e \in Nat /\ w <= e /\ e <= r + INPUT_BUF
        /\ INPUT_BUF \in Nat
    BY <1>2, ConsoleAssumption DEF RingInv
  <2>2. e' = e \/ (e' = e - 1 /\ e > w)
    BY <1>3, <2>1
  <2>3. e' \in Nat /\ w <= e' /\ e' <= r + INPUT_BUF
    BY <2>1, <2>2
  <2> QED BY <1>1, <1>2, <2>3 DEF RingInv, InputIsQueue
<1>5. EofInv' /\ FlagInv' /\ ReadInv'
  BY <1>1, <1>3, SameEof, SameFlags, SameRead DEF Inv
<1>6. LockInv'
  BY <1>1, <1>2, <1>3, Sizes DEF Inv, LockInv, Outside
<1>7. QuietInside'
  <2> SUFFICES ASSUME fg \in Inside, ~ahead PROVE QuietHere'
    BY <1>1 DEF QuietInside
  <2>1. QuietHere
    BY DEF Inv, QuietInside
  <2>2. e = w
    BY <1>1, <2>1 DEF QuietHere
  <2>3. e' = e /\ port' = port
    BY <1>3, <2>2
  <2> QED BY <1>1, <2>2, <2>3 DEF QuietHere, Outside
<1> QED BY <1>3, <1>4, <1>5, <1>6, <1>7 DEF Inv, Screens

\* A character is stored where nothing waits to be read.
LEMMA IntrStoreKeeps ==
    ASSUME Inv, ~panicked, NEW k \in Keys, IntrStore(k)
    PROVE  Inv'
<1>1. /\ UNCHANGED <<r, w, committed, bufferFlag, showAtonce, consLock, fgVars>>
      /\ UNCHANGED <<fg, read, want, left, saved, killed, zeros, sessions, viKilled, ahead>>
      /\ Outside("intr") /\ intr = "getc"
  BY DEF IntrStore, ringVars, flagVars, fgVars
<1>2. consLock = "intr" /\ RingInv
  BY <1>1 DEF Inv, LockInv
<1>3. /\ Screens' /\ port'["fg"] = port["fg"] /\ (~Outside("intr")' => port'["intr"].locked)
      /\ showAtonce = 0 => port' = port
  <2>1. CASE HasRoom /\ Shown
    <3>1. cgaputc("intr", k, TRUE) /\ showAtonce # 0
      BY <2>1 DEF IntrStore, Shown
    <3>2. Screens' /\ port'["intr"].locked /\ port'["fg"] = port["fg"]
      BY <1>1, <1>2, <3>1, IntrPuts DEF Shapes
    <3> QED BY <3>1, <3>2
  <2>2. CASE ~(HasRoom /\ Shown)
    <3>1. UNCHANGED screenVars
      BY <2>2 DEF IntrStore
    <3>2. Screens' /\ port' = port
      BY <1>1, <3>1, SameScreens DEF Inv, Screens, Drawing
    <3> QED BY <1>1, <3>2 DEF Outside
  <2> QED BY <2>1, <2>2
<1>4. \/ /\ HasRoom /\ buf' = [buf EXCEPT ![e % INPUT_BUF] = k] /\ e' = e + 1 /\ intr' = "commit"
      \/ buf' = buf /\ e' = e /\ intr' = intr
  BY <1>1 DEF IntrStore, ringVars
<1>5. RingInv'
  <2>1. CASE buf' = buf /\ e' = e
    BY <1>1, <1>2, <2>1 DEF RingInv, InputIsQueue
  <2>2. CASE HasRoom /\ buf' = [buf EXCEPT ![e % INPUT_BUF] = k] /\ e' = e + 1
    <3>1. /\ r \in Nat /\ w \in Nat /\ e \in Nat /\ r <= w /\ w <= e /\ e < r + INPUT_BUF
          /\ INPUT_BUF \in Nat \ {0} /\ buf \in [0 .. (INPUT_BUF - 1) -> Keys \cup {"none"}]
      BY <1>2, <2>2, ConsoleAssumption DEF RingInv, HasRoom
    <3>2. ASSUME NEW i \in r .. (w - 1) PROVE buf'[i % INPUT_BUF] = committed[i + 1]
      <4>1. i \in Nat /\ i < e /\ e < i + INPUT_BUF
        BY <3>1
      <4>2. i % INPUT_BUF # e % INPUT_BUF
        BY <3>1, <4>1, ModApart
      <4>3. i % INPUT_BUF \in 0 .. (INPUT_BUF - 1)
        BY <3>1, <4>1, DivMod
      <4>4. buf[i % INPUT_BUF] = committed[i + 1]
        BY <1>2 DEF RingInv, InputIsQueue
      <4> QED BY <2>2, <3>1, <4>2, <4>3, <4>4
    <3>3. InputIsQueue'
      BY <1>1, <3>2 DEF InputIsQueue
    <3>4. buf' \in [0 .. (INPUT_BUF - 1) -> Keys \cup {"none"}]
      BY <2>2, <3>1
    <3>5. e' \in Nat /\ w <= e' /\ e' <= r + INPUT_BUF
      BY <2>2, <3>1
    <3> QED BY <1>1, <1>2, <3>3, <3>4, <3>5 DEF RingInv
  <2> QED BY <1>4, <2>1, <2>2
<1>6. EofInv' /\ FlagInv' /\ ReadInv'
  BY <1>1, <1>3, SameEof, SameFlags, SameRead DEF Inv
<1>7. LockInv'
  <2>1. intr' = "commit" => e' > w
    <3>1. e \in Nat /\ w \in Nat /\ w <= e
      BY <1>2 DEF RingInv
    <3> QED BY <1>1, <1>4, <3>1
  <2>2. intr' \in {"getc", "commit"}
    BY <1>1, <1>4
  <2> QED BY <1>1, <1>2, <1>3, <2>1, <2>2, Sizes DEF Inv, LockInv, Outside
<1>8. QuietInside'
  <2> SUFFICES ASSUME fg \in Inside, ~ahead PROVE QuietHere'
    BY <1>1 DEF QuietInside
  <2>1. QuietHere /\ showAtonce = 0
    BY DEF Inv, QuietInside, FlagInv
  <2>2. port' = port /\ e = w
    BY <1>1, <1>3, <2>1 DEF QuietHere
  <2> QED BY <1>1, <1>4, <2>2 DEF QuietHere, Outside
<1> QED BY <1>3, <1>5, <1>6, <1>7, <1>8 DEF Inv, Screens

\* A line is committed: its characters are the next ones of the queue, and a
\* reader is woken.
LEMMA IntrCommitKeeps == ASSUME Inv, IntrCommit PROVE Inv'
<1>1. /\ UNCHANGED <<buf, r, e, bufferFlag, showAtonce, consLock, screenVars>>
      /\ UNCHANGED <<fg, want, left, saved, killed, zeros, sessions, viKilled, ahead>>
      /\ intr = "commit" /\ intr' = "getc" /\ Outside("intr")
  BY DEF IntrCommit, flagVars
<1>2. RingInv /\ INPUT_BUF \in Nat \ {0}
  BY ConsoleAssumption DEF Inv
<1>3. Screens' /\ port' = port
  BY <1>1, SameScreens DEF Inv, Screens, Drawing
<1> DEFINE more == [i \in 1 .. (e - w) |-> buf[(w + i - 1) % INPUT_BUF]]
<1>4. \/ w' = e /\ read' = WakeReader /\ committed' = committed \o more
      \/ w' = w /\ read' = read /\ committed' = committed /\ ~Commits
  BY DEF IntrCommit
<1>5. /\ r \in Nat /\ w \in Nat /\ e \in Nat /\ r <= w /\ w <= e /\ e <= r + INPUT_BUF
      /\ buf \in [0 .. (INPUT_BUF - 1) -> Keys \cup {"none"}]
      /\ committed \in Seq(Keys \cup {"none"}) /\ Len(committed) = w
  BY <1>2 DEF RingInv
<1>6. /\ more \in Seq(Keys \cup {"none"}) /\ Len(more) = e - w
      /\ \A i \in 1 .. (e - w) : more[i] = buf[(w + i - 1) % INPUT_BUF]
  <2>1. \A i \in 1 .. (e - w) : buf[(w + i - 1) % INPUT_BUF] \in Keys \cup {"none"}
    <3> TAKE i \in 1 .. (e - w)
    <3>1. w + i - 1 \in Nat
      BY <1>5
    <3>2. (w + i - 1) % INPUT_BUF \in 0 .. (INPUT_BUF - 1)
      BY <1>2, <3>1, DivMod
    <3> QED BY <1>5, <3>2
  <2>2. e - w \in Nat
    BY <1>5
  <2> QED BY <2>1, <2>2
<1> HIDE DEF more
<1>7. CASE w' = e /\ read' = WakeReader /\ committed' = committed \o more
  <2> DEFINE S == Keys \cup {"none"}
  <2>0. committed \in Seq(S) /\ more \in Seq(S)
    BY <1>5, <1>6
  <2> HIDE DEF S
  <2>a. committed' \in Seq(S)
    BY <1>7, <2>0
  <2>b. Len(committed') = Len(committed) + Len(more)
    BY <1>7, <2>0
  <2>1. committed' \in Seq(Keys \cup {"none"}) /\ Len(committed') = w'
    BY <1>5, <1>6, <1>7, <2>a, <2>b DEF S
  <2>2. \A i \in 1 .. w : committed'[i] = committed[i]
    BY <1>5, <1>6, <1>7
  <2>3. ASSUME NEW i \in r .. (e - 1) PROVE buf[i % INPUT_BUF] = committed'[i + 1]
    <3>1. CASE i < w
      <4>1. i \in r .. (w - 1) /\ i + 1 \in 1 .. w
        BY <1>5, <3>1
      <4> QED BY <1>2, <2>2, <4>1 DEF RingInv, InputIsQueue
    <3>2. CASE i >= w
      <4> DEFINE n == i + 1 - w
      <4>1. n \in 1 .. (e - w) /\ i + 1 = w + n /\ w + n - 1 = i
        BY <1>5, <3>2
      <4>2. committed'[w + n] = more[n]
        BY <1>5, <1>6, <1>7, <4>1
      <4>3. more[n] = buf[(w + n - 1) % INPUT_BUF]
        BY <1>6, <4>1
      <4> HIDE DEF n
      <4> QED BY <4>1, <4>2, <4>3
    <3> QED BY <1>5, <3>1, <3>2
  <2>4. InputIsQueue'
    BY <1>1, <1>7, <2>3 DEF InputIsQueue
  <2>5. RingInv'
    BY <1>1, <1>2, <1>5, <1>7, <2>1, <2>4 DEF RingInv
  <2>6. EofInv'
    <3>1. \A i \in 1 .. r : committed'[i] = committed[i]
      BY <1>5, <2>2
    <3>2. {i \in 1 .. r : committed'[i] = "D"} = {i \in 1 .. r : committed[i] = "D"}
      BY <3>1
    <3> QED BY <1>1, <3>2 DEF Inv, EofInv, EofOnce
  <2>7. ReadInv' /\ (read' = "in" <=> read = "in")
    BY <1>1, <1>3, <1>7 DEF Inv, ReadInv, SleepsOnEmpty, WakeReader, Outside
  <2>8. LockInv'
    BY <1>1, <1>3, <2>7 DEF Inv, LockInv, Outside
  <2>9. QuietInside'
    BY <1>1, <1>3, <1>7 DEF Inv, QuietInside, QuietHere, Outside
  <2>10. FlagInv'
    BY <1>1, SameFlags DEF Inv
  <2> QED BY <1>3, <2>5, <2>6, <2>7, <2>8, <2>9, <2>10 DEF Inv, Screens
<1>8. CASE w' = w /\ read' = read /\ committed' = committed /\ ~Commits
  <2>1. RingInv' /\ EofInv' /\ FlagInv' /\ ReadInv'
    BY <1>1, <1>3, <1>8, SameRing, SameEof, SameFlags, SameRead DEF Inv, ringVars
  <2>2. LockInv'
    BY <1>1, <1>3, <1>8 DEF Inv, LockInv, Outside
  <2>3. bufferFlag # 0
    BY <1>8 DEF Commits
  <2>4. QuietInside'
    BY <1>1, <2>3 DEF Inv, QuietInside, FlagInv
  <2> QED BY <1>3, <2>1, <2>2, <2>4 DEF Inv, Screens
<1> QED BY <1>4, <1>7, <1>8

-----------------------------------------------------------------------------
(* consoleread() *)

LEMMA ReadEnterKeeps == ASSUME Inv, ReadEnter PROVE Inv'
<1>1. /\ UNCHANGED <<buf, r, w, e, committed, bufferFlag, showAtonce, intr, doprocdump, keys>>
      /\ UNCHANGED <<fg, want, left, saved, killed, zeros, sessions, viKilled, ahead>>
      /\ UNCHANGED screenVars /\ consLock = "none" /\ consLock' = "fg" /\ read = "try" /\ read' = "in"
  BY DEF ReadEnter, acquireCons, ringVars, flagVars, intrVars
<1>2. Screens' /\ port' = port
  BY <1>1, SameScreens DEF Inv, Screens, Drawing
<1>3. RingInv' /\ EofInv' /\ FlagInv'
  BY <1>1, SameRing, SameEof, SameFlags DEF Inv, ringVars
<1>4. ReadInv'
  BY <1>1, <1>2 DEF Inv, ReadInv, SleepsOnEmpty, Outside
<1>5. LockInv'
  BY <1>1, <1>2, Sizes DEF Inv, LockInv, Outside
<1>6. QuietInside'
  BY <1>1, <1>2 DEF Inv, QuietInside, QuietHere, Outside
<1> QED BY <1>2, <1>3, <1>4, <1>5, <1>6 DEF Inv, Screens

\* Where a read leaves the process.
LEMMA AfterReads ==
    ASSUME ReadInv, read # "no", fg' \in {fg, AfterRead}
    PROVE  /\ fg' \in {"sh", "v_read", "v_get"} /\ fg \in {"sh", "v_read"}
           /\ fg' \in Inside <=> fg \in Inside
           /\ fg' = AfterRead => fg' \in {"sh", "v_get"}
           /\ fg' # "v_printed" /\ fg' \in Labels /\ ~Drawing'
BY DEF ReadInv, AfterRead, Inside, Labels, Drawing

LEMMA ReadWaitKeeps == ASSUME Inv, ReadWait PROVE Inv'
<1>1. /\ UNCHANGED <<buf, r, w, e, committed, bufferFlag, showAtonce, intr, doprocdump, keys>>
      /\ UNCHANGED <<want, left, saved, killed, zeros, sessions, viKilled, ahead>>
      /\ UNCHANGED screenVars /\ consLock' = "none" /\ read = "in" /\ r = w
      /\ (read' = "no" /\ fg' = AfterRead) \/ (read' = "asleep" /\ fg' = fg)
  BY DEF ReadWait, releaseCons, ringVars, flagVars, intrVars
<1>2. /\ fg' \in {"sh", "v_read", "v_get"} /\ fg \in {"sh", "v_read"}
      /\ fg' \in Inside <=> fg \in Inside
      /\ fg' # "v_printed" /\ fg' \in Labels /\ ~Drawing'
  BY <1>1, AfterReads DEF Inv
<1>3. Screens' /\ port' = port
  BY <1>1, <1>2, SameScreens DEF Inv, Screens
<1>4. RingInv' /\ EofInv'
  BY <1>1, SameRing, SameEof DEF Inv, ringVars
<1>5. ReadInv'
  BY <1>1, <1>2, <1>3 DEF Inv, ReadInv, SleepsOnEmpty, Outside
<1>6. LockInv'
  BY <1>1, <1>2, <1>3, Sizes DEF Inv, LockInv, ReadInv, Outside
<1>7. FlagInv' /\ QuietInside'
  BY <1>1, <1>2, <1>3 DEF Inv, FlagInv, QuietInside, QuietHere, Outside
<1> QED BY <1>3, <1>4, <1>5, <1>6, <1>7 DEF Inv, Screens

\* The three ways of ReadChar: ^D put back, ^D passed, another character taken.
LEMMA ReadChars ==
    ASSUME Inv, ReadChar
    PROVE  LET c == buf[r % INPUT_BUF]
           IN  /\ \/ c = "D" /\ left < want /\ r' = r /\ zeros' = zeros
                  \/ c = "D" /\ left = want /\ r' = r + 1 /\ zeros' = zeros + 1
                  \/ c # "D" /\ r' = r + 1 /\ zeros' = zeros
               /\ \/ read' = "no" /\ consLock' = "none" /\ fg' = AfterRead /\ left' \in {left, left - 1}
                  \/ UNCHANGED <<read, consLock, fg>> /\ left # 1 /\ left' = left - 1
<1>1. want \in Nat /\ left \in Nat /\ left <= want /\ left >= 1
  BY DEF Inv, ReadInv, ReadChar
<1> DEFINE c == buf[r % INPUT_BUF]
<1>2. CASE c = "D"
  <2>1. r' = (IF KeepEof THEN r ELSE r + 1) /\ Return(left)
    BY <1>2 DEF ReadChar
  <2> HIDE DEF c
  <2> QED BY <1>1, <1>2, <2>1 DEF Return, releaseCons, KeepEof, c
<1>3. CASE c # "D" /\ (c = "nl" \/ left = 1)
  <2>1. r' = r + 1 /\ Return(left - 1)
    BY <1>3 DEF ReadChar
  <2>2. left - 1 # want
    BY <1>1
  <2> HIDE DEF c
  <2> QED BY <1>3, <2>1, <2>2 DEF Return, releaseCons, c
<1>4. CASE c # "D" /\ ~(c = "nl" \/ left = 1)
  <2>1. r' = r + 1 /\ left' = left - 1 /\ UNCHANGED <<read, consLock, fg, zeros>>
    BY <1>4 DEF ReadChar
  <2> HIDE DEF c
  <2> QED BY <1>4, <2>1 DEF c
<1> QED BY <1>2, <1>3, <1>4

\* How often x is among the first n.
Times(n, s, x) == Cardinality({i \in 1 .. n : s[i] = x})

LEMMA OneMore ==
    ASSUME NEW n \in Nat, NEW s, NEW x
    PROVE  /\ Times(n, s, x) \in Nat
           /\ Times(n + 1, s, x) = IF s[n + 1] = x THEN Times(n, s, x) + 1 ELSE Times(n, s, x)
<1> DEFINE A == {i \in 1 .. n : s[i] = x}
           B == {i \in 1 .. n + 1 : s[i] = x}
<1>1. IsFiniteSet(1 .. n)
  BY FS_Interval
<1>2. IsFiniteSet(A)
  BY <1>1, FS_Subset
<1>3. 1 .. n + 1 = (1 .. n) \cup {n + 1} /\ n + 1 \notin 1 .. n
  OBVIOUS
<1>4. s[n + 1] = x => B = A \cup {n + 1}
  BY <1>3
<1>5. s[n + 1] # x => B = A
  BY <1>3
<1>6. n + 1 \notin A
  BY <1>3
<1> HIDE DEF A, B
<1>7. Cardinality(A \cup {n + 1}) = Cardinality(A) + 1
  BY <1>2, <1>6, FS_AddElement
<1>8. Cardinality(A) \in Nat
  BY <1>2, FS_CardinalityType
<1> QED BY <1>4, <1>5, <1>7, <1>8 DEF A, B, Times

LEMMA ReadCharKeeps == ASSUME Inv, ReadChar PROVE Inv'
<1>1. /\ UNCHANGED <<buf, w, e, committed, bufferFlag, showAtonce, intr, doprocdump, keys>>
      /\ UNCHANGED <<want, saved, killed, sessions, viKilled, ahead>>
      /\ UNCHANGED screenVars /\ read = "in" /\ r # w
  BY DEF ReadChar, flagVars, intrVars
<1>2. /\ r \in Nat /\ w \in Nat /\ e \in Nat /\ r < w /\ w <= e /\ e <= r + INPUT_BUF
      /\ INPUT_BUF \in Nat /\ want \in Nat /\ left \in Nat /\ left <= want /\ left >= 1
  BY <1>1, ConsoleAssumption DEF Inv, RingInv, ReadInv
<1>3. buf[r % INPUT_BUF] = committed[r + 1]
  <2>1. r \in r .. (w - 1)
    BY <1>2
  <2> QED BY <2>1 DEF Inv, RingInv, InputIsQueue
<1>4. /\ \/ committed[r + 1] = "D" /\ left < want /\ r' = r /\ zeros' = zeros
         \/ committed[r + 1] = "D" /\ left = want /\ r' = r + 1 /\ zeros' = zeros + 1
         \/ committed[r + 1] # "D" /\ r' = r + 1 /\ zeros' = zeros
      /\ \/ read' = "no" /\ consLock' = "none" /\ fg' = AfterRead /\ left' \in {left, left - 1}
         \/ UNCHANGED <<read, consLock, fg>> /\ left # 1 /\ left' = left - 1
  BY <1>3, ReadChars
<1>5. /\ fg' \in {"sh", "v_read", "v_get"} /\ fg \in {"sh", "v_read"}
      /\ fg' \in Inside <=> fg \in Inside
      /\ fg' # "v_printed" /\ fg' \in Labels /\ ~Drawing'
  BY <1>1, <1>4, AfterReads DEF Inv
<1>6. Screens' /\ port' = port
  BY <1>1, <1>5, SameScreens DEF Inv, Screens
<1>7. r' \in Nat /\ r <= r' /\ r' <= w /\ e <= r' + INPUT_BUF
  BY <1>2, <1>4
<1>8. RingInv'
  <2>1. \A i \in r' .. (w - 1) : i \in r .. (w - 1)
    BY <1>2, <1>7
  <2>2. InputIsQueue'
    BY <1>1, <2>1 DEF Inv, RingInv, InputIsQueue
  <2> QED BY <1>1, <1>7, <2>2 DEF Inv, RingInv
<1>9. EofInv'
  <2>1. zeros = Times(r, committed, "D") /\ zeros \in Nat
    BY DEF Inv, EofInv, EofOnce, Times
  <2>2. Times(r + 1, committed, "D") = IF committed[r + 1] = "D" THEN Times(r, committed, "D") + 1
                                       ELSE Times(r, committed, "D")
    BY <1>2, OneMore
  <2>3. zeros' = Times(r', committed, "D") /\ zeros' \in Nat
    BY <1>4, <2>1, <2>2
  <2> QED BY <1>1, <2>3 DEF EofInv, EofOnce, Times
<1>10. ReadInv'
  <2>1. left' \in Nat /\ left' <= want /\ (read' # "no" => left' >= 1)
    BY <1>1, <1>2, <1>4
  <2> QED BY <1>1, <1>4, <1>5, <1>6, <2>1 DEF Inv, ReadInv, SleepsOnEmpty, Outside
<1>11. LockInv'
  BY <1>1, <1>4, <1>5, <1>6, Sizes DEF Inv, LockInv, ReadInv, Outside
<1>12. FlagInv' /\ QuietInside'
  BY <1>1, <1>5, <1>6 DEF Inv, FlagInv, QuietInside, QuietHere, Outside
<1> QED BY <1>6, <1>8, <1>9, <1>10, <1>11, <1>12 DEF Inv, Screens

-----------------------------------------------------------------------------
(* The shell and the editor *)

\* Steps of the foreground process between its reads and its locked prints.
LEMMA FgSteps ==
    ASSUME Inv, Screens', fg' \in Labels, read = "no",
           UNCHANGED <<buf, r, w, e, committed, bufferFlag, showAtonce, consLock, intr>>,
           UNCHANGED <<read, want, left, zeros, viKilled, ahead>>,
           fg' \in Inside <=> fg \in Inside,
           fg # "v_printed", fg' # "v_printed",
           fg \notin {"v_flag2", "q_flag2"}, fg' \notin {"v_flag2", "q_flag2"},
           port'["intr"] = port["intr"], port'["fg"].at # 0 => ~port'["fg"].locked
    PROVE  Inv'
<1>1. RingInv' /\ EofInv'
  BY SameRing, SameEof DEF Inv, ringVars
<1>2. ReadInv'
  BY DEF Inv, ReadInv, SleepsOnEmpty
<1>3. LockInv'
  BY Sizes DEF Inv, LockInv, Outside
<1>4. FlagInv' /\ QuietInside'
  BY DEF Inv, FlagInv, QuietInside, QuietHere, Outside
<1> QED BY <1>1, <1>2, <1>3, <1>4 DEF Inv, Screens

LEMMA ShReadKeeps == ASSUME Inv, ShRead PROVE Inv'
<1>1. /\ UNCHANGED <<buf, r, w, e, committed, bufferFlag, showAtonce, consLock, intr, doprocdump, keys>>
      /\ UNCHANGED <<fg, saved, killed, zeros, sessions, viKilled, ahead>>
      /\ UNCHANGED screenVars /\ fg = "sh" /\ read = "no" /\ read' = "try" /\ Outside("fg")
      /\ want' = ReadSize /\ left' = ReadSize
  BY DEF ShRead, ReadCall, Ready, ringVars, flagVars, intrVars
<1>2. Screens' /\ port' = port
  BY <1>1, SameScreens DEF Inv, Screens, Drawing
<1>3. RingInv' /\ EofInv' /\ FlagInv'
  BY <1>1, SameRing, SameEof, SameFlags DEF Inv, ringVars
<1>4. ReadInv'
  <2>1. ReadSize \in Nat /\ ReadSize >= 1
    BY ConsoleAssumption
  <2> QED BY <1>1, <1>2, <2>1 DEF Inv, ReadInv, SleepsOnEmpty, Outside
<1>5. LockInv' /\ QuietInside'
  BY <1>1, <1>2 DEF Inv, LockInv, QuietInside, QuietHere, Outside
<1> QED BY <1>2, <1>3, <1>4, <1>5 DEF Inv, Screens

LEMMA ViReadKeeps == ASSUME Inv, ViRead PROVE Inv'
<1>1. /\ UNCHANGED <<buf, r, w, e, committed, bufferFlag, showAtonce, consLock, intr, doprocdump, keys>>
      /\ UNCHANGED <<fg, saved, killed, zeros, sessions, viKilled, ahead>>
      /\ UNCHANGED screenVars /\ fg = "v_read" /\ read = "no" /\ read' = "try" /\ Outside("fg")
      /\ want' = 1 /\ left' = 1
  BY DEF ViRead, ReadCall, Ready, ringVars, flagVars, intrVars
<1>2. Screens' /\ port' = port
  BY <1>1, SameScreens DEF Inv, Screens, Drawing
<1>3. RingInv' /\ EofInv' /\ FlagInv'
  BY <1>1, SameRing, SameEof, SameFlags DEF Inv, ringVars
<1>4. ReadInv'
  BY <1>1, <1>2 DEF Inv, ReadInv, SleepsOnEmpty, Outside
<1>5. LockInv' /\ QuietInside'
  BY <1>1, <1>2 DEF Inv, LockInv, QuietInside, QuietHere, Outside
<1> QED BY <1>2, <1>3, <1>4, <1>5 DEF Inv, Screens

LEMMA ShStartViKeeps == ASSUME Inv, ShStartVi PROVE Inv'
<1>1. /\ UNCHANGED <<buf, r, w, e, committed, bufferFlag, showAtonce, consLock, intr>>
      /\ UNCHANGED <<read, want, left, saved, zeros, viKilled, ahead, screenVars>>
      /\ fg = "sh" /\ fg' = "v_clear" /\ read = "no" /\ Outside("fg")
  BY DEF ShStartVi, Ready, fgRest, ringVars, flagVars, intrVars
<1>2. Screens' /\ port' = port
  BY <1>1, SameScreens DEF Inv, Screens, Drawing
<1> QED BY <1>1, <1>2, FgSteps DEF Inside, Labels, MoveLabels, Outside

LEMMA ViCommandKeeps == ASSUME Inv, ViCommand PROVE Inv'
<1>1. /\ UNCHANGED <<buf, r, w, e, committed, bufferFlag, showAtonce, consLock, intr>>
      /\ UNCHANGED <<read, want, left, saved, zeros, viKilled, ahead, screenVars>>
      /\ fg = "v_cmd" /\ fg' \in {"r_clear", "v_sync"} /\ read = "no" /\ Outside("fg")
  BY DEF ViCommand, Ready, fgRest, ringVars, flagVars, intrVars
<1>2. Screens' /\ port' = port
  BY <1>1, SameScreens DEF Inv, Screens, Drawing
<1> QED BY <1>1, <1>2, FgSteps DEF Inside, Labels, MoveLabels, Outside

\* printOnStatusLine() keeps the position it got: one of the screen, unless two
\* calls overlapped.
LEMMA ViGotKeeps == ASSUME Inv, ~panicked, ViGot PROVE Inv'
<1>1. /\ UNCHANGED <<buf, r, w, e, committed, bufferFlag, showAtonce, consLock, intr>>
      /\ UNCHANGED <<read, want, left, zeros, viKilled, ahead, screenVars>>
      /\ fg = "v_got" /\ fg' = "v_status" /\ read = "no" /\ Outside("fg")
      /\ saved' = port["fg"].pos
  BY DEF ViGot, Ready, fgRest, ringVars, flagVars, intrVars
<1>2. /\ idx' = idx /\ reg' = reg /\ port' = port /\ panicked' = panicked /\ cur' = cur
      /\ last' = last /\ marks' = marks /\ "fg" \in Actor
  BY <1>1, Sizes DEF screenVars
<1>3. ScreenType'
  BY <1>1, <1>2 DEF Inv, ScreenType
<1>4. WholeInv'
  <2> SUFFICES ASSUME "raced" \notin marks PROVE Whole'
    BY <1>2 DEF WholeInv
  <2>1. Whole /\ Stage(port["fg"])
    BY <1>2 DEF Inv, WholeInv, Whole
  <2>2. saved' < CELLS
    BY <1>1, <2>1 DEF Stage, Outside
  <2> QED BY <1>2, <2>1, <2>2 DEF Whole, Alone, Stage, Cursor, Outside
<1>5. DrawInv'
  BY <1>1, <1>2 DEF Inv, DrawInv, Draw, Drawing, Clean, Outside
<1>6. Screens'
  BY <1>3, <1>4, <1>5 DEF Screens
<1> QED BY <1>1, <1>2, <1>6, FgSteps DEF Inside, Labels, MoveLabels, Outside

\* A call that vi makes without the lock.
LEMMA FgCalls ==
    ASSUME Inv, ~panicked, NEW call, NEW at, NEW c \in Shapes, NEW pos,
           Entered("fg", call, at, c, pos, FALSE), saved' = saved,
           "raced" \in marks \/ pos < CELLS,
           \/ call = "get"
           \/ call = "set" /\ (Drawing' => pos = 0)
           \/ call = "put" /\ ~Drawing' /\ Drawing /\ ~CopyEnds(port["fg"].pos, c)
    PROVE  Screens' /\ port'["intr"] = port["intr"] /\ ~port'["fg"].locked
<1>1. "intr" \in Actor /\ "fg" \in Actor /\ Actor = {"intr", "fg"}
  BY Sizes
<1>2. ScreenType /\ WholeInv /\ DrawInv /\ saved' \in Places
  BY DEF Inv, ScreenType
<1>3. ScreenType'
  BY <1>1, <1>2, EnterType
<1>4. WholeInv'
  BY <1>1, <1>2, EnterWhole
<1>5. DrawInv'
  BY <1>2, FgEnterDraw
<1>6. port'["fg"].locked = FALSE /\ port'["intr"] = port["intr"]
  BY <1>1, <1>2 DEF Entered, Enter, ScreenType
<1> QED BY <1>1, <1>3, <1>4, <1>5, <1>6 DEF Screens

\* Where the calls that move the cursor are made and what comes after them.
LEMMA Moves ==
    ASSUME NEW l \in DOMAIN Move, saved \in Places, NEW pos \in Move[l][1],
           NEW n \in Move[l][2]
    PROVE  /\ l \in MoveLabels /\ n \in Labels
           /\ n \in Inside <=> l \in Inside
           /\ n \notin {"v_printed", "v_flag2", "q_flag2"}
           /\ pos \in Places /\ (saved < CELLS => pos < CELLS)
           /\ n \in {"v_copy", "r_copy"} => pos = 0
<1>1. DOMAIN Move = MoveLabels
  BY DEF Move, MoveLabels
<1>2. /\ 0 \in Places /\ 0 < CELLS /\ StatusLine \in Places /\ StatusLine < CELLS
      /\ \A p \in 0 .. (StatusLine - 1) : p \in Places /\ p < CELLS
  BY Sizes DEF Places
<1>3. CASE l \in {"v_clear", "v_origin", "r_clear", "r_origin", "v_home", "q_clear", "q_home"}
  <2>1. Move[l][1] = {0}
    BY <1>3 DEF Move
  <2>2. n \in {"v_origin", "v_copy", "r_origin", "r_copy", "v_flag1", "q_home", "sh"}
        /\ (n \in Inside <=> l \in Inside)
    BY <1>3 DEF Move, Inside
  <2> QED BY <1>1, <1>2, <2>1, <2>2 DEF Labels, MoveLabels
<1>4. CASE l = "v_status"
  <2>1. Move[l][1] = {StatusLine} /\ n = "v_print"
    BY <1>4 DEF Move
  <2> QED BY <1>2, <1>4, <2>1 DEF Labels, MoveLabels, Inside
<1>5. CASE l = "v_restore"
  <2>1. Move[l][1] = {saved} /\ n = "v_cmd"
    BY <1>5 DEF Move
  <2> QED BY <1>5, <2>1 DEF Labels, MoveLabels, Inside
<1>6. CASE l = "v_sync"
  <2>1. Move[l][1] = 0 .. (StatusLine - 1) /\ n \in {"v_read", "q_flag1"}
    BY <1>6 DEF Move
  <2> QED BY <1>2, <1>6, <2>1 DEF Labels, MoveLabels, Inside
<1> QED BY <1>1, <1>3, <1>4, <1>5, <1>6 DEF MoveLabels

LEMMA ViMoveKeeps == ASSUME Inv, ~panicked, ViMove PROVE Inv'
<1>1. /\ UNCHANGED <<buf, r, w, e, committed, bufferFlag, showAtonce, consLock, intr>>
      /\ UNCHANGED <<read, want, left, saved, zeros, viKilled, ahead>>
  BY DEF ViMove, fgRest, ringVars, flagVars, intrVars
<1>2. PICK l \in DOMAIN Move : /\ Ready(l) /\ \E pos \in Move[l][1] : setCursorPos("fg", pos)
                              /\ fg' \in Move[l][2]
  BY DEF ViMove
<1>3. PICK pos \in Move[l][1] : setCursorPos("fg", pos)
  BY <1>2
<1>4. saved \in Places
  BY DEF Inv, ScreenType
<1>5. /\ l \in MoveLabels /\ fg' \in Labels
      /\ fg' \in Inside <=> l \in Inside
      /\ fg' \notin {"v_printed", "v_flag2", "q_flag2"}
      /\ pos \in Places /\ (saved < CELLS => pos < CELLS)
      /\ fg' \in {"v_copy", "r_copy"} => pos = 0
  BY <1>2, <1>4, Moves
<1>6. fg = l /\ read = "no" /\ fg \notin {"v_printed", "v_flag2", "q_flag2"}
  BY <1>2, <1>5 DEF Ready, MoveLabels
<1>7. Screens' /\ port'["intr"] = port["intr"] /\ (port'["fg"].at # 0 => ~port'["fg"].locked)
  <2>1. "raced" \in marks \/ pos < CELLS
    BY <1>5 DEF Inv, WholeInv, Whole
  <2>2. Drawing' => pos = 0
    BY <1>5 DEF Drawing
  <2>3. CASE pos < CELLS
    <3>1. Entered("fg", "set", 5, "none", pos, FALSE)
      BY <1>3, <1>5, <2>3 DEF setCursorPos, Entered
    <3>2. "none" \in Shapes
      BY DEF Shapes
    <3> QED BY <1>1, <2>1, <2>2, <3>1, <3>2, FgCalls
  <2>4. CASE ~(pos < CELLS)
    <3>1. /\ Outside("fg") /\ panicked' = TRUE /\ "raced" \in marks
          /\ UNCHANGED <<idx, reg, port, cur, last, marks, saved>>
      BY <1>1, <1>3, <2>1, <2>4 DEF setCursorPos
    <3>2. ScreenType'
      BY <3>1 DEF Inv, ScreenType, CallGood
    <3>3. WholeInv' /\ DrawInv'
      BY <3>1 DEF WholeInv, DrawInv, Clean
    <3> QED BY <3>1, <3>2, <3>3 DEF Screens, Outside
  <2> QED BY <2>3, <2>4
<1> QED BY <1>1, <1>5, <1>6, <1>7, FgSteps

LEMMA ViCopyKeeps == ASSUME Inv, ~panicked, ViCopy PROVE Inv'
<1>1. /\ UNCHANGED <<buf, r, w, e, committed, bufferFlag, showAtonce, consLock, intr>>
      /\ UNCHANGED <<read, want, left, saved, zeros, viKilled, ahead>>
      /\ fg \in {"v_copy", "r_copy"} /\ read = "no" /\ Outside("fg")
  BY DEF ViCopy, Ready, fgRest, ringVars, flagVars, intrVars
<1>2. CASE \E c \in Chars : /\ ~CopyEnds(port["fg"].pos, c)
                           /\ cgaputc("fg", c, FALSE)
                           /\ fg' = IF fg = "v_copy" THEN "v_copied" ELSE "r_copied"
  <2>1. PICK c \in Chars : /\ ~CopyEnds(port["fg"].pos, c)
                          /\ cgaputc("fg", c, FALSE)
                          /\ fg' = IF fg = "v_copy" THEN "v_copied" ELSE "r_copied"
    BY <1>2
  <2>2. Entered("fg", "put", 1, c, 0, FALSE)
    BY <2>1 DEF cgaputc, Entered
  <2>3. Drawing /\ ~Drawing' /\ 0 < CELLS /\ c \in Shapes
    BY <1>1, <2>1, Sizes DEF Drawing, Shapes
  <2>4. Screens' /\ port'["intr"] = port["intr"] /\ ~port'["fg"].locked
    BY <1>1, <2>1, <2>2, <2>3, FgCalls
  <2> QED BY <1>1, <2>1, <2>4, FgSteps DEF Inside, Labels, MoveLabels
<1>3. CASE /\ fg' = IF fg = "v_copy" THEN "v_home" ELSE "v_sync"
           /\ UNCHANGED screenVars
  <2>1. Screens' /\ port' = port
    BY <1>1, <1>3, SameScreens DEF Inv, Screens, Drawing
  <2> QED BY <1>1, <1>3, <2>1, FgSteps DEF Inside, Labels, MoveLabels, Outside
<1> QED BY <1>2, <1>3 DEF ViCopy

LEMMA ViGetKeeps == ASSUME Inv, ~panicked, ViGet PROVE Inv'
<1>1. /\ UNCHANGED <<buf, r, w, e, committed, bufferFlag, showAtonce, consLock, intr>>
      /\ UNCHANGED <<read, want, left, saved, zeros, viKilled, ahead>>
      /\ <<fg, fg'>> \in {<<"v_copied", "v_copy">>, <<"r_copied", "r_copy">>, <<"v_get", "v_got">>}
      /\ read = "no" /\ getCursorPos("fg")
  BY DEF ViGet, Ready, fgRest, ringVars, flagVars, intrVars
<1>2. Entered("fg", "get", 1, "none", 0, FALSE)
  BY <1>1 DEF getCursorPos, Entered
<1>3. 0 < CELLS /\ "none" \in Shapes
  BY Sizes DEF Shapes
<1>4. Screens' /\ port'["intr"] = port["intr"] /\ ~port'["fg"].locked
  BY <1>1, <1>2, <1>3, FgCalls
<1> QED BY <1>1, <1>4, FgSteps DEF Inside, Labels, MoveLabels

\* The status line is printed under the lock.
LEMMA ViPrintKeeps == ASSUME Inv, ~panicked, ViPrint PROVE Inv'
<1>1. /\ UNCHANGED <<buf, r, w, e, committed, bufferFlag, showAtonce, intr>>
      /\ UNCHANGED <<read, want, left, saved, zeros, viKilled, ahead>>
      /\ consLock = "none" /\ consLock' = "fg" /\ fg = "v_print" /\ fg' = "v_printed" /\ read = "no"
      /\ cgaputc("fg", "a", TRUE)
  BY DEF ViPrint, Ready, acquireCons, fgRest, ringVars, flagVars, intrVars
<1>2. Entered("fg", "put", 1, "a", 0, TRUE)
  BY <1>1 DEF cgaputc, Entered
<1>3. "intr" \in Actor /\ "fg" \in Actor /\ Actor = {"intr", "fg"} /\ 0 < CELLS /\ "a" \in Shapes
  BY Sizes DEF Shapes
<1>4. ScreenType /\ WholeInv /\ DrawInv /\ saved' \in Places
  BY <1>1 DEF Inv, ScreenType
<1>5. ScreenType'
  BY <1>2, <1>3, <1>4, EnterType
<1>6. WholeInv'
  <2>1. \A b \in Actor \ {"fg"} : port[b].locked => Outside(b)
    BY <1>1, <1>3 DEF Inv, LockInv
  <2> QED BY <1>1, <1>2, <1>3, <1>4, <2>1, EnterWhole
<1>7. DrawInv'
  <2>1. ~Drawing'
    BY <1>1 DEF Drawing
  <2> QED BY <1>2, <1>4, <2>1, FgEnterDraw
<1>8. port'["intr"] = port["intr"]
  <2>1. \A b \in Actor \ {"fg"} : port'[b] = port[b]
    BY <1>2, <1>3, <1>4, EnterOp
  <2> QED BY <1>3, <2>1
<1>9. RingInv' /\ EofInv'
  BY <1>1, SameRing, SameEof DEF Inv, ringVars
<1>10. ReadInv'
  BY <1>1 DEF Inv, ReadInv, SleepsOnEmpty, Labels
<1>11. LockInv'
  BY <1>1, <1>3, <1>8 DEF Inv, LockInv, Outside
<1>12. FlagInv' /\ QuietInside'
  BY <1>1, <1>8 DEF Inv, FlagInv, QuietInside, QuietHere, Inside, Outside
<1> QED BY <1>5, <1>6, <1>7, <1>9, <1>10, <1>11, <1>12 DEF Inv

LEMMA ViPrintedKeeps == ASSUME Inv, ViPrinted PROVE Inv'
<1>1. /\ UNCHANGED <<buf, r, w, e, committed, bufferFlag, showAtonce, intr>>
      /\ UNCHANGED <<read, want, left, saved, zeros, viKilled, ahead, screenVars>>
      /\ consLock' = "none" /\ fg = "v_printed" /\ fg' = "v_restore" /\ Outside("fg")
  BY DEF ViPrinted, releaseCons, fgRest, ringVars, flagVars, intrVars
<1>2. Screens' /\ port' = port
  BY <1>1, SameScreens DEF Inv, Screens, Drawing
<1>3. RingInv' /\ EofInv'
  BY <1>1, SameRing, SameEof DEF Inv, ringVars
<1>4. read = "no"
  BY <1>1 DEF Inv, ReadInv
<1>5. ReadInv'
  BY <1>1, <1>4 DEF Inv, ReadInv, SleepsOnEmpty, Labels, MoveLabels
<1>6. LockInv'
  BY <1>1, <1>2, <1>4, Sizes DEF Inv, LockInv, Outside
<1>7. FlagInv' /\ QuietInside'
  BY <1>1, <1>2 DEF Inv, FlagInv, QuietInside, QuietHere, Inside, Outside
<1> QED BY <1>2, <1>3, <1>5, <1>6, <1>7 DEF Inv, Screens

\* The switches: both off before vi reads, both on before it ends; what was not
\* committed when the second one is set is what ahead remembers.
LEMMA ViFlagKeeps == ASSUME Inv, ViFlag PROVE Inv'
<1>1. /\ UNCHANGED <<buf, r, w, e, committed, consLock, intr, read, want, left, saved, zeros>>
      /\ UNCHANGED <<viKilled, screenVars>> /\ read = "no"
      /\ \/ fg = "v_flag1" /\ fg' = "v_flag2" /\ bufferFlag' = 0 /\ UNCHANGED <<showAtonce, ahead>>
         \/ /\ fg = "v_flag2" /\ fg' = "v_read" /\ showAtonce' = 0 /\ UNCHANGED bufferFlag
            /\ ahead' = (e # w \/ ~Outside("intr"))
         \/ fg = "q_flag1" /\ fg' = "q_flag2" /\ bufferFlag' = 1 /\ UNCHANGED <<showAtonce, ahead>>
         \/ fg = "q_flag2" /\ fg' = "q_clear" /\ showAtonce' = 1 /\ UNCHANGED <<bufferFlag, ahead>>
  BY DEF ViFlag, Ready, fgRest, ringVars, intrVars
<1>2. fg' \in {"v_flag2", "v_read", "q_flag2", "q_clear"} /\ fg # "v_printed"
  BY <1>1
<1>3. Screens' /\ port' = port
  BY <1>1, <1>2, SameScreens DEF Inv, Screens, Drawing
<1>4. RingInv' /\ EofInv'
  BY <1>1, SameRing, SameEof DEF Inv, ringVars
<1>5. ReadInv'
  BY <1>1, <1>2 DEF Inv, ReadInv, SleepsOnEmpty, Labels, MoveLabels
<1>6. LockInv'
  BY <1>1, <1>2, <1>3 DEF Inv, LockInv, Outside
<1>7. FlagInv'
  <2>1. FlagInv
    BY DEF Inv
  <2>2. /\ bufferFlag' \in {0, 1} /\ showAtonce' \in {0, 1} /\ viKilled' \in BOOLEAN
    BY <1>1, <2>1 DEF FlagInv
  <2>3. CASE fg = "v_flag1"
    BY <1>1, <2>1, <2>2, <2>3 DEF FlagInv, Inside
  <2>4. CASE fg = "v_flag2"
    BY <1>1, <2>1, <2>2, <2>4 DEF FlagInv, Inside
  <2>5. CASE fg = "q_flag1"
    BY <1>1, <2>1, <2>2, <2>5 DEF FlagInv, Inside
  <2>6. CASE fg = "q_flag2"
    BY <1>1, <2>1, <2>2, <2>6 DEF FlagInv, Inside
  <2> QED BY <1>1, <2>3, <2>4, <2>5, <2>6
<1>8. QuietInside'
  <2> SUFFICES ASSUME fg' \in Inside, ~ahead' PROVE QuietHere'
    BY DEF QuietInside
  <2>1. fg = "v_flag2" /\ ~(e # w \/ ~Outside("intr"))
    BY <1>1, <1>2 DEF Inside
  <2> QED BY <1>1, <1>3, <2>1 DEF QuietHere, Outside
<1> QED BY <1>3, <1>4, <1>5, <1>6, <1>7, <1>8 DEF Inv, Screens

LEMMA KillKeeps == ASSUME Inv, Kill PROVE Inv'
<1>1. /\ UNCHANGED <<buf, r, w, e, committed, bufferFlag, showAtonce, consLock, intr>>
      /\ UNCHANGED <<fg, want, left, saved, zeros, viKilled, ahead, screenVars>>
      /\ read' = WakeReader
  BY DEF Kill, fgRest, ringVars, flagVars, intrVars
<1>2. Screens' /\ port' = port
  BY <1>1, SameScreens DEF Inv, Screens, Drawing
<1>3. RingInv' /\ EofInv' /\ FlagInv'
  BY <1>1, SameRing, SameEof, SameFlags DEF Inv, ringVars
<1>4. ReadInv' /\ (read' = "in" <=> read = "in")
  BY <1>1, <1>2 DEF Inv, ReadInv, SleepsOnEmpty, WakeReader, Outside
<1>5. LockInv' /\ QuietInside'
  BY <1>1, <1>2, <1>4 DEF Inv, LockInv, QuietInside, QuietHere, Outside
<1> QED BY <1>2, <1>3, <1>4, <1>5 DEF Inv, Screens

LEMMA DieKeeps == ASSUME Inv, Die PROVE Inv'
<1>1. /\ UNCHANGED <<buf, r, w, e, committed, bufferFlag, showAtonce, consLock, intr>>
      /\ UNCHANGED <<read, want, left, saved, zeros, ahead, screenVars>>
      /\ fg' = "sh" /\ viKilled' = TRUE /\ read = "no" /\ fg # "v_printed"
  BY DEF Die, fgRest, ringVars, flagVars, intrVars
<1>2. Screens' /\ port' = port
  BY <1>1, SameScreens DEF Inv, Screens, Drawing
<1>3. RingInv' /\ EofInv'
  BY <1>1, SameRing, SameEof DEF Inv, ringVars
<1>4. ReadInv' /\ LockInv'
  BY <1>1, <1>2 DEF Inv, ReadInv, LockInv, SleepsOnEmpty, Labels, Outside
<1>5. FlagInv' /\ QuietInside'
  BY <1>1, <1>2 DEF Inv, FlagInv, QuietInside, Inside
<1> QED BY <1>2, <1>3, <1>4, <1>5 DEF Inv, Screens

-----------------------------------------------------------------------------
(* Every state *)

LEMMA StartsRight == Init => Inv
<1> SUFFICES ASSUME Init PROVE Inv
  OBVIOUS
<1>1. /\ idx = 15 /\ reg = [i \in {14, 15} |-> 0] /\ port = [a \in Actor |-> Idle]
      /\ panicked = FALSE /\ cur = 0 /\ last = "fg" /\ marks = {} /\ saved = 0
  BY DEF Init, ScreenInit
<1>2. 0 \in Places /\ 0 \in 0 .. (BYTE - 1) /\ 0 < CELLS /\ Actor = {"intr", "fg"}
  BY Sizes DEF Places
<1>3. /\ Idle.at = 0 /\ Idle.pos = 0 /\ Idle.call = "none" /\ Idle.locked = FALSE
      /\ Idle \in Calls
  BY DEF Idle, Calls, Shapes
<1>4. \A a \in Actor : port[a] = Idle /\ Outside(a)
  BY <1>1, <1>3 DEF Outside
<1>5. ScreenType
  <2>1. \A a \in Actor : CallGood(port[a]) /\ port[a].pos \in Places
    BY <1>2, <1>3, <1>4 DEF CallGood
  <2>2. port \in [Actor -> Calls] /\ reg \in [{14, 15} -> 0 .. (BYTE - 1)]
    BY <1>1, <1>2, <1>3
  <2> QED BY <1>1, <1>2, <2>1, <2>2 DEF ScreenType
<1>6. RingInv
  <2>1. buf \in [0 .. (INPUT_BUF - 1) -> Keys \cup {"none"}]
    BY DEF Init
  <2>2. r = 0 /\ w = 0 /\ e = 0 /\ committed = << >> /\ INPUT_BUF \in Nat
    BY ConsoleAssumption DEF Init
  <2> QED BY <2>1, <2>2 DEF RingInv, InputIsQueue
<1>7. ReadInv
  BY DEF Init, ReadInv, SleepsOnEmpty, Labels
<1>8. LockInv
  BY <1>2, <1>4 DEF Init, LockInv
<1>9. EofInv
  <2>1. r = 0 /\ zeros = 0
    BY DEF Init
  <2>2. {i \in 1 .. r : committed[i] = "D"} = {}
    BY <2>1
  <2> QED BY <2>1, <2>2, FS_EmptySet DEF EofInv, EofOnce
<1>10. FlagInv /\ QuietInside
  BY DEF Init, FlagInv, QuietInside, Inside
<1>11. WholeInv
  <2>1. Cursor = cur
    <3>1. reg[14] = 0 /\ reg[15] = 0 /\ BYTE \in Nat
      BY <1>1, Sizes
    <3> QED BY <1>1, <3>1 DEF Cursor
  <2>2. \A a \in Actor : Stage(port[a])
    BY <1>2, <1>3, <1>4 DEF Stage
  <2> QED BY <1>1, <1>2, <1>4, <2>1, <2>2 DEF WholeInv, Whole, Alone
<1>12. DrawInv
  <2>1. fg = "sh"
    BY DEF Init
  <2>2. port["fg"].at = 0
    BY <1>2, <1>3, <1>4
  <2> QED BY <1>1, <2>1, <2>2 DEF DrawInv, Draw, Drawing
<1> QED BY <1>5, <1>6, <1>7, <1>8, <1>9, <1>10, <1>11, <1>12 DEF Inv

LEMMA StaysRight == Inv /\ [Next]_vars => Inv'
<1> SUFFICES ASSUME Inv, [Next]_vars PROVE Inv'
  OBVIOUS
<1>1. CASE Next /\ Interrupt
  <2>1. ~panicked
    BY <1>1 DEF Next
  <2>2. CASE IntrEnter
    BY <2>2, IntrEnterKeeps
  <2>3. CASE IntrLeave
    BY <2>3, IntrLeaveKeeps
  <2>4. CASE Procdump
    BY <2>1, <2>4, ProcdumpKeeps
  <2>5. CASE ProcdumpEnd
    BY <2>5, ProcdumpEndKeeps
  <2>6. CASE IntrCommit
    BY <2>6, IntrCommitKeeps
  <2>7. CASE \E k \in Keys \cap {"U", "H"} : IntrErase(k)
    BY <2>1, <2>7, IntrEraseKeeps
  <2>8. CASE IntrDump
    BY <2>8, IntrDumpKeeps
  <2>9. CASE \E k \in Keys \ {"U", "H", "P"} : IntrStore(k)
    BY <2>1, <2>9, IntrStoreKeeps
  <2> QED BY <1>1, <2>2, <2>3, <2>4, <2>5, <2>6, <2>7, <2>8, <2>9 DEF Interrupt
<1>2. CASE Next /\ Vi
  <2>1. ~panicked
    BY <1>2 DEF Next
  <2> QED BY <1>2, <2>1, ViMoveKeeps, ViCopyKeeps, ViGetKeeps, ViGotKeeps, ViPrintKeeps,
             ViPrintedKeeps, ViFlagKeeps, ViReadKeeps, ViCommandKeeps DEF Vi
<1>3. CASE Kill \/ Die \/ ShRead \/ ShStartVi \/ ReadEnter \/ ReadWait \/ ReadChar
  BY <1>3, KillKeeps, DieKeeps, ShReadKeeps, ShStartViKeeps, ReadEnterKeeps, ReadWaitKeeps,
     ReadCharKeeps
<1>4. CASE \E a \in Actor : /\ Access(a)
                          /\ UNCHANGED <<ringVars, flagVars, consLock, intrVars, fgVars>>
  BY <1>4, AccessKeeps
<1>5. CASE UNCHANGED vars
  <2>1. /\ UNCHANGED <<screenVars, buf, r, w, e, committed, bufferFlag, showAtonce, consLock, intr>>
        /\ UNCHANGED <<fg, read, want, left, saved, zeros, viKilled, ahead>>
    BY <1>5 DEF vars, ringVars, flagVars, intrVars, fgVars
  <2>2. Screens' /\ port' = port
    BY <2>1, SameScreens DEF Inv, Screens, Drawing
  <2>3. RingInv' /\ EofInv' /\ FlagInv' /\ ReadInv'
    BY <2>1, <2>2, SameRing, SameEof, SameFlags, SameRead DEF Inv, ringVars
  <2>4. LockInv' /\ QuietInside'
    BY <2>1, <2>2 DEF Inv, LockInv, QuietInside, QuietHere, Outside
  <2> QED BY <2>2, <2>3, <2>4 DEF Inv, Screens
<1> QED BY <1>1, <1>2, <1>3, <1>4, <1>5 DEF Next

LEMMA RightInput == Inv => InputInv
<1> SUFFICES ASSUME Inv PROVE InputInv
  OBVIOUS
<1>1. /\ idx \in {14, 15} /\ \A i \in {14, 15} : reg[i] \in 0 .. (BYTE - 1)
  BY DEF Inv, ScreenType
<1>2. r \in 0 .. w /\ w \in 0 .. e /\ e \in 0 .. (r + INPUT_BUF) /\ Len(committed) = w
  BY ConsoleAssumption DEF Inv, RingInv
<1>3. /\ bufferFlag \in {0, 1} /\ showAtonce \in {0, 1} /\ consLock \in Actor \cup {"none"}
  BY Sizes DEF Inv, FlagInv, LockInv
<1>4. read \in {"no", "try", "in", "asleep"} /\ left \in 0 .. want /\ SleepsOnEmpty
  BY DEF Inv, ReadInv
<1> QED BY <1>1, <1>2, <1>3, <1>4 DEF InputInv, TypeOK, Inv, RingInv, EofInv

LEMMA RightScreen == Inv => ScreenInv
<1> SUFFICES ASSUME Inv PROVE ScreenInv
  OBVIOUS
<1>1. SwitchesRestored
  BY DEF SwitchesRestored, Inv, FlagInv, Inside
<1>2. QuietInVi
  <2>1. InLoop => fg \in Inside
    BY DEF InLoop, Inside
  <2> QED BY <2>1 DEF QuietInVi, Inv, QuietInside, QuietHere
<1>3. CursorWhole
  BY DEF CursorWhole, Inv, WholeInv, Whole
<1>4. CopyNeverScrolls
  BY DEF CopyNeverScrolls, Inv, DrawInv, Draw, Clean
<1> QED BY <1>1, <1>2, <1>3, <1>4 DEF ScreenInv

\* consoleintr() and consoleread() pass characters on in order and once: a
\* committed character is neither erased by ^H or ^U nor overwritten when the
\* ring is full, a reader never sleeps over committed input, and every ^D that
\* is passed makes exactly one read return 0.  For a ring and reads of any
\* size and any keys, with both switches in any position.
THEOREM InputArrives == Spec => []InputInv
<1>1. Inv => InputInv
  BY RightInput
<1> QED BY <1>1, StartsRight, StaysRight, PTL DEF Spec

\* The switches that vi sets with setBufferFlag() and setShowAtOnce() are on
\* again when an editor that was not killed is gone, and while it works the
\* keyboard interrupt leaves the screen alone; cgaputc(), getCursorPos() and
\* setCursorPos() keep the cursor whole and copyFromTextToScreen() never
\* scrolls, where no call without cons.lock meets another one.  For a screen of
\* any size that two registers can address.
THEOREM ScreenIsShared == Spec => []ScreenInv
<1>1. Inv => ScreenInv
  BY RightScreen
<1> QED BY <1>1, StartsRight, StaysRight, PTL DEF Spec

-----------------------------------------------------------------------------
(* The keyboard driver, for a queue of scan codes of any length *)

\* kbdgetc() with bits s and a code.
Get(s, data) == IF data = E0 THEN [shift |-> s \cup {"E0ESC"}, c |-> "0"]
                ELSE IF data >= 128 THEN [shift |-> Released(s, data), c |-> "0"]
                ELSE Pressed(s, data)

\* From bits s the driver reads the codes q, comes to bits t and returns the
\* characters ws: st[i] are the bits after i codes, n[i] the characters by then.
ReadsBy(q, s, ws, t, st, n) ==
    /\ st[0] = s /\ st[Len(q)] = t /\ n[0] = 0 /\ n[Len(q)] = Len(ws)
    /\ \A i \in 0 .. Len(q) : n[i] \in 0 .. Len(ws)
    /\ \A i \in 0 .. Len(q) : \A j \in 0 .. i : n[j] <= n[i]
    /\ \A i \in 1 .. Len(q) :
          /\ st[i] = Get(st[i - 1], q[i]).shift
          /\ Get(st[i - 1], q[i]).c = "0" => n[i] = n[i - 1]
          /\ Get(st[i - 1], q[i]).c # "0" => n[i] = n[i - 1] + 1 /\ ws[n[i]] = Get(st[i - 1], q[i]).c
Reads(q, s, ws, t) == \E st, n : ReadsBy(q, s, ws, t, st, n)

\* The bits that the keys mean.
KeyBits == {m \in {"SHIFT", "CTL"} : lastDown[m]} \cup (IF caps THEN {"CAPSLOCK"} ELSE {})

\* What waits in the controller leads from the driver's bits to those of the
\* keys, by way of the characters that were meant.
KbdInv == /\ codes \in Seq(Nat) /\ owed \in Seq({"a", "A", "^A", "UP"})
          /\ lastDown \in [{"SHIFT", "CTL"} -> BOOLEAN] /\ caps \in BOOLEAN
          /\ wrong = FALSE /\ Reads(codes, shift, owed, KeyBits)

\* Nothing waits.
LEMMA NothingRead ==
    ASSUME NEW s, NEW C, NEW ws \in Seq(C), NEW t
    PROVE  Reads(<< >>, s, ws, t) <=> s = t /\ ws = << >>
<1>1. ASSUME Reads(<< >>, s, ws, t) PROVE s = t /\ ws = << >>
  <2>1. PICK st, n : ReadsBy(<< >>, s, ws, t, st, n)
    BY <1>1 DEF Reads
  <2>2. s = t /\ Len(ws) = 0
    BY <2>1 DEF ReadsBy
  <2> QED BY <2>2
<1>2. ASSUME s = t, ws = << >> PROVE Reads(<< >>, s, ws, t)
  <2> DEFINE st == [i \in {0} |-> s]
             n == [i \in {0} |-> 0]
  <2>1. Len(<< >>) = 0 /\ st[0] = s /\ n[0] = 0 /\ Len(ws) = 0
    BY <1>2
  <2> HIDE DEF st, n
  <2>2. ReadsBy(<< >>, s, ws, t, st, n)
    BY <1>2, <2>1 DEF ReadsBy
  <2> QED BY <2>2 DEF Reads
<1> QED BY <1>1, <1>2

\* One more code waits.
LEMMA CodeAdded ==
    ASSUME NEW q \in Seq(Nat), NEW s, NEW C, NEW ws \in Seq(C), NEW t, NEW x \in Nat,
           Reads(q, s, ws, t)
    PROVE  /\ Get(t, x).c = "0" => Reads(Append(q, x), s, ws, Get(t, x).shift)
           /\ Get(t, x).c # "0" => Reads(Append(q, x), s, Append(ws, Get(t, x).c), Get(t, x).shift)
<1> DEFINE g == Get(t, x)
           L == Len(q)
           W == Len(ws)
           q2 == Append(q, x)
           ws2 == IF g.c = "0" THEN ws ELSE Append(ws, g.c)
           m == IF g.c = "0" THEN W ELSE W + 1
<1>1. PICK st, n : ReadsBy(q, s, ws, t, st, n)
  BY DEF Reads
<1> DEFINE st2 == [i \in 0 .. L + 1 |-> IF i = L + 1 THEN g.shift ELSE st[i]]
           n2 == [i \in 0 .. L + 1 |-> IF i = L + 1 THEN m ELSE n[i]]
<1>2. L \in Nat /\ W \in Nat /\ Len(q2) = L + 1 /\ q2[L + 1] = x /\ \A i \in 1 .. L : q2[i] = q[i]
  OBVIOUS
<1>3. Len(ws2) = m /\ m \in {W, W + 1} /\ (\A i \in 1 .. W : ws2[i] = ws[i])
      /\ (g.c = "0" => m = W) /\ (g.c # "0" => m = W + 1 /\ ws2[m] = g.c)
  BY <1>2
<1>4. /\ st2[L + 1] = g.shift /\ n2[L + 1] = m /\ \A i \in 0 .. L : st2[i] = st[i] /\ n2[i] = n[i]
  BY <1>2
<1>a. g = Get(t, x)
  OBVIOUS
<1> HIDE DEF g, L, W, q2, ws2, m, st2, n2
<1>5. /\ st[0] = s /\ st[L] = t /\ n[0] = 0 /\ n[L] = W
      /\ \A i \in 0 .. L : n[i] \in 0 .. W
      /\ \A i \in 0 .. L : \A j \in 0 .. i : n[j] <= n[i]
      /\ \A i \in 1 .. L :
            /\ st[i] = Get(st[i - 1], q[i]).shift
            /\ Get(st[i - 1], q[i]).c = "0" => n[i] = n[i - 1]
            /\ Get(st[i - 1], q[i]).c # "0" => n[i] = n[i - 1] + 1 /\ ws[n[i]] = Get(st[i - 1], q[i]).c
  BY <1>1 DEF ReadsBy, L, W
<1>6. st2[0] = s /\ st2[Len(q2)] = g.shift /\ n2[0] = 0 /\ n2[Len(q2)] = Len(ws2)
  BY <1>2, <1>3, <1>4, <1>5
<1>7. \A i \in 0 .. Len(q2) : n2[i] \in 0 .. Len(ws2)
  <2> TAKE i \in 0 .. Len(q2)
  <2>1. CASE i \in 0 .. L
    <3>1. n2[i] = n[i] /\ n[i] \in 0 .. W
      BY <1>4, <1>5, <2>1
    <3> QED BY <1>2, <1>3, <3>1
  <2>2. CASE i = L + 1
    BY <1>2, <1>3, <1>4, <2>2
  <2> QED BY <1>2, <2>1, <2>2
<1>8. \A i \in 0 .. Len(q2) : \A j \in 0 .. i : n2[j] <= n2[i]
  <2> TAKE i \in 0 .. Len(q2)
  <2> TAKE j \in 0 .. i
  <2>1. CASE i \in 0 .. L
    <3>1. j \in 0 .. L
      BY <1>2, <2>1
    <3> QED BY <1>4, <1>5, <2>1, <3>1
  <2>2. CASE i = L + 1 /\ j \in 0 .. L
    <3>1. n2[j] \in 0 .. W
      BY <1>4, <1>5, <2>2
    <3> QED BY <1>2, <1>3, <1>4, <2>2, <3>1
  <2>3. CASE i = L + 1 /\ j = L + 1
    BY <1>2, <1>3, <1>4, <2>3
  <2> QED BY <1>2, <2>1, <2>2, <2>3
<1>9. ASSUME NEW i \in 1 .. Len(q2)
      PROVE  /\ st2[i] = Get(st2[i - 1], q2[i]).shift
             /\ Get(st2[i - 1], q2[i]).c = "0" => n2[i] = n2[i - 1]
             /\ Get(st2[i - 1], q2[i]).c # "0" => n2[i] = n2[i - 1] + 1 /\ ws2[n2[i]] = Get(st2[i - 1], q2[i]).c
  <2>1. CASE i \in 1 .. L
    <3>1. i - 1 \in 0 .. L /\ i \in 0 .. L
      BY <1>2, <2>1
    <3>2. /\ st2[i] = st[i] /\ st2[i - 1] = st[i - 1] /\ n2[i] = n[i] /\ n2[i - 1] = n[i - 1]
          /\ q2[i] = q[i]
      BY <1>2, <1>4, <2>1, <3>1
    <3>3. n[i] \in 0 .. W /\ n[i - 1] \in 0 .. W
      BY <1>5, <3>1
    <3>4. n[i] = n[i - 1] + 1 => n[i] \in 1 .. W
      BY <1>2, <3>3
    <3> QED BY <1>3, <1>5, <2>1, <3>2, <3>4
  <2>2. CASE i = L + 1
    <3>1. i - 1 = L /\ L \in 0 .. L
      BY <1>2, <2>2
    <3>2. st2[i - 1] = t /\ n2[i - 1] = W /\ q2[i] = x /\ st2[i] = g.shift /\ n2[i] = m
      BY <1>2, <1>4, <1>5, <2>2, <3>1
    <3> QED BY <1>3, <1>a, <3>2
  <2> QED BY <1>2, <2>1, <2>2
<1>10. ReadsBy(q2, s, ws2, g.shift, st2, n2)
  BY <1>6, <1>7, <1>8, <1>9 DEF ReadsBy
<1>11. Reads(q2, s, ws2, g.shift)
  BY <1>10 DEF Reads
<1> QED BY <1>11 DEF g, q2, ws2

\* The first code is read.
LEMMA CodeRead ==
    ASSUME NEW q \in Seq(Nat), NEW s, NEW C, NEW ws \in Seq(C), NEW t, q # << >>,
           Reads(q, s, ws, t)
    PROVE  /\ Get(s, Head(q)).c = "0" => Reads(Tail(q), Get(s, Head(q)).shift, ws, t)
           /\ Get(s, Head(q)).c # "0" => /\ ws # << >> /\ Head(ws) = Get(s, Head(q)).c
                                        /\ Reads(Tail(q), Get(s, Head(q)).shift, Tail(ws), t)
<1> DEFINE g == Get(s, Head(q))
           L == Len(q)
           W == Len(ws)
           q2 == Tail(q)
           ws2 == IF g.c = "0" THEN ws ELSE Tail(ws)
           d == IF g.c = "0" THEN 0 ELSE 1
<1>1. PICK st, n : ReadsBy(q, s, ws, t, st, n)
  BY DEF Reads
<1> DEFINE st2 == [i \in 0 .. L - 1 |-> st[i + 1]]
           n2 == [i \in 0 .. L - 1 |-> n[i + 1] - d]
<1>2. L \in Nat /\ L >= 1 /\ W \in Nat /\ Len(q2) = L - 1 /\ Head(q) = q[1]
      /\ \A i \in 1 .. L - 1 : q2[i] = q[i + 1]
  OBVIOUS
<1>4. \A i \in 0 .. L - 1 : st2[i] = st[i + 1] /\ n2[i] = n[i + 1] - d
  BY <1>2
<1>5. /\ st[0] = s /\ st[L] = t /\ n[0] = 0 /\ n[L] = W
      /\ \A i \in 0 .. L : n[i] \in 0 .. W
      /\ \A i \in 0 .. L : \A j \in 0 .. i : n[j] <= n[i]
      /\ \A i \in 1 .. L :
            /\ st[i] = Get(st[i - 1], q[i]).shift
            /\ Get(st[i - 1], q[i]).c = "0" => n[i] = n[i - 1]
            /\ Get(st[i - 1], q[i]).c # "0" => n[i] = n[i - 1] + 1 /\ ws[n[i]] = Get(st[i - 1], q[i]).c
  BY <1>1 DEF ReadsBy
<1>6. /\ st[1] = g.shift /\ n[1] = d /\ (g.c # "0" => ws[1] = g.c)
  <2>1. 1 \in 1 .. L /\ 1 - 1 = 0
    BY <1>2
  <2> QED BY <1>2, <1>5, <2>1
<1>7. d \in {0, 1} /\ (g.c = "0" <=> d = 0) /\ d <= W
  <2>1. n[1] \in 0 .. W
    BY <1>2, <1>5
  <2> QED BY <1>2, <1>6, <2>1
<1>8. /\ Len(ws2) = W - d /\ \A i \in 1 .. W - d : ws2[i] = ws[i + d]
      /\ g.c # "0" => ws # << >> /\ Head(ws) = g.c
  <2>1. CASE g.c = "0"
    BY <1>2, <1>7, <2>1
  <2>2. CASE g.c # "0"
    <3>1. ws # << >> /\ d = 1
      BY <1>2, <1>7, <2>2
    <3>2. Head(ws) = ws[1] /\ Len(Tail(ws)) = W - 1 /\ \A i \in 1 .. W - 1 : Tail(ws)[i] = ws[i + 1]
      BY <3>1
    <3> QED BY <1>6, <2>2, <3>1, <3>2
  <2> QED BY <2>1, <2>2
<1> HIDE DEF g, L, W, q2, ws2, d, st2, n2
<1>9. \A i \in 1 .. L : d <= n[i] /\ n[i] <= W /\ n[i] \in Nat
  <2> TAKE i \in 1 .. L
  <2>1. i \in 0 .. L /\ 1 \in 0 .. i
    BY <1>2
  <2> QED BY <1>2, <1>5, <1>6, <2>1
<1>10. st2[0] = g.shift /\ st2[Len(q2)] = t /\ n2[0] = 0 /\ n2[Len(q2)] = Len(ws2)
  <2>1. 0 \in 0 .. L - 1 /\ L - 1 \in 0 .. L - 1 /\ (L - 1) + 1 = L /\ 0 + 1 = 1
    BY <1>2
  <2>2. st2[0] = st[1] /\ n2[0] = n[1] - d
    BY <1>4, <2>1
  <2>3. st2[L - 1] = st[L] /\ n2[L - 1] = n[L] - d
    BY <1>4, <2>1
  <2>4. d \in Nat
    BY <1>7
  <2>5. n2[0] = 0
    BY <1>6, <2>2, <2>4
  <2>6. st2[Len(q2)] = t /\ n2[Len(q2)] = Len(ws2)
    BY <1>2, <1>5, <1>8, <2>3
  <2> QED BY <1>6, <2>2, <2>5, <2>6
<1>11. \A i \in 0 .. Len(q2) : n2[i] \in 0 .. Len(ws2)
  <2> TAKE i \in 0 .. Len(q2)
  <2>1. i \in 0 .. L - 1 /\ i + 1 \in 1 .. L
    BY <1>2
  <2>2. n2[i] = n[i + 1] - d /\ d <= n[i + 1] /\ n[i + 1] <= W /\ n[i + 1] \in Nat
    BY <1>4, <1>9, <2>1
  <2>3. d \in Nat /\ W \in Nat /\ Len(ws2) = W - d
    BY <1>2, <1>7, <1>8
  <2> QED BY <2>2, <2>3
<1>12. \A i \in 0 .. Len(q2) : \A j \in 0 .. i : n2[j] <= n2[i]
  <2> TAKE i \in 0 .. Len(q2)
  <2> TAKE j \in 0 .. i
  <2>1. i \in 0 .. L - 1 /\ j \in 0 .. L - 1 /\ i + 1 \in 0 .. L /\ j + 1 \in 0 .. i + 1
        /\ i + 1 \in 1 .. L /\ j + 1 \in 1 .. L
    BY <1>2
  <2>2. n[j + 1] <= n[i + 1] /\ n[j + 1] \in Nat /\ n[i + 1] \in Nat
    BY <1>5, <1>9, <2>1
  <2> QED BY <1>4, <1>7, <2>1, <2>2
<1>13. ASSUME NEW i \in 1 .. Len(q2)
       PROVE  /\ st2[i] = Get(st2[i - 1], q2[i]).shift
              /\ Get(st2[i - 1], q2[i]).c = "0" => n2[i] = n2[i - 1]
              /\ Get(st2[i - 1], q2[i]).c # "0" => n2[i] = n2[i - 1] + 1 /\ ws2[n2[i]] = Get(st2[i - 1], q2[i]).c
  <2>1. /\ i \in 1 .. L - 1 /\ i \in 0 .. L - 1 /\ i - 1 \in 0 .. L - 1 /\ (i - 1) + 1 = i /\ (i + 1) - 1 = i
        /\ i + 1 \in 1 .. L /\ i \in 1 .. L
    BY <1>2
  <2>2. st2[i] = st[i + 1] /\ st2[i - 1] = st[i] /\ n2[i] = n[i + 1] - d /\ n2[i - 1] = n[i] - d
        /\ q2[i] = q[i + 1]
    BY <1>2, <1>4, <2>1
  <2>3. /\ st[i + 1] = Get(st[i], q[i + 1]).shift
        /\ Get(st[i], q[i + 1]).c = "0" => n[i + 1] = n[i]
        /\ Get(st[i], q[i + 1]).c # "0" => n[i + 1] = n[i] + 1 /\ ws[n[i + 1]] = Get(st[i], q[i + 1]).c
    BY <1>5, <2>1
  <2>4. d <= n[i] /\ n[i] \in Nat /\ n[i + 1] \in Nat /\ n[i + 1] <= W
    BY <1>9, <2>1
  <2>5. n[i + 1] = n[i] + 1 => ws2[n[i + 1] - d] = ws[n[i + 1]]
    <3> SUFFICES ASSUME n[i + 1] = n[i] + 1 PROVE ws2[n[i + 1] - d] = ws[n[i + 1]]
      OBVIOUS
    <3> DEFINE k == n[i + 1] - d
    <3>1. k \in 1 .. W - d /\ k + d = n[i + 1]
      <4>1. d \in Nat /\ W \in Nat /\ d <= n[i] /\ n[i] \in Nat /\ n[i + 1] <= W
        BY <1>2, <1>7, <2>4
      <4> QED BY <4>1
    <3> HIDE DEF k
    <3>2. ws2[k] = ws[k + d]
      BY <1>8, <3>1
    <3> QED BY <3>1, <3>2 DEF k
  <2>6. n[i + 1] = n[i] + 1 => n[i + 1] - d = (n[i] - d) + 1
    BY <1>7, <2>4
  <2> QED BY <2>2, <2>3, <2>5, <2>6
<1>14. ReadsBy(q2, g.shift, ws2, t, st2, n2)
  BY <1>10, <1>11, <1>12, <1>13 DEF ReadsBy
<1>15. Reads(q2, g.shift, ws2, t)
  BY <1>14 DEF Reads
<1> QED BY <1>8, <1>15 DEF g, q2, ws2

\* What kbdgetc() makes of each code, without and behind 0xE0.
LEMMA Codes ==
    ASSUME NEW s, "E0ESC" \notin s
    PROVE  /\ Get(s, E0) = [shift |-> s \cup {"E0ESC"}, c |-> "0"]
           /\ Get(s, 42) = [shift |-> s \cup {"SHIFT"}, c |-> "0"]
           /\ Get(s, 54) = [shift |-> s \cup {"SHIFT"}, c |-> "0"]
           /\ Get(s, 29) = [shift |-> s \cup {"CTL"}, c |-> "0"]
           /\ Get(s, 58) = [shift |-> (s \ {"CAPSLOCK"}) \cup ({"CAPSLOCK"} \ s), c |-> "0"]
           /\ Get(s, 30) = [shift |-> s, c |-> IF "CTL" \in s THEN "^A"
                                           ELSE IF ("SHIFT" \in s) # ("CAPSLOCK" \in s) THEN "A" ELSE "a"]
           /\ Get(s, 170) = [shift |-> s \ {"SHIFT"}, c |-> "0"]
           /\ Get(s, 182) = [shift |-> s \ {"SHIFT"}, c |-> "0"]
           /\ Get(s, 157) = [shift |-> s \ {"CTL"}, c |-> "0"]
           /\ Get(s, 186) = [shift |-> s, c |-> "0"]
           /\ Get(s, 158) = [shift |-> s, c |-> "0"]
<1>1. Get(s, E0) = [shift |-> s \cup {"E0ESC"}, c |-> "0"]
  BY DEF Get, E0
<1>2. ASSUME NEW d \in {42, 54, 29} PROVE Get(s, d) = [shift |-> s \cup (IF d = 29 THEN {"CTL"} ELSE {"SHIFT"}), c |-> "0"]
  <2> DEFINE b == Toggled((s \ {"E0ESC"}) \cup shiftcode(d), togglecode(d))
  <2>1. b = s \cup (IF d = 29 THEN {"CTL"} ELSE {"SHIFT"})
    BY DEF Toggled, shiftcode, togglecode
  <2>2. charcode(b, d) = "0"
    BY DEF charcode
  <2>3. Get(s, d) = Pressed(s, d)
    BY DEF Get, E0
  <2>4. Pressed(s, d) = [shift |-> b, c |-> IF "CAPSLOCK" \in b THEN Capital("0") ELSE "0"]
    BY <2>2 DEF Pressed
  <2> HIDE DEF b
  <2> QED BY <2>1, <2>3, <2>4 DEF Capital
<1>3. Get(s, 58) = [shift |-> (s \ {"CAPSLOCK"}) \cup ({"CAPSLOCK"} \ s), c |-> "0"]
  <2> DEFINE b == Toggled((s \ {"E0ESC"}) \cup shiftcode(58), togglecode(58))
  <2>1. b = (s \ {"CAPSLOCK"}) \cup ({"CAPSLOCK"} \ s)
    BY DEF Toggled, shiftcode, togglecode
  <2>2. charcode(b, 58) = "0"
    BY DEF charcode
  <2>3. Get(s, 58) = Pressed(s, 58)
    BY DEF Get, E0
  <2>4. Pressed(s, 58) = [shift |-> b, c |-> IF "CAPSLOCK" \in b THEN Capital("0") ELSE "0"]
    BY <2>2 DEF Pressed
  <2> HIDE DEF b
  <2> QED BY <2>1, <2>3, <2>4 DEF Capital
<1>4. Get(s, 30) = [shift |-> s, c |-> IF "CTL" \in s THEN "^A"
                                   ELSE IF ("SHIFT" \in s) # ("CAPSLOCK" \in s) THEN "A" ELSE "a"]
  <2> DEFINE b == Toggled((s \ {"E0ESC"}) \cup shiftcode(30), togglecode(30))
  <2>1. b = s
    BY DEF Toggled, shiftcode, togglecode
  <2>2. charcode(s, 30) = IF "CTL" \in s THEN "^A" ELSE IF "SHIFT" \in s THEN "A" ELSE "a"
    BY DEF charcode
  <2>3. Get(s, 30) = Pressed(s, 30)
    BY DEF Get, E0
  <2>4. Pressed(s, 30) = [shift |-> b, c |-> IF "CAPSLOCK" \in b THEN Capital(charcode(b, 30)) ELSE charcode(b, 30)]
    BY DEF Pressed
  <2> HIDE DEF b
  <2>5. Get(s, 30) = [shift |-> s, c |-> IF "CAPSLOCK" \in s THEN Capital(charcode(s, 30)) ELSE charcode(s, 30)]
    BY <2>1, <2>3, <2>4
  <2>6. Capital("a") = "A" /\ Capital("A") = "a" /\ Capital("^A") = "^A"
    BY DEF Capital
  <2>7. (IF "CAPSLOCK" \in s THEN Capital(charcode(s, 30)) ELSE charcode(s, 30))
        = IF "CTL" \in s THEN "^A" ELSE IF ("SHIFT" \in s) # ("CAPSLOCK" \in s) THEN "A" ELSE "a"
    BY <2>2, <2>6
  <2> QED BY <2>5, <2>7
<1>5. ASSUME NEW d \in {170, 182, 157, 186, 158}
      PROVE  Get(s, d) = [shift |-> s \ (IF d \in {170, 182} THEN {"SHIFT"} ELSE IF d = 157 THEN {"CTL"} ELSE {}), c |-> "0"]
  <2>1. Get(s, d) = [shift |-> Released(s, d), c |-> "0"]
    BY DEF Get, E0
  <2>2. shiftcode(d - 128) = IF d \in {170, 182} THEN {"SHIFT"} ELSE IF d = 157 THEN {"CTL"} ELSE {}
    BY DEF shiftcode
  <2>3. Released(s, d) = s \ (shiftcode(d - 128) \cup {"E0ESC"})
    BY DEF Released
  <2>4. s \ (shiftcode(d - 128) \cup {"E0ESC"}) = s \ shiftcode(d - 128)
    OBVIOUS
  <2> QED BY <2>1, <2>2, <2>3, <2>4
<1> QED BY <1>1, <1>2, <1>3, <1>4, <1>5

LEMMA CodesBehind ==
    ASSUME NEW s, "E0ESC" \notin s
    PROVE  /\ Get(s \cup {"E0ESC"}, 29) = [shift |-> s \cup {"CTL"}, c |-> "0"]
           /\ Get(s \cup {"E0ESC"}, 157) = [shift |-> s \ {"CTL"}, c |-> "0"]
           /\ Get(s \cup {"E0ESC"}, 72) = [shift |-> s, c |-> "UP"]
           /\ Get(s \cup {"E0ESC"}, 200) = [shift |-> s, c |-> "0"]
<1> DEFINE u == s \cup {"E0ESC"}
<1>1. Get(u, 29) = [shift |-> s \cup {"CTL"}, c |-> "0"]
  <2> DEFINE b == Toggled((u \ {"E0ESC"}) \cup shiftcode(157), togglecode(157))
  <2>1. b = s \cup {"CTL"}
    BY DEF Toggled, shiftcode, togglecode
  <2>2. charcode(b, 157) = "0"
    BY DEF charcode
  <2>3. Get(u, 29) = Pressed(u, 29)
    BY DEF Get, E0
  <2>4. Pressed(u, 29) = [shift |-> b, c |-> IF "CAPSLOCK" \in b THEN Capital("0") ELSE "0"]
    BY <2>2 DEF Pressed
  <2> HIDE DEF b
  <2> QED BY <2>1, <2>3, <2>4 DEF Capital
<1>2. Get(u, 72) = [shift |-> s, c |-> "UP"]
  <2> DEFINE b == Toggled((u \ {"E0ESC"}) \cup shiftcode(200), togglecode(200))
  <2>1. b = s
    BY DEF Toggled, shiftcode, togglecode
  <2>2. charcode(b, 200) = "UP"
    BY DEF charcode
  <2>3. Get(u, 72) = Pressed(u, 72)
    BY DEF Get, E0
  <2>4. Pressed(u, 72) = [shift |-> b, c |-> IF "CAPSLOCK" \in b THEN Capital("UP") ELSE "UP"]
    BY <2>2 DEF Pressed
  <2> HIDE DEF b
  <2> QED BY <2>1, <2>3, <2>4 DEF Capital
<1>3. ASSUME NEW d \in {157, 200} PROVE Get(u, d) = [shift |-> s \ (IF d = 157 THEN {"CTL"} ELSE {}), c |-> "0"]
  <2>1. Get(u, d) = [shift |-> Released(u, d), c |-> "0"]
    BY DEF Get, E0
  <2>2. Released(u, d) = s \ (IF d = 157 THEN {"CTL"} ELSE {})
    BY DEF Released, shiftcode
  <2> QED BY <2>1, <2>2
<1> QED BY <1>1, <1>2, <1>3

\* The bits are three, each with a meaning.
LEMMA BitsAre ==
    /\ "SHIFT" \in KeyBits <=> lastDown["SHIFT"]
    /\ "CTL" \in KeyBits <=> lastDown["CTL"]
    /\ "CAPSLOCK" \in KeyBits <=> caps
    /\ KeyBits \subseteq {"SHIFT", "CTL", "CAPSLOCK"} /\ "E0ESC" \notin KeyBits
BY DEF KeyBits

\* Code x, behind 0xE0 or not, leads from the bits of the keys before to those
\* of the keys after, by way of the character that was meant.
KeyMeans(x, behind) ==
    LET g == Get(IF behind THEN KeyBits \cup {"E0ESC"} ELSE KeyBits, x)
    IN  /\ g.shift = KeyBits' /\ owed' = IF g.c = "0" THEN owed ELSE Append(owed, g.c)
        /\ g.c \in {"0", "a", "A", "^A", "UP"}

LEMMA SilentCode ==
    ASSUME NEW x, NEW behind \in BOOLEAN, owed' = owed,
           Get(IF behind THEN KeyBits \cup {"E0ESC"} ELSE KeyBits, x) = [shift |-> KeyBits', c |-> "0"]
    PROVE  KeyMeans(x, behind)
BY DEF KeyMeans

\* Sets of bits with the same members.
LEMMA SameBits ==
    ASSUME NEW S \in SUBSET {"SHIFT", "CTL", "CAPSLOCK"}, NEW T \in SUBSET {"SHIFT", "CTL", "CAPSLOCK"},
           "SHIFT" \in S <=> "SHIFT" \in T, "CTL" \in S <=> "CTL" \in T,
           "CAPSLOCK" \in S <=> "CAPSLOCK" \in T
    PROVE  S = T
<1>1. ASSUME NEW x PROVE x \in S <=> x \in T
  <2>1. CASE x \in {"SHIFT", "CTL", "CAPSLOCK"}
    BY <2>1
  <2>2. CASE x \notin {"SHIFT", "CTL", "CAPSLOCK"}
    BY <2>2
  <2> QED BY <2>1, <2>2
<1> QED BY <1>1, Zenon

LEMMA KeyDown ==
    ASSUME KbdInv, NEW k \in DOMAIN Key, keydown(k)
    PROVE  \E x \in Nat, b \in BOOLEAN : Key[k] = <<x, b>> /\ KeyMeans(x, b)
<1> DEFINE K == KeyBits
<1>1. /\ lastDown' = [m \in {"SHIFT", "CTL"} |->
                         IF k \in (IF m = "SHIFT" THEN {"lshift", "rshift"} ELSE {"lctl", "rctl"}) THEN TRUE ELSE lastDown[m]]
      /\ caps' = (caps # (k = "caps")) /\ owed' = owed \o Meant(k)
  BY DEF keydown, Send
<1>2. caps \in BOOLEAN /\ lastDown["SHIFT"] \in BOOLEAN /\ lastDown["CTL"] \in BOOLEAN
      /\ owed \in Seq({"a", "A", "^A", "UP"})
  BY DEF KbdInv
<1>3. /\ "SHIFT" \in KeyBits' <=> (k \in {"lshift", "rshift"} \/ "SHIFT" \in K)
      /\ "CTL" \in KeyBits' <=> (k \in {"lctl", "rctl"} \/ "CTL" \in K)
      /\ "CAPSLOCK" \in KeyBits' <=> (k = "caps" /\ "CAPSLOCK" \notin K) \/ (k # "caps" /\ "CAPSLOCK" \in K)
      /\ KeyBits' \subseteq {"SHIFT", "CTL", "CAPSLOCK"}
  <2>1. /\ lastDown'["SHIFT"] <=> (k \in {"lshift", "rshift"} \/ lastDown["SHIFT"])
        /\ lastDown'["CTL"] <=> (k \in {"lctl", "rctl"} \/ lastDown["CTL"])
        /\ caps' <=> (k = "caps" /\ ~caps) \/ (k # "caps" /\ caps)
    BY <1>1, <1>2
  <2>2. /\ "SHIFT" \in KeyBits' <=> lastDown'["SHIFT"]
        /\ "CTL" \in KeyBits' <=> lastDown'["CTL"]
        /\ "CAPSLOCK" \in KeyBits' <=> caps'
        /\ KeyBits' \subseteq {"SHIFT", "CTL", "CAPSLOCK"}
    BY DEF KeyBits
  <2> QED BY <2>1, <2>2, BitsAre
<1>4. "E0ESC" \notin K /\ K \subseteq {"SHIFT", "CTL", "CAPSLOCK"}
  BY BitsAre
<1>5. /\ Key["lshift"] = <<42, FALSE>> /\ Key["rshift"] = <<54, FALSE>> /\ Key["lctl"] = <<29, FALSE>>
      /\ Key["rctl"] = <<29, TRUE>> /\ Key["caps"] = <<58, FALSE>> /\ Key["a"] = <<30, FALSE>>
      /\ Key["up"] = <<72, TRUE>>
      /\ k \in {"lshift", "rshift", "lctl", "rctl", "caps", "a", "up"}
  BY DEF Key
<1>6. k \notin {"a", "up"} => owed' = owed
  <2>1. k \notin {"a", "up"} => Meant(k) = << >>
    BY DEF Meant
  <2> QED BY <1>1, <1>2, <2>1
<1> HIDE DEF K
<1>7. CASE k \in {"lshift", "rshift"}
  <2>1. K \cup {"SHIFT"} = KeyBits'
    BY <1>3, <1>4, <1>7
  <2>2. /\ Get(K, 42) = [shift |-> K \cup {"SHIFT"}, c |-> "0"]
        /\ Get(K, 54) = [shift |-> K \cup {"SHIFT"}, c |-> "0"]
    BY <1>4, Codes
  <2>3. KeyMeans(42, FALSE) /\ KeyMeans(54, FALSE)
    <3>1. owed' = owed /\ Get(K, 42) = [shift |-> KeyBits', c |-> "0"]
          /\ Get(K, 54) = [shift |-> KeyBits', c |-> "0"]
      BY <1>6, <1>7, <2>1, <2>2
    <3> QED BY <3>1, SilentCode DEF K
  <2>4. CASE k = "lshift"
    BY <1>5, <2>3, <2>4
  <2>5. CASE k = "rshift"
    BY <1>5, <2>3, <2>5
  <2> QED BY <1>7, <2>4, <2>5
<1>8. CASE k \in {"lctl", "rctl"}
  <2>1. K \cup {"CTL"} = KeyBits'
    BY <1>3, <1>4, <1>8
  <2>2. /\ Get(K, 29) = [shift |-> K \cup {"CTL"}, c |-> "0"]
        /\ Get(K \cup {"E0ESC"}, 29) = [shift |-> K \cup {"CTL"}, c |-> "0"]
    BY <1>4, Codes, CodesBehind
  <2>3. KeyMeans(29, FALSE) /\ KeyMeans(29, TRUE)
    <3>1. owed' = owed /\ Get(K, 29) = [shift |-> KeyBits', c |-> "0"]
          /\ Get(K \cup {"E0ESC"}, 29) = [shift |-> KeyBits', c |-> "0"]
      BY <1>6, <1>8, <2>1, <2>2
    <3> QED BY <3>1, SilentCode DEF K
  <2>4. CASE k = "lctl"
    BY <1>5, <2>3, <2>4
  <2>5. CASE k = "rctl"
    BY <1>5, <2>3, <2>5
  <2> QED BY <1>8, <2>4, <2>5
<1>10. CASE k = "caps"
  <2>1. (K \ {"CAPSLOCK"}) \cup ({"CAPSLOCK"} \ K) = KeyBits'
    BY <1>3, <1>4, <1>10
  <2>2. Get(K, 58) = [shift |-> (K \ {"CAPSLOCK"}) \cup ({"CAPSLOCK"} \ K), c |-> "0"]
    BY <1>4, Codes
  <2>3. KeyMeans(58, FALSE)
    <3>1. owed' = owed /\ Get(K, 58) = [shift |-> KeyBits', c |-> "0"]
      BY <1>6, <1>10, <2>1, <2>2
    <3> QED BY <3>1, SilentCode DEF K
  <2> QED BY <1>5, <1>10, <2>3
<1>11. CASE k = "a"
  <2>1. K = KeyBits'
    <3>1. /\ "SHIFT" \in K <=> "SHIFT" \in KeyBits'
          /\ "CTL" \in K <=> "CTL" \in KeyBits'
          /\ "CAPSLOCK" \in K <=> "CAPSLOCK" \in KeyBits'
      BY <1>3, <1>11
    <3> QED BY <1>3, <1>4, <3>1, SameBits
  <2> DEFINE c == IF "CTL" \in K THEN "^A"
                  ELSE IF ("SHIFT" \in K) # ("CAPSLOCK" \in K) THEN "A" ELSE "a"
  <2>2. Get(K, 30) = [shift |-> K, c |-> c]
    BY <1>4, Codes
  <2>3. Meant(k) = <<c>>
    <3>1. Meant(k) = <<IF lastDown["CTL"] THEN "^A" ELSE IF lastDown["SHIFT"] # caps THEN "A" ELSE "a">>
      BY <1>11 DEF Meant
    <3>2. /\ "SHIFT" \in K <=> lastDown["SHIFT"]
          /\ "CTL" \in K <=> lastDown["CTL"]
          /\ "CAPSLOCK" \in K <=> caps
      BY BitsAre DEF K
    <3>3. ("SHIFT" \in K) # ("CAPSLOCK" \in K) <=> lastDown["SHIFT"] # caps
      BY <1>2, <3>2
    <3>4. c = IF lastDown["CTL"] THEN "^A" ELSE IF lastDown["SHIFT"] # caps THEN "A" ELSE "a"
      BY <3>2, <3>3
    <3> HIDE DEF c
    <3> QED BY <3>1, <3>4
  <2>4. c \in {"a", "A", "^A"}
    OBVIOUS
  <2> HIDE DEF c
  <2>5. owed' = Append(owed, c)
    BY <1>1, <1>2, <2>3, <2>4
  <2>6. KeyMeans(30, FALSE)
    BY <2>1, <2>2, <2>4, <2>5 DEF KeyMeans, K
  <2> QED BY <1>5, <1>11, <2>6
<1>12. CASE k = "up"
  <2>1. K = KeyBits'
    <3>1. /\ "SHIFT" \in K <=> "SHIFT" \in KeyBits'
          /\ "CTL" \in K <=> "CTL" \in KeyBits'
          /\ "CAPSLOCK" \in K <=> "CAPSLOCK" \in KeyBits'
      BY <1>3, <1>12
    <3> QED BY <1>3, <1>4, <3>1, SameBits
  <2>2. Get(K \cup {"E0ESC"}, 72) = [shift |-> K, c |-> "UP"]
    BY <1>4, CodesBehind
  <2>3. owed' = Append(owed, "UP")
    BY <1>1, <1>2, <1>12 DEF Meant
  <2>4. KeyMeans(72, TRUE)
    BY <2>1, <2>2, <2>3 DEF KeyMeans, K
  <2> QED BY <1>5, <1>12, <2>4
<1> QED BY <1>5, <1>7, <1>8, <1>10, <1>11, <1>12

LEMMA KeyUp ==
    ASSUME KbdInv, NEW k \in DOMAIN Key, keyup(k)
    PROVE  \E x \in Nat, z \in Nat, b \in BOOLEAN :
              Key[k] = <<x, b>> /\ z = x + 128 /\ KeyMeans(z, b)
<1> DEFINE K == KeyBits
<1>1. /\ lastDown' = [m \in {"SHIFT", "CTL"} |->
                         IF k \in (IF m = "SHIFT" THEN {"lshift", "rshift"} ELSE {"lctl", "rctl"}) THEN FALSE ELSE lastDown[m]]
      /\ caps' = caps /\ owed' = owed
  BY DEF keyup, Send
<1>3. /\ "SHIFT" \in KeyBits' <=> (k \notin {"lshift", "rshift"} /\ "SHIFT" \in K)
      /\ "CTL" \in KeyBits' <=> (k \notin {"lctl", "rctl"} /\ "CTL" \in K)
      /\ "CAPSLOCK" \in KeyBits' <=> "CAPSLOCK" \in K
      /\ KeyBits' \subseteq {"SHIFT", "CTL", "CAPSLOCK"}
  <2>1. /\ lastDown'["SHIFT"] <=> (k \notin {"lshift", "rshift"} /\ lastDown["SHIFT"])
        /\ lastDown'["CTL"] <=> (k \notin {"lctl", "rctl"} /\ lastDown["CTL"])
    BY <1>1 DEF KbdInv
  <2>2. /\ "SHIFT" \in KeyBits' <=> lastDown'["SHIFT"]
        /\ "CTL" \in KeyBits' <=> lastDown'["CTL"]
        /\ "CAPSLOCK" \in KeyBits' <=> caps'
        /\ KeyBits' \subseteq {"SHIFT", "CTL", "CAPSLOCK"}
    BY DEF KeyBits
  <2> QED BY <1>1, <2>1, <2>2, BitsAre
<1>4. "E0ESC" \notin K /\ K \subseteq {"SHIFT", "CTL", "CAPSLOCK"}
  BY BitsAre
<1>5. /\ Key["lshift"] = <<42, FALSE>> /\ Key["rshift"] = <<54, FALSE>> /\ Key["lctl"] = <<29, FALSE>>
      /\ Key["rctl"] = <<29, TRUE>> /\ Key["caps"] = <<58, FALSE>> /\ Key["a"] = <<30, FALSE>>
      /\ Key["up"] = <<72, TRUE>>
      /\ k \in {"lshift", "rshift", "lctl", "rctl", "caps", "a", "up"}
  BY DEF Key
<1> HIDE DEF K
<1>7. CASE k \in {"lshift", "rshift"}
  <2>1. K \ {"SHIFT"} = KeyBits'
    BY <1>3, <1>4, <1>7
  <2>2. /\ Get(K, 170) = [shift |-> K \ {"SHIFT"}, c |-> "0"]
        /\ Get(K, 182) = [shift |-> K \ {"SHIFT"}, c |-> "0"]
    BY <1>4, Codes
  <2>3. KeyMeans(170, FALSE) /\ KeyMeans(182, FALSE)
    <3>1. owed' = owed /\ Get(K, 170) = [shift |-> KeyBits', c |-> "0"]
          /\ Get(K, 182) = [shift |-> KeyBits', c |-> "0"] 
      BY <1>1, <2>1, <2>2
    <3> QED BY <3>1, SilentCode DEF K
  <2>4. CASE k = "lshift"
    <3>1. Key[k] = <<42, FALSE>> /\ KeyMeans(170, FALSE)
      BY <1>5, <2>3, <2>4
    <3>2. 170 = 42 + 128
      OBVIOUS
    <3> WITNESS 42 \in Nat, 170 \in Nat, FALSE \in BOOLEAN
    <3> QED BY <3>1, <3>2
  <2>5. CASE k = "rshift"
    <3>1. Key[k] = <<54, FALSE>> /\ KeyMeans(182, FALSE)
      BY <1>5, <2>3, <2>5
    <3>2. 182 = 54 + 128
      OBVIOUS
    <3> WITNESS 54 \in Nat, 182 \in Nat, FALSE \in BOOLEAN
    <3> QED BY <3>1, <3>2
  <2> QED BY <1>7, <2>4, <2>5
<1>8. CASE k \in {"lctl", "rctl"}
  <2>1. K \ {"CTL"} = KeyBits'
    BY <1>3, <1>4, <1>8
  <2>2. /\ Get(K, 157) = [shift |-> K \ {"CTL"}, c |-> "0"]
        /\ Get(K \cup {"E0ESC"}, 157) = [shift |-> K \ {"CTL"}, c |-> "0"]
    BY <1>4, Codes, CodesBehind
  <2>3. KeyMeans(157, FALSE) /\ KeyMeans(157, TRUE)
    <3>1. owed' = owed /\ Get(K, 157) = [shift |-> KeyBits', c |-> "0"]
          /\ Get(K \cup {"E0ESC"}, 157) = [shift |-> KeyBits', c |-> "0"]
      BY <1>1, <2>1, <2>2
    <3> QED BY <3>1, SilentCode DEF K
  <2>4. CASE k = "lctl"
    <3>1. Key[k] = <<29, FALSE>> /\ KeyMeans(157, FALSE)
      BY <1>5, <2>3, <2>4
    <3>2. 157 = 29 + 128
      OBVIOUS
    <3> WITNESS 29 \in Nat, 157 \in Nat, FALSE \in BOOLEAN
    <3> QED BY <3>1, <3>2
  <2>5. CASE k = "rctl"
    <3>1. Key[k] = <<29, TRUE>> /\ KeyMeans(157, TRUE)
      BY <1>5, <2>3, <2>5
    <3>2. 157 = 29 + 128
      OBVIOUS
    <3> WITNESS 29 \in Nat, 157 \in Nat, TRUE \in BOOLEAN
    <3> QED BY <3>1, <3>2
  <2> QED BY <1>8, <2>4, <2>5
<1>9. CASE k \in {"caps", "a", "up"}
  <2>1. K = KeyBits'
    <3>1. /\ "SHIFT" \in K <=> "SHIFT" \in KeyBits'
          /\ "CTL" \in K <=> "CTL" \in KeyBits'
          /\ "CAPSLOCK" \in K <=> "CAPSLOCK" \in KeyBits'
      BY <1>3, <1>9
    <3> QED BY <1>3, <1>4, <3>1, SameBits
  <2>2. /\ Get(K, 186) = [shift |-> K, c |-> "0"]
        /\ Get(K, 158) = [shift |-> K, c |-> "0"]
        /\ Get(K \cup {"E0ESC"}, 200) = [shift |-> K, c |-> "0"]
    BY <1>4, Codes, CodesBehind
  <2>3. KeyMeans(186, FALSE) /\ KeyMeans(158, FALSE) /\ KeyMeans(200, TRUE)
    BY <1>1, <2>1, <2>2 DEF KeyMeans, K
  <2>4. CASE k = "caps"
    <3>1. Key[k] = <<58, FALSE>> /\ KeyMeans(186, FALSE)
      BY <1>5, <2>3, <2>4
    <3>2. 186 = 58 + 128
      OBVIOUS
    <3> WITNESS 58 \in Nat, 186 \in Nat, FALSE \in BOOLEAN
    <3> QED BY <3>1, <3>2
  <2>5. CASE k = "a"
    <3>1. Key[k] = <<30, FALSE>> /\ KeyMeans(158, FALSE)
      BY <1>5, <2>3, <2>5
    <3>2. 158 = 30 + 128
      OBVIOUS
    <3> WITNESS 30 \in Nat, 158 \in Nat, FALSE \in BOOLEAN
    <3> QED BY <3>1, <3>2
  <2>6. CASE k = "up"
    <3>1. Key[k] = <<72, TRUE>> /\ KeyMeans(200, TRUE)
      BY <1>5, <2>3, <2>6
    <3>2. 200 = 72 + 128
      OBVIOUS
    <3> WITNESS 72 \in Nat, 200 \in Nat, TRUE \in BOOLEAN
    <3> QED BY <3>1, <3>2
  <2> QED BY <1>9, <2>4, <2>5, <2>6
<1> QED BY <1>5, <1>7, <1>8, <1>9

\* A key struck or let go.
LEMMA KeySent ==
    ASSUME KbdInv, NEW k \in DOMAIN Key, NEW up \in BOOLEAN, Send(k, up), caps' \in BOOLEAN,
           NEW y \in Nat, NEW x \in Nat, NEW b \in BOOLEAN, Key[k] = <<y, b>>,
           x = y + (IF up THEN 128 ELSE 0), KeyMeans(x, b)
    PROVE  KbdInv'
<1> DEFINE C == {"a", "A", "^A", "UP"}
           K == KeyBits
           before == IF b THEN K \cup {"E0ESC"} ELSE K
           q == IF b THEN Append(codes, E0) ELSE codes
           g == Get(before, x)
<1>1. codes \in Seq(Nat) /\ owed \in Seq(C) /\ Reads(codes, shift, owed, K)
  BY DEF KbdInv
<1>3. q \in Seq(Nat) /\ Reads(q, shift, owed, before) /\ E0 \in Nat
  <2>1. E0 \in Nat
    BY DEF E0
  <2>2. Get(K, E0).c = "0" /\ Get(K, E0).shift = K \cup {"E0ESC"}
    BY DEF Get
  <2> HIDE DEF K, C
  <2>a. Get(K, E0).c = "0" => Reads(Append(codes, E0), shift, owed, Get(K, E0).shift)
    BY <1>1, <2>1, CodeAdded
  <2>3. Reads(Append(codes, E0), shift, owed, K \cup {"E0ESC"})
    BY <2>2, <2>a
  <2>4. Append(codes, E0) \in Seq(Nat)
    BY <1>1, <2>1
  <2> QED BY <1>1, <2>1, <2>3, <2>4
<1>4. codes' = Append(q, x)
  <2>1. codes' = codes \o (IF b THEN <<E0>> ELSE << >>) \o <<x>>
    BY DEF Send
  <2>3. CASE b
    <3>1. codes' = (codes \o <<E0>>) \o <<x>>
      BY <2>1, <2>3
    <3>2. E0 \in Nat
      BY <1>3
    <3> HIDE DEF E0
    <3>3. codes \o <<E0>> = Append(codes, E0) /\ Append(codes, E0) \in Seq(Nat)
      BY <1>1, <3>2
    <3>4. Append(codes, E0) \o <<x>> = Append(Append(codes, E0), x)
      BY <3>3
    <3> QED BY <2>3, <3>1, <3>3, <3>4
  <2>4. CASE ~b
    BY <1>1, <2>1, <2>4
  <2> QED BY <2>3, <2>4
<1>5. /\ g.shift = KeyBits' /\ owed' = IF g.c = "0" THEN owed ELSE Append(owed, g.c)
      /\ g.c \in {"0"} \cup C
  BY DEF KeyMeans
<1>6. shift' = shift /\ wrong' = wrong /\ lastDown' \in [{"SHIFT", "CTL"} -> BOOLEAN]
  <2>1. lastDown \in [{"SHIFT", "CTL"} -> BOOLEAN]
    BY DEF KbdInv
  <2>2. lastDown' = [m \in {"SHIFT", "CTL"} |->
                       IF k \in (IF m = "SHIFT" THEN {"lshift", "rshift"} ELSE {"lctl", "rctl"})
                       THEN ~up ELSE lastDown[m]]
    BY DEF Send
  <2>3. shift' = shift /\ wrong' = wrong
    BY DEF Send
  <2> QED BY <2>1, <2>2, <2>3
<1>a. g = Get(before, x)
  OBVIOUS
<1> HIDE DEF K, before, q, C, g
<1>7. Reads(Append(q, x), shift, owed', g.shift)
  BY <1>1, <1>3, <1>5, <1>a, CodeAdded
<1>8. codes' \in Seq(Nat) /\ owed' \in Seq(C)
  <2>1. Append(q, x) \in Seq(Nat)
    BY <1>1, <1>3
  <2>2. g.c # "0" => Append(owed, g.c) \in Seq(C)
    BY <1>1, <1>5
  <2> QED BY <1>1, <1>4, <1>5, <2>1, <2>2
<1>9. Reads(codes, shift, owed, KeyBits)'
  BY <1>4, <1>5, <1>6, <1>7
<1> QED BY <1>6, <1>8, <1>9 DEF KbdInv, C

LEMMA Interrupted == ASSUME KbdInv, kbdintr PROVE KbdInv'
<1> DEFINE C == {"a", "A", "^A", "UP"}
           g == Get(shift, Head(codes))
<1>1. codes \in Seq(Nat) /\ owed \in Seq(C) /\ Reads(codes, shift, owed, KeyBits) /\ wrong = FALSE
  BY DEF KbdInv
<1>2. kbdgetc = g
  BY DEF kbdgetc, Get
<1>3. /\ codes # << >> /\ codes' = Tail(codes) /\ shift' = g.shift
      /\ IF g.c = "0" THEN UNCHANGED <<owed, wrong>>
         ELSE /\ wrong' = (wrong \/ owed = << >> \/ g.c # Head(owed))
              /\ owed' = IF owed = << >> THEN owed ELSE Tail(owed)
      /\ UNCHANGED <<lastDown, caps>>
  BY <1>2 DEF kbdintr
<1> HIDE DEF C
<1>4. /\ g.c = "0" => Reads(Tail(codes), g.shift, owed, KeyBits)
      /\ g.c # "0" => /\ owed # << >> /\ Head(owed) = g.c
                      /\ Reads(Tail(codes), g.shift, Tail(owed), KeyBits)
  BY <1>1, <1>3, CodeRead
<1> HIDE DEF g
<1>5. wrong' = FALSE /\ Reads(codes', shift', owed', KeyBits)
  BY <1>1, <1>3, <1>4
<1>6. codes' \in Seq(Nat) /\ owed' \in Seq(C)
  <2>1. Tail(codes) \in Seq(Nat) /\ (owed # << >> => Tail(owed) \in Seq(C))
    BY <1>1, <1>3
  <2> QED BY <1>1, <1>3, <2>1
<1>7. KeyBits' = KeyBits
  BY <1>3 DEF KeyBits
<1> QED BY <1>3, <1>5, <1>6, <1>7 DEF KbdInv, C

LEMMA KbdStays == KbdInv /\ [KbdNext]_kbdVars => KbdInv'
<1> SUFFICES ASSUME KbdInv, [KbdNext]_kbdVars PROVE KbdInv'
  OBVIOUS
<1>1. ASSUME NEW k \in DOMAIN Key, keydown(k) PROVE KbdInv'
  <2>1. Send(k, FALSE) /\ caps' \in BOOLEAN
    BY <1>1 DEF keydown
  <2>2. PICK x \in Nat, b \in BOOLEAN : Key[k] = <<x, b>> /\ KeyMeans(x, b)
    BY <1>1, KeyDown
  <2>3. x = x + (IF FALSE THEN 128 ELSE 0) /\ FALSE \in BOOLEAN
    OBVIOUS
  <2> QED BY <2>1, <2>2, <2>3, KeySent
<1>2. ASSUME NEW k \in DOMAIN Key, keyup(k) PROVE KbdInv'
  <2>1. Send(k, TRUE) /\ caps' \in BOOLEAN
    BY <1>2 DEF keyup, KbdInv
  <2>2. PICK x \in Nat, z \in Nat, b \in BOOLEAN :
              Key[k] = <<x, b>> /\ z = x + 128 /\ KeyMeans(z, b)
    BY <1>2, KeyUp
  <2>3. z = x + (IF TRUE THEN 128 ELSE 0) /\ TRUE \in BOOLEAN
    BY <2>2
  <2> QED BY <2>1, <2>2, <2>3, KeySent
<1>3. CASE kbdintr
  BY <1>3, Interrupted
<1>4. CASE UNCHANGED kbdVars
  BY <1>4 DEF kbdVars, KbdInv, KeyBits
<1> QED BY <1>1, <1>2, <1>3, <1>4 DEF KbdNext

LEMMA KbdStarts == KbdInit => KbdInv
<1> SUFFICES ASSUME KbdInit PROVE KbdInv
  OBVIOUS
<1>1. KeyBits = {}
  BY DEF KeyBits, KbdInit
<1>2. Reads(<< >>, {}, << >>, {})
  <2>1. << >> \in Seq(Nat)
    OBVIOUS
  <2> QED BY <2>1, NothingRead
<1>3. codes = << >> /\ owed = << >> /\ shift = {} /\ wrong = FALSE /\ caps = FALSE
  BY DEF KbdInit
<1>4. lastDown \in [{"SHIFT", "CTL"} -> BOOLEAN]
  BY DEF KbdInit
<1>6. codes \in Seq(Nat) /\ owed \in Seq({"a", "A", "^A", "UP"})
  BY <1>3
<1>5. Reads(codes, shift, owed, KeyBits)
  BY <1>1, <1>2, <1>3
<1> QED BY <1>3, <1>4, <1>5, <1>6 DEF KbdInv

LEMMA InStep == KbdInv => KeyboardInv
<1> SUFFICES ASSUME KbdInv PROVE KeyboardInv
  OBVIOUS
<1>1. codes = << >> => shift = KeyBits /\ owed = << >>
  BY NothingRead DEF KbdInv
<1>2. BitsFollowKeys
  BY <1>1, BitsAre DEF BitsFollowKeys, KbdInv
<1> QED BY <1>1, <1>2 DEF KeyboardInv, KeysMean, KbdInv

\* kbdgetc() keeps in step with the keyboard, however many scan codes wait: with
\* none left its bits are those of the keys, and each character is the one its
\* key meant when it was struck.
THEOREM KeysArrive == KbdSpec => []KeyboardInv
<1> QED BY KbdStarts, KbdStays, InStep, PTL DEF KbdSpec

-----------------------------------------------------------------------------
(* mkfs: the blocks of a file and the places in them *)

Row(n) == n \div BSIZE
Col(n) == n % BSIZE
\* Place j of block k, counted from the start of the file.
Position(k, j) == k * BSIZE + j - 1
\* Place j of block k is within a file of n units.
Within(n, k, j) == k < Row(n) \/ (k = Row(n) /\ j <= Col(n))
Column == 1 .. BSIZE

LEMMA MkfsConstants ==
    /\ BSIZE \in Nat /\ BSIZE >= 1 /\ NDIRECT \in Nat /\ NINDIRECT \in Nat /\ MAXFILE = NDIRECT + NINDIRECT
    /\ nmeta \in Nat /\ nmeta >= 2 /\ FSSIZE \in Nat /\ nmeta <= FSSIZE /\ ROOTINO = 1
    /\ NINODES \in Nat /\ NINODES < MAXFILE * BSIZE
    /\ \A c \in CommandLines : c \in Seq(Nat) /\ Len(c) + ROOTINO < NINODES
<1>1. nlog \in Nat
  BY MkfsAssumption DEF nlog
<1>2. ninodeblocks \in Nat
  <2>1. NINODES \in Nat /\ IPB \in Nat \ {0}
    BY MkfsAssumption
  <2>2. NINODES \div IPB \in Nat
    BY <2>1, DivMod
  <2> QED BY <2>2 DEF ninodeblocks
<1>3. nbitmap \in Nat
  <2>1. FSSIZE \in Nat /\ BPB \in Nat \ {0}
    BY MkfsAssumption
  <2>2. FSSIZE \div BPB \in Nat
    BY <2>1, DivMod
  <2> QED BY <2>2 DEF nbitmap
<1>4. nmeta \in Nat /\ nmeta >= 2
  BY <1>1, <1>2, <1>3 DEF nmeta
<1>5. BSIZE \in Nat /\ BSIZE >= 1 /\ NDIRECT \in Nat /\ NINDIRECT \in Nat /\ FSSIZE \in Nat /\ nmeta <= FSSIZE
  BY MkfsAssumption
<1>6. MAXFILE = NDIRECT + NINDIRECT /\ ROOTINO = 1
  BY DEF MAXFILE, ROOTINO
<1>7. /\ NINODES \in Nat /\ NINODES < MAXFILE * BSIZE
      /\ \A c \in CommandLines : c \in Seq(Nat) /\ Len(c) + ROOTINO < NINODES
  BY MkfsAssumption
<1> QED BY <1>4, <1>5, <1>6, <1>7

LEMMA RowCol ==
    ASSUME NEW n \in Nat
    PROVE  Row(n) \in Nat /\ Col(n) \in 0 .. BSIZE - 1 /\ n = Row(n) * BSIZE + Col(n)
<1>1. BSIZE \in Nat \ {0}
  BY MkfsConstants
<1>2. Row(n) \in Nat /\ Col(n) \in 0 .. BSIZE - 1 /\ n = BSIZE * Row(n) + Col(n)
  BY <1>1, DivMod DEF Row, Col
<1>3. BSIZE * Row(n) = Row(n) * BSIZE
  BY <1>1, <1>2
<1> QED BY <1>2, <1>3

LEMMA PlaceIn ==
    ASSUME NEW n \in Nat
    PROVE  Row(n) \in Nat /\ Col(n) \in Nat /\ Col(n) < BSIZE /\ Col(n) + 1 \in Column
<1>1. BSIZE \in Nat
  BY MkfsConstants
<1>2. Row(n) \in Nat /\ Col(n) \in 0 .. BSIZE - 1
  BY RowCol
<1> QED BY <1>1, <1>2 DEF Column

LEMMA NextRow ==
    ASSUME NEW k \in Nat, NEW m \in Nat, k < m
    PROVE  k * BSIZE + BSIZE <= m * BSIZE
<1>1. BSIZE \in Nat
  BY MkfsConstants
<1>2. PICK d \in Nat : m = k + 1 + d
  <2>1. m - k - 1 \in Nat /\ m = k + 1 + (m - k - 1)
    OBVIOUS
  <2> QED BY <2>1
<1>3. m * BSIZE = k * BSIZE + BSIZE + d * BSIZE /\ d * BSIZE \in Nat /\ k * BSIZE \in Nat
  BY <1>1, <1>2
<1> QED BY <1>1, <1>3

\* There is one row and one column.
LEMMA RowColUnique ==
    ASSUME NEW n \in Nat, NEW k \in Nat, NEW c \in 0 .. BSIZE - 1, n = k * BSIZE + c
    PROVE  Row(n) = k /\ Col(n) = c
<1>1. BSIZE \in Nat /\ Row(n) \in Nat /\ Col(n) \in 0 .. BSIZE - 1 /\ n = Row(n) * BSIZE + Col(n)
  BY MkfsConstants, RowCol
<1>2. k * BSIZE \in Nat /\ Row(n) * BSIZE \in Nat
  BY <1>1
<1>3. ~(k < Row(n))
  BY <1>1, <1>2, NextRow
<1>4. ~(Row(n) < k)
  BY <1>1, <1>2, NextRow
<1>5. Row(n) = k
  BY <1>1, <1>3, <1>4
<1>6. PICK P \in Nat : n = P + Col(n) /\ n = P + c
  BY <1>1, <1>2, <1>5
<1>7. Col(n) \in Nat /\ c \in Nat
  BY <1>1
<1> QED BY <1>5, <1>6, <1>7

\* What comes before n is within a file of n units, what comes after is not.
LEMMA BeforeEnd ==
    ASSUME NEW n \in Nat, NEW m \in Nat
    PROVE  /\ m < n <=> Within(n, Row(m), Col(m) + 1)
           /\ Position(Row(m), Col(m) + 1) = m
<1>1. /\ BSIZE \in Nat /\ Row(n) \in Nat /\ Col(n) \in 0 .. BSIZE - 1 /\ n = Row(n) * BSIZE + Col(n)
      /\ Row(m) \in Nat /\ Col(m) \in 0 .. BSIZE - 1 /\ m = Row(m) * BSIZE + Col(m)
  BY MkfsConstants, RowCol
<1>2. Row(m) * BSIZE \in Nat /\ Row(n) * BSIZE \in Nat
  BY <1>1
<1>3. Position(Row(m), Col(m) + 1) = m
  BY <1>1, <1>2 DEF Position
<1>4. CASE Row(m) < Row(n)
  BY <1>1, <1>2, <1>3, <1>4, NextRow DEF Within
<1>5. CASE Row(n) < Row(m)
  BY <1>1, <1>2, <1>3, <1>5, NextRow DEF Within
<1>6. CASE Row(m) = Row(n)
  BY <1>1, <1>2, <1>3, <1>6 DEF Within
<1> QED BY <1>1, <1>4, <1>5, <1>6

\* c more units, as many as go into the block at most.
LEMMA FileGrows ==
    ASSUME NEW n \in Nat, NEW c \in Nat, c >= 1, c <= BSIZE - Col(n)
    PROVE  /\ Col(n) + c = BSIZE => Row(n + c) = Row(n) + 1 /\ Col(n + c) = 0
           /\ Col(n) + c # BSIZE => Row(n + c) = Row(n) /\ Col(n + c) = Col(n) + c
<1>1. BSIZE \in Nat /\ BSIZE >= 1 /\ Row(n) \in Nat /\ Col(n) \in 0 .. BSIZE - 1 /\ n = Row(n) * BSIZE + Col(n)
  BY MkfsConstants, RowCol
<1>2. Row(n) * BSIZE \in Nat /\ (Row(n) + 1) * BSIZE = Row(n) * BSIZE + BSIZE
  BY <1>1
<1>3. ASSUME Col(n) + c = BSIZE PROVE Row(n + c) = Row(n) + 1 /\ Col(n + c) = 0
  <2>1. n + c = (Row(n) + 1) * BSIZE
    BY <1>1, <1>2, <1>3
  <2>2. Row(n) + 1 \in Nat /\ 0 \in 0 .. BSIZE - 1 /\ n + c \in Nat
    BY <1>1
  <2>3. n + c = (Row(n) + 1) * BSIZE + 0
    BY <2>1, <2>2
  <2> QED BY <2>2, <2>3, RowColUnique
<1>4. ASSUME Col(n) + c # BSIZE PROVE Row(n + c) = Row(n) /\ Col(n + c) = Col(n) + c
  <2>1. n + c \in Nat /\ n + c = Row(n) * BSIZE + (Col(n) + c) /\ Col(n) + c \in 0 .. BSIZE - 1
    BY <1>1, <1>2, <1>4
  <2> QED BY <1>1, <2>1, RowColUnique
<1> QED BY <1>3, <1>4

\* The places in the last block that come behind the end.
LEMMA LastBlock ==
    ASSUME NEW n \in Nat, NEW j \in Nat
    PROVE  Position(Row(n), j) = n + (j - Col(n)) - 1
<1>1. BSIZE \in Nat /\ Row(n) \in Nat /\ Col(n) \in 0 .. BSIZE - 1 /\ n = Row(n) * BSIZE + Col(n)
  BY MkfsConstants, RowCol
<1>2. Row(n) * BSIZE \in Nat
  BY <1>1
<1> QED BY <1>1, <1>2 DEF Position
-----------------------------------------------------------------------------
(* mkfs: the invariant *)

Inodes == 1 .. NINODES - 1
Slots == 0 .. MAXFILE
DataSlots == 0 .. MAXFILE - 1
InodeType == [type : {"DIR", "FILE", "NONE"}, nlink : Nat, size : Nat, addrs : [0 .. NDIRECT -> Nat]]
Appends == [inum |-> append.inum, units |-> append.units, p |-> append.p, n |-> append.n]
MkfsTypes ==
    /\ dinode \in [Inodes -> InodeType]
    /\ DOMAIN sect = nmeta .. FSSIZE - 1
    /\ freeinode \in 1 .. NINODES /\ freeblock \in nmeta .. FSSIZE /\ argn \in Nat \ {0}
    /\ append = Appends /\ append.inum \in Inodes /\ append.n \in Nat /\ append.p \in Nat

\* Every block taken is in one slot of one inode that is in use.
Placed == \A i \in Inodes, k \in Slots : Addr(i, k) = 0 \/ Addr(i, k) \in nmeta .. freeblock - 1
PlacedOnce == \A i, j \in Inodes, k, m \in Slots : Addr(i, k) = Addr(j, m) /\ Addr(i, k) # 0 => i = j /\ k = m
NoneLost == \A b \in nmeta .. freeblock - 1 : \E i \in Inodes, k \in Slots : i < freeinode /\ Addr(i, k) = b
\* Indirect blocks hold addresses, what is not taken is zero.
Indirects == \A i \in Inodes : Addr(i, MAXFILE) # 0 => sect[Addr(i, MAXFILE)] \in [0 .. NINDIRECT - 1 -> Nat]
Unused == /\ \A b \in freeblock .. FSSIZE - 1 : sect[b] = Zeroes
          /\ \A i \in Inodes : i >= freeinode => dinode[i].size = 0 /\ \A k \in Slots : Addr(i, k) = 0

\* What the files hold, when they are complete.
Expect(i, n) == IF i # ROOTINO THEN <<i, n + 1>>
                ELSE IF n = 0 THEN <<".", ROOTINO>> ELSE IF n = 1 THEN <<"..", ROOTINO>> ELSE <<n - 1, n>>
Written == \A i \in Inodes, k \in DataSlots : Addr(i, k) # 0 =>
              \A j \in Column : sect[Addr(i, k)][j] = IF Within(dinode[i].size, k, j) THEN Expect(i, Position(k, j)) ELSE <<>>
Covered == \A i \in Inodes, k \in Nat : Within(dinode[i].size, k, 1) => k < MAXFILE /\ Addr(i, k) # 0
Pending == append.n > 0 =>
    /\ append.inum < freeinode
    /\ \A m \in 1 .. append.n : append.units[append.p + m] = Expect(append.inum, dinode[append.inum].size + m - 1)

\* How far main() is: how long the files are when iappend() has returned.
Length(i) == dinode[i].size + (IF append.inum = i THEN append.n ELSE 0)
MainAt ==
    /\ given \in CommandLines
    /\ mkpc = "root" => argn = 1 /\ freeinode = 1 /\ append.n = 0
    /\ mkpc = "dots" => argn = 1 /\ freeinode = 2 /\ Length(ROOTINO) = 1
    /\ mkpc = "file" => /\ argn <= Len(given) + 1 /\ freeinode = argn + 1 /\ Length(ROOTINO) = freeinode
                        /\ \A i \in 2 .. freeinode - 1 : Length(i) = given[i - 1]
    /\ mkpc = "data" => /\ argn <= Len(given) /\ freeinode = argn + 2 /\ Length(ROOTINO) = freeinode
                        /\ \A i \in 2 .. freeinode - 2 : Length(i) = given[i - 1]
                        /\ Length(freeinode - 1) <= given[argn]
Working == mkpc \in {"root", "dots", "file", "data"}
TreeOk == Placed /\ PlacedOnce /\ NoneLost /\ Indirects /\ Unused
TextOk == Written /\ Covered /\ Pending
MkInv == /\ mkpc \in {"root", "dots", "file", "data", "done", "aborted"}
         /\ Working => MkfsTypes /\ TreeOk /\ TextOk /\ MainAt
         /\ mkpc = "done" => append.n = 0
         /\ ImageInv

-----------------------------------------------------------------------------
(* mkfs: taking a block *)

\* The next block goes into slot k0 of the inode that iappend() works on.
Takes(k0) ==
    /\ append.inum \in Inodes /\ append.inum < freeinode /\ Addr(append.inum, k0) = 0
    /\ \A i \in Inodes, k \in Slots : Addr(i, k)' = IF i = append.inum /\ k = k0 THEN freeblock ELSE Addr(i, k)
    /\ freeblock < FSSIZE /\ freeblock' = freeblock + 1 /\ freeinode' = freeinode

LEMMA TakenOnce ==
    ASSUME MkfsTypes, TreeOk, NEW k0 \in Slots, Takes(k0)
    PROVE  Placed' /\ PlacedOnce' /\ NoneLost'
<1> DEFINE x == append.inum
<1>1. /\ x \in Inodes /\ x < freeinode /\ Addr(x, k0) = 0
      /\ freeblock < FSSIZE /\ freeblock' = freeblock + 1 /\ freeinode' = freeinode
      /\ \A i \in Inodes, k \in Slots : Addr(i, k)' = IF i = x /\ k = k0 THEN freeblock ELSE Addr(i, k)
  BY DEF Takes
<1>2. freeblock \in Nat /\ nmeta \in Nat /\ nmeta >= 2 /\ nmeta <= freeblock
  BY MkfsConstants DEF MkfsTypes
<1>3. Placed /\ PlacedOnce /\ NoneLost
  BY DEF TreeOk
<1> HIDE DEF x
<1>4. Placed'
  <2> SUFFICES ASSUME NEW i \in Inodes, NEW k \in Slots
               PROVE  Addr(i, k)' = 0 \/ Addr(i, k)' \in nmeta .. freeblock' - 1
    BY DEF Placed
  <2>1. Addr(i, k) = 0 \/ Addr(i, k) \in nmeta .. freeblock - 1
    BY <1>3 DEF Placed
  <2>2. Addr(i, k)' = freeblock \/ Addr(i, k)' = Addr(i, k)
    BY <1>1
  <2> QED BY <1>1, <1>2, <2>1, <2>2
<1>5. PlacedOnce'
  <2> SUFFICES ASSUME NEW i \in Inodes, NEW j \in Inodes, NEW k \in Slots, NEW m \in Slots,
                      Addr(i, k)' = Addr(j, m)', Addr(i, k)' # 0
               PROVE  i = j /\ k = m
    BY DEF PlacedOnce
  <2>1. \A a \in Inodes, b \in Slots : Addr(a, b) # freeblock
    <3> SUFFICES ASSUME NEW a \in Inodes, NEW b \in Slots PROVE Addr(a, b) # freeblock
      OBVIOUS
    <3>1. Addr(a, b) = 0 \/ Addr(a, b) \in nmeta .. freeblock - 1
      BY <1>3 DEF Placed
    <3> QED BY <1>2, <3>1
  <2>2. Addr(i, k) = Addr(j, m) /\ Addr(i, k) # 0 => i = j /\ k = m
    BY <1>3 DEF PlacedOnce
  <2> QED BY <1>1, <2>1, <2>2
<1>6. NoneLost'
  <2> SUFFICES ASSUME NEW b \in nmeta .. freeblock' - 1
               PROVE  \E i \in Inodes, k \in Slots : i < freeinode' /\ Addr(i, k)' = b
    BY DEF NoneLost
  <2>1. CASE b = freeblock
    BY <1>1, <2>1
  <2>2. CASE b # freeblock
    <3>1. b \in nmeta .. freeblock - 1
      BY <1>1, <1>2, <2>2
    <3>2. PICK i \in Inodes, k \in Slots : i < freeinode /\ Addr(i, k) = b
      BY <1>3, <3>1 DEF NoneLost
    <3>3. b # 0
      BY <1>2, <3>1
    <3> QED BY <1>1, <3>2, <3>3
  <2> QED BY <2>1, <2>2
<1> QED BY <1>4, <1>5, <1>6

\* A new block for data is the next one of the file and still zero, and no other
\* block with data changes.
Keeps(k0) ==
    /\ \A i \in Inodes : dinode'[i].size = dinode[i].size
    /\ append' = append
    /\ \A i \in Inodes, k \in DataSlots : Addr(i, k) # 0 => sect'[Addr(i, k)] = sect[Addr(i, k)]
    /\ k0 \in DataSlots => k0 = Row(dinode[append.inum].size) /\ sect'[freeblock] = Zeroes

LEMMA TakenEmpty ==
    ASSUME MkfsTypes, TreeOk, TextOk, NEW k0 \in Slots, Takes(k0), Keeps(k0)
    PROVE  TextOk'
<1> DEFINE x == append.inum
           Len0(i) == dinode[i].size
<1>1. /\ x \in Inodes /\ x < freeinode /\ Addr(x, k0) = 0 /\ freeinode' = freeinode
      /\ \A i \in Inodes, k \in Slots : Addr(i, k)' = IF i = x /\ k = k0 THEN freeblock ELSE Addr(i, k)
  BY DEF Takes
<1>2. /\ \A i \in Inodes : dinode'[i].size = Len0(i)
      /\ append' = append
      /\ \A i \in Inodes, k \in DataSlots : Addr(i, k) # 0 => sect'[Addr(i, k)] = sect[Addr(i, k)]
      /\ k0 \in DataSlots => k0 = Row(Len0(x)) /\ sect'[freeblock] = Zeroes
  BY DEF Keeps
<1>3. /\ freeblock \in Nat /\ freeblock # 0 /\ \A i \in Inodes : Len0(i) \in Nat
      /\ DataSlots \subseteq Slots /\ DataSlots \subseteq Nat /\ MAXFILE \in Nat
  <2>1. freeblock \in Nat /\ freeblock # 0 /\ MAXFILE \in Nat
    BY MkfsConstants DEF MkfsTypes
  <2>2. \A i \in Inodes : Len0(i) \in Nat
    BY DEF MkfsTypes, InodeType
  <2> QED BY <2>1, <2>2 DEF DataSlots, Slots
<1>4. Written /\ Covered /\ Pending
  BY DEF TextOk
<1> HIDE DEF x, Len0
<1>5. ASSUME NEW i \in Inodes, NEW k \in DataSlots, Addr(i, k)' # 0, NEW j \in Column
      PROVE  sect'[Addr(i, k)'][j] = IF Within(Len0(i), k, j) THEN Expect(i, Position(k, j)) ELSE <<>>
  <2>1. CASE i = x /\ k = k0
    <3>1. Addr(i, k)' = freeblock /\ sect'[freeblock] = Zeroes /\ k = Row(Len0(i)) /\ Addr(i, k) = 0
      BY <1>1, <1>2, <1>3, <2>1
    <3>2. sect'[Addr(i, k)'][j] = <<>>
      BY <3>1 DEF Zeroes, Column
    <3>3. ~Within(Len0(i), k, 1)
      BY <1>3, <1>4, <3>1 DEF Covered, Len0
    <3>4. ~Within(Len0(i), k, j)
      <4>1. Row(Len0(i)) \in Nat /\ Col(Len0(i)) \in Nat
        BY <1>3, RowCol
      <4>2. j \in Nat /\ j >= 1
        BY MkfsConstants DEF Column
      <4> QED BY <3>1, <3>3, <4>1, <4>2 DEF Within
    <3> QED BY <3>2, <3>4
  <2>2. CASE ~(i = x /\ k = k0)
    <3>1. Addr(i, k)' = Addr(i, k) /\ Addr(i, k) # 0
      BY <1>1, <1>3, <1>5, <2>2
    <3>2. sect'[Addr(i, k)'] = sect[Addr(i, k)]
      BY <1>2, <3>1
    <3>3. sect[Addr(i, k)][j] = IF Within(Len0(i), k, j) THEN Expect(i, Position(k, j)) ELSE <<>>
      BY <1>4, <3>1 DEF Written, Len0
    <3> QED BY <3>2, <3>3
  <2> QED BY <2>1, <2>2
<1>6. Written'
  BY <1>2, <1>5 DEF Written
<1>7. Covered'
  <2> SUFFICES ASSUME NEW i \in Inodes, NEW k \in Nat, Within(Len0(i), k, 1) PROVE k < MAXFILE /\ Addr(i, k)' # 0
    BY <1>2 DEF Covered
  <2>1. k < MAXFILE /\ Addr(i, k) # 0
    BY <1>4 DEF Covered, Len0
  <2>2. k \in Slots
    BY <1>3, <2>1 DEF Slots
  <2> QED BY <1>1, <1>3, <2>1, <2>2
<1>8. Pending'
  <2>1. dinode'[append'.inum].size = dinode[append.inum].size
    BY <1>1, <1>2 DEF x, Len0
  <2> QED BY <1>1, <1>2, <1>4, <2>1 DEF Pending
<1> QED BY <1>6, <1>7, <1>8 DEF TextOk

LEMMA LoopHere ==
    ASSUME MkfsTypes, TextOk, Loop
    PROVE  /\ append.inum \in Inodes /\ append.inum < freeinode /\ size \in Nat /\ size = dinode[append.inum].size
           /\ fbn = Row(size) /\ within = Col(size) /\ fbn \in DataSlots /\ fbn \in Slots /\ fbn \in Nat
           /\ addrs = dinode[append.inum].addrs /\ addrs \in [0 .. NDIRECT -> Nat]
<1>1. append.inum \in Inodes /\ append.inum < freeinode
  BY DEF MkfsTypes, TextOk, Pending, Loop
<1>2. dinode[append.inum] \in InodeType
  BY <1>1 DEF MkfsTypes
<1>3. size \in Nat /\ addrs \in [0 .. NDIRECT -> Nat]
  BY <1>2 DEF InodeType, size, addrs
<1>4. fbn = Row(size) /\ within = Col(size)
  BY DEF fbn, within, Row, Col
<1>5. fbn \in Nat /\ fbn < MAXFILE /\ MAXFILE \in Nat
  BY <1>3, <1>4, RowCol, MkfsConstants DEF Loop
<1> QED BY <1>1, <1>3, <1>4, <1>5 DEF DataSlots, Slots, size, addrs

LEMMA AddressTaken ==
    ASSUME MkfsTypes, NEW k \in 0 .. NDIRECT, TakesAddress(k)
    PROVE  /\ dinode' \in [Inodes -> InodeType] /\ addrs[k] = 0 /\ freeblock < FSSIZE
           /\ \A i \in Inodes : dinode'[i].size = dinode[i].size
           /\ \A i \in Inodes \ {append.inum} : dinode'[i].addrs = dinode[i].addrs
           /\ dinode'[append.inum].addrs[k] = freeblock
           /\ \A m \in 0 .. NDIRECT \ {k} : dinode'[append.inum].addrs[m] = dinode[append.inum].addrs[m]
<1> DEFINE x == append.inum
           new == [dinode[x].addrs EXCEPT ![k] = freeblock]
           node == [dinode[x] EXCEPT !.addrs = new]
<1>1. x \in Inodes /\ dinode \in [Inodes -> InodeType] /\ freeblock \in Nat
  BY MkfsConstants DEF MkfsTypes
<1>2. dinode' = [dinode EXCEPT ![x] = node] /\ addrs[k] = 0 /\ freeblock < FSSIZE
  BY DEF TakesAddress
<1>3. dinode[x] \in InodeType
  BY <1>1
<1>4. dinode[x].addrs \in [0 .. NDIRECT -> Nat] /\ dinode[x].size \in Nat
  BY <1>3 DEF InodeType
<1>5. /\ new \in [0 .. NDIRECT -> Nat] /\ new[k] = freeblock
      /\ \A m \in 0 .. NDIRECT \ {k} : new[m] = dinode[x].addrs[m]
  BY <1>1, <1>4
<1> HIDE DEF new
<1>6. node \in InodeType /\ node.addrs = new /\ node.size = dinode[x].size
  BY <1>3, <1>5 DEF InodeType
<1> HIDE DEF node
<1>7. dinode' \in [Inodes -> InodeType] /\ dinode'[x] = node /\ \A i \in Inodes \ {x} : dinode'[i] = dinode[i]
  BY <1>1, <1>2, <1>6
<1>8. dinode'[x].size = dinode[x].size /\ dinode'[x].addrs = new
  BY <1>6, <1>7
<1> HIDE DEF x
<1>9. /\ \A i \in Inodes : dinode'[i].size = dinode[i].size
      /\ \A i \in Inodes \ {x} : dinode'[i].addrs = dinode[i].addrs
  BY <1>7, <1>8
<1>10. dinode'[x].addrs[k] = freeblock /\ \A m \in 0 .. NDIRECT \ {k} : dinode'[x].addrs[m] = dinode[x].addrs[m]
  BY <1>5, <1>8
<1> QED BY <1>2, <1>7, <1>9, <1>10 DEF x

\* A slot in terms of the addresses of an inode.
LEMMA AddrIs ==
    ASSUME NEW i, NEW k \in Slots
    PROVE  /\ k \in DataSlots /\ k < NDIRECT => Addr(i, k) = dinode[i].addrs[k]
           /\ Addr(i, MAXFILE) = dinode[i].addrs[NDIRECT]
           /\ k \in DataSlots /\ k >= NDIRECT /\ dinode[i].addrs[NDIRECT] = 0 => Addr(i, k) = 0
           /\ k \in DataSlots /\ k >= NDIRECT /\ dinode[i].addrs[NDIRECT] # 0 =>
                 Addr(i, k) = sect[dinode[i].addrs[NDIRECT]][k - NDIRECT]
<1>1. NDIRECT \in Nat /\ MAXFILE \in Nat /\ MAXFILE >= NDIRECT
  BY MkfsConstants
<1>2. k \in Nat /\ (k \in DataSlots => k < MAXFILE)
  BY <1>1 DEF Slots, DataSlots
<1> QED BY <1>1, <1>2 DEF Addr

LEMMA AddrIsNext ==
    ASSUME NEW i, NEW k \in Slots
    PROVE  /\ k \in DataSlots /\ k < NDIRECT => Addr(i, k)' = dinode'[i].addrs[k]
           /\ Addr(i, MAXFILE)' = dinode'[i].addrs[NDIRECT]
           /\ k \in DataSlots /\ k >= NDIRECT /\ dinode'[i].addrs[NDIRECT] = 0 => Addr(i, k)' = 0
           /\ k \in DataSlots /\ k >= NDIRECT /\ dinode'[i].addrs[NDIRECT] # 0 =>
                 Addr(i, k)' = sect'[dinode'[i].addrs[NDIRECT]][k - NDIRECT]
<1>1. NDIRECT \in Nat /\ MAXFILE \in Nat /\ MAXFILE >= NDIRECT
  BY MkfsConstants
<1>2. k \in Nat /\ (k \in DataSlots => k < MAXFILE)
  BY <1>1 DEF Slots, DataSlots
<1> QED BY <1>1, <1>2 DEF Addr

\* The indirect blocks of the files, and the other blocks.
LEMMA OtherBlocks ==
    ASSUME MkfsTypes, TreeOk, NEW i \in Inodes, Addr(i, MAXFILE) # 0
    PROVE  /\ Addr(i, MAXFILE) \in nmeta .. freeblock - 1 /\ Addr(i, MAXFILE) \in DOMAIN sect
           /\ sect[Addr(i, MAXFILE)] \in [0 .. NINDIRECT - 1 -> Nat]
           /\ \A j \in Inodes, k \in DataSlots : Addr(j, k) # Addr(i, MAXFILE)
           /\ \A j \in Inodes \ {i} : Addr(j, MAXFILE) # Addr(i, MAXFILE)
<1>1. MAXFILE \in Slots /\ MAXFILE \notin DataSlots /\ DataSlots \subseteq Slots
  BY MkfsConstants DEF Slots, DataSlots
<1>2. Addr(i, MAXFILE) \in nmeta .. freeblock - 1
  BY <1>1 DEF TreeOk, Placed
<1>3. Addr(i, MAXFILE) \in DOMAIN sect
  <2>1. freeblock \in nmeta .. FSSIZE /\ DOMAIN sect = nmeta .. FSSIZE - 1
    BY DEF MkfsTypes
  <2> QED BY <1>2, <2>1, MkfsConstants
<1>4. sect[Addr(i, MAXFILE)] \in [0 .. NINDIRECT - 1 -> Nat]
  BY DEF TreeOk, Indirects
<1>5. /\ \A j \in Inodes, k \in DataSlots : Addr(j, k) # Addr(i, MAXFILE)
      /\ \A j \in Inodes \ {i} : Addr(j, MAXFILE) # Addr(i, MAXFILE)
  BY <1>1 DEF TreeOk, PlacedOnce
<1> QED BY <1>2, <1>3, <1>4, <1>5

\* No block in use is the next one.
LEMMA NextIsNew ==
    ASSUME MkfsTypes, TreeOk, freeblock < FSSIZE
    PROVE  /\ freeblock \in DOMAIN sect /\ freeblock \in Nat /\ freeblock # 0 /\ sect[freeblock] = Zeroes
           /\ \A i \in Inodes, k \in Slots : Addr(i, k) # freeblock
<1>1. /\ freeblock \in nmeta .. FSSIZE /\ DOMAIN sect = nmeta .. FSSIZE - 1
      /\ nmeta \in Nat /\ nmeta >= 2 /\ FSSIZE \in Nat
  BY MkfsConstants DEF MkfsTypes
<1>2. freeblock \in DOMAIN sect /\ freeblock \in Nat /\ freeblock # 0 /\ freeblock \in freeblock .. FSSIZE - 1
  BY <1>1
<1>3. sect[freeblock] = Zeroes
  BY <1>2 DEF TreeOk, Unused
<1>4. ASSUME NEW i \in Inodes, NEW k \in Slots PROVE Addr(i, k) # freeblock
  <2>1. Addr(i, k) = 0 \/ Addr(i, k) \in nmeta .. freeblock - 1
    BY DEF TreeOk, Placed
  <2> QED BY <1>1, <1>2, <2>1
<1> QED BY <1>2, <1>3, <1>4

LEMMA DirectTakes ==
    ASSUME MkfsTypes, TreeOk, TextOk, takesDirect
    PROVE  (\E k \in Slots : Takes(k) /\ Keeps(k)) /\ dinode' \in [Inodes -> InodeType] /\ Indirects'
<1>0. PICK x \in Inodes, k0 \in DataSlots : x = append.inum /\ k0 = fbn
  BY LoopHere DEF takesDirect
<1>1. /\ x \in Inodes /\ x < freeinode /\ k0 \in DataSlots /\ k0 \in Slots /\ k0 \in Nat /\ k0 < NDIRECT
      /\ k0 = Row(dinode[x].size)
      /\ TakesAddress(k0) /\ freeblock' = freeblock + 1 /\ sect' = sect /\ freeinode' = freeinode /\ append' = append
  BY <1>0, LoopHere DEF takesDirect
<1>2. k0 \in 0 .. NDIRECT /\ k0 # NDIRECT /\ NDIRECT \in 0 .. NDIRECT /\ MAXFILE \in Slots
  BY <1>1, MkfsConstants DEF Slots
<1>3. /\ dinode' \in [Inodes -> InodeType] /\ addrs[k0] = 0 /\ freeblock < FSSIZE
      /\ \A i \in Inodes : dinode'[i].size = dinode[i].size
      /\ \A i \in Inodes \ {x} : dinode'[i].addrs = dinode[i].addrs
      /\ dinode'[x].addrs[k0] = freeblock
      /\ \A m \in 0 .. NDIRECT \ {k0} : dinode'[x].addrs[m] = dinode[x].addrs[m]
  BY <1>0, <1>1, <1>2, AddressTaken
<1>4. sect[freeblock] = Zeroes
  BY <1>3, NextIsNew
<1>5. Addr(x, k0) = 0 /\ Addr(x, k0)' = freeblock
  <2>1. addrs[k0] = dinode[x].addrs[k0]
    BY <1>0 DEF addrs
  <2>2. Addr(x, k0) = dinode[x].addrs[k0]
    BY <1>1, AddrIs
  <2>3. Addr(x, k0)' = dinode'[x].addrs[k0]
    BY <1>1, AddrIsNext
  <2> QED BY <1>3, <2>1, <2>2, <2>3
<1>6. ASSUME NEW i \in Inodes, NEW k \in Slots, ~(i = x /\ k = k0) PROVE Addr(i, k)' = Addr(i, k)
  <2>1. dinode'[i].addrs[NDIRECT] = dinode[i].addrs[NDIRECT]
    BY <1>2, <1>3
  <2>2. CASE k = MAXFILE
    BY <2>1, <2>2, AddrIs, AddrIsNext
  <2>3. CASE k \in DataSlots /\ k >= NDIRECT
    <3>1. dinode[i].addrs[NDIRECT] = 0 \/ dinode[i].addrs[NDIRECT] # 0
      OBVIOUS
    <3> QED BY <1>1, <2>1, <2>3, <3>1, AddrIs, AddrIsNext
  <2>4. CASE k \in DataSlots /\ k < NDIRECT
    <3>1. Addr(i, k) = dinode[i].addrs[k] /\ Addr(i, k)' = dinode'[i].addrs[k]
      BY <2>4, AddrIs, AddrIsNext
    <3>2. k \in 0 .. NDIRECT
      BY <2>4, MkfsConstants DEF DataSlots
    <3> QED BY <1>3, <1>6, <3>1, <3>2
  <2>5. k = MAXFILE \/ k \in DataSlots
    BY MkfsConstants DEF Slots, DataSlots
  <2>6. k \in Nat /\ NDIRECT \in Nat
    BY MkfsConstants DEF Slots
  <2> QED BY <2>2, <2>3, <2>4, <2>5, <2>6
<1>7. Takes(k0)
  BY <1>0, <1>1, <1>3, <1>5, <1>6 DEF Takes
<1>8. Keeps(k0)
  BY <1>0, <1>1, <1>3, <1>4 DEF Keeps
<1>9. Indirects'
  <2>1. MAXFILE # k0
    BY <1>1, MkfsConstants DEF DataSlots
  <2>2. \A i \in Inodes : Addr(i, MAXFILE)' = Addr(i, MAXFILE)
    BY <1>2, <1>6, <2>1
  <2> QED BY <1>1, <2>2 DEF Indirects, TreeOk
<1> QED BY <1>1, <1>3, <1>7, <1>8, <1>9

LEMMA IndirectTakes ==
    ASSUME MkfsTypes, TreeOk, TextOk, takesIndirect
    PROVE  (\E k \in Slots : Takes(k) /\ Keeps(k)) /\ dinode' \in [Inodes -> InodeType] /\ Indirects'
<1>0. PICK x \in Inodes, fb \in Nat : x = append.inum /\ fb = freeblock
  BY LoopHere, MkfsConstants DEF takesIndirect, MkfsTypes
<1>1. /\ x < freeinode /\ TakesAddress(NDIRECT) /\ sect' = [sect EXCEPT ![fb] = NoEntries]
      /\ freeblock' = freeblock + 1 /\ freeinode' = freeinode /\ append' = append
  BY <1>0, LoopHere DEF takesIndirect
<1>2. /\ NDIRECT \in 0 .. NDIRECT /\ MAXFILE \in Slots /\ MAXFILE \notin DataSlots /\ NDIRECT \in Nat
      /\ DataSlots \subseteq Slots /\ \A k \in Slots : k \in Nat /\ (k = MAXFILE \/ k \in DataSlots)
  BY MkfsConstants DEF Slots, DataSlots
<1>3. /\ dinode' \in [Inodes -> InodeType] /\ addrs[NDIRECT] = 0 /\ freeblock < FSSIZE
      /\ \A i \in Inodes : dinode'[i].size = dinode[i].size
      /\ \A i \in Inodes \ {x} : dinode'[i].addrs = dinode[i].addrs
      /\ dinode'[x].addrs[NDIRECT] = freeblock
      /\ \A m \in 0 .. NDIRECT \ {NDIRECT} : dinode'[x].addrs[m] = dinode[x].addrs[m]
  BY <1>0, <1>1, <1>2, AddressTaken
<1>4. /\ fb \in DOMAIN sect /\ fb # 0
      /\ \A i \in Inodes, k \in Slots : Addr(i, k) # fb
  BY <1>0, <1>3, NextIsNew
<1>5. sect'[fb] = NoEntries /\ \A b \in DOMAIN sect \ {fb} : sect'[b] = sect[b]
  BY <1>1, <1>4
<1>6. dinode[x].addrs[NDIRECT] = 0 /\ dinode'[x].addrs[NDIRECT] = fb /\ Addr(x, MAXFILE) = 0 /\ Addr(x, MAXFILE)' = fb
  <2>1. dinode[x].addrs[NDIRECT] = 0 /\ dinode'[x].addrs[NDIRECT] = fb
    BY <1>0, <1>3 DEF addrs
  <2> QED BY <1>2, <2>1, AddrIs, AddrIsNext
<1>7. ASSUME NEW i \in Inodes, i # x, dinode[i].addrs[NDIRECT] # 0
      PROVE  sect'[dinode[i].addrs[NDIRECT]] = sect[dinode[i].addrs[NDIRECT]]
  <2>1. Addr(i, MAXFILE) = dinode[i].addrs[NDIRECT]
    BY <1>2, AddrIs
  <2>2. Addr(i, MAXFILE) \in DOMAIN sect /\ Addr(i, MAXFILE) # fb
    BY <1>2, <1>4, <1>7, <2>1, OtherBlocks
  <2> QED BY <1>5, <2>1, <2>2
<1>8. ASSUME NEW i \in Inodes, NEW k \in DataSlots PROVE Addr(i, k)' = Addr(i, k)
  <2>1. k \in Slots /\ k \in Nat
    BY <1>2
  <2>2. CASE k < NDIRECT
    <3>1. Addr(i, k) = dinode[i].addrs[k] /\ Addr(i, k)' = dinode'[i].addrs[k]
      BY <2>1, <2>2, AddrIs, AddrIsNext
    <3>2. k \in 0 .. NDIRECT \ {NDIRECT}
      BY <1>2, <2>1, <2>2
    <3> QED BY <1>3, <3>1, <3>2
  <2>3. CASE k >= NDIRECT /\ i = x
    <3>1. Addr(i, k) = 0 /\ Addr(i, k)' = sect'[fb][k - NDIRECT]
      BY <1>4, <1>6, <2>1, <2>3, AddrIs, AddrIsNext
    <3>2. k - NDIRECT \in 0 .. NINDIRECT - 1
      BY <2>1, <2>3, MkfsConstants DEF DataSlots
    <3> QED BY <1>5, <3>1, <3>2 DEF NoEntries
  <2>4. CASE k >= NDIRECT /\ i # x
    <3>1. dinode'[i].addrs[NDIRECT] = dinode[i].addrs[NDIRECT]
      BY <1>3, <2>4
    <3>2. CASE dinode[i].addrs[NDIRECT] = 0
      BY <2>1, <2>4, <3>1, <3>2, AddrIs, AddrIsNext
    <3>3. CASE dinode[i].addrs[NDIRECT] # 0
      <4>1. sect'[dinode[i].addrs[NDIRECT]] = sect[dinode[i].addrs[NDIRECT]]
        BY <1>7, <2>4, <3>3
      <4>2. Addr(i, k) = sect[dinode[i].addrs[NDIRECT]][k - NDIRECT]
        BY <2>1, <2>4, <3>3, AddrIs
      <4>3. Addr(i, k)' = sect'[dinode'[i].addrs[NDIRECT]][k - NDIRECT]
        BY <2>1, <2>4, <3>1, <3>3, AddrIsNext
      <4> QED BY <3>1, <4>1, <4>2, <4>3
    <3> QED BY <3>2, <3>3
  <2> QED BY <1>2, <2>1, <2>2, <2>3, <2>4
<1>9. \A i \in Inodes \ {x} : Addr(i, MAXFILE)' = Addr(i, MAXFILE)
  BY <1>2, <1>3, AddrIs, AddrIsNext
<1>10. Takes(MAXFILE)
  <2>1. \A i \in Inodes, k \in Slots : Addr(i, k)' = IF i = x /\ k = MAXFILE THEN fb ELSE Addr(i, k)
    BY <1>2, <1>6, <1>8, <1>9
  <2> QED BY <1>0, <1>1, <1>3, <1>6, <2>1 DEF Takes
<1>11. Keeps(MAXFILE)
  <2>1. ASSUME NEW i \in Inodes, NEW k \in DataSlots, Addr(i, k) # 0 PROVE sect'[Addr(i, k)] = sect[Addr(i, k)]
    <3>1. Addr(i, k) \in nmeta .. freeblock - 1
      BY <1>2, <2>1 DEF TreeOk, Placed
    <3>2. Addr(i, k) \in DOMAIN sect
      BY <1>3, <3>1, MkfsConstants DEF MkfsTypes
    <3> QED BY <1>2, <1>4, <1>5, <3>2
  <2> QED BY <1>1, <1>2, <1>3, <2>1 DEF Keeps
<1>12. Indirects'
  <2> SUFFICES ASSUME NEW i \in Inodes, Addr(i, MAXFILE)' # 0
               PROVE  sect'[Addr(i, MAXFILE)'] \in [0 .. NINDIRECT - 1 -> Nat]
    BY DEF Indirects
  <2>1. CASE i = x
    BY <1>5, <1>6, <2>1 DEF NoEntries
  <2>2. CASE i # x
    <3>1. Addr(i, MAXFILE)' = Addr(i, MAXFILE)
      BY <1>9, <2>2
    <3>2. Addr(i, MAXFILE) \in DOMAIN sect /\ sect[Addr(i, MAXFILE)] \in [0 .. NINDIRECT - 1 -> Nat]
      BY <3>1, OtherBlocks
    <3> QED BY <1>2, <1>4, <1>5, <3>1, <3>2
  <2> QED BY <2>1, <2>2
<1> QED BY <1>2, <1>3, <1>10, <1>11, <1>12

LEMMA EntryTakes ==
    ASSUME MkfsTypes, TreeOk, TextOk, takesEntry
    PROVE  (\E k \in Slots : Takes(k) /\ Keeps(k)) /\ dinode' = dinode /\ DOMAIN sect' = DOMAIN sect /\ Indirects'
<1>0. PICK x \in Inodes, k0 \in DataSlots, a \in Nat, fb \in Nat :
               x = append.inum /\ k0 = fbn /\ a = ind /\ fb = freeblock
  <2>1. ind \in Nat
    <3>1. NDIRECT \in 0 .. NDIRECT
      BY MkfsConstants
    <3> QED BY <3>1, LoopHere DEF takesEntry, ind
  <2>2. append.inum \in Inodes /\ fbn \in DataSlots
    BY LoopHere DEF takesEntry
  <2>3. freeblock \in Nat
    BY MkfsConstants DEF MkfsTypes
  <2> QED BY <2>1, <2>2, <2>3
<1>1. /\ x < freeinode /\ k0 >= NDIRECT /\ k0 = Row(dinode[x].size) /\ a # 0 /\ a = dinode[x].addrs[NDIRECT]
      /\ sect[a][k0 - NDIRECT] = 0 /\ freeblock < FSSIZE
      /\ sect' = [sect EXCEPT ![a] = [sect[a] EXCEPT ![k0 - NDIRECT] = fb]]
      /\ freeblock' = freeblock + 1 /\ freeinode' = freeinode /\ append' = append /\ dinode' = dinode
  BY <1>0, LoopHere DEF takesEntry, ind
<1>2. /\ MAXFILE \in Slots /\ MAXFILE \notin DataSlots /\ NDIRECT \in Nat
      /\ DataSlots \subseteq Slots /\ \A k \in Slots : k \in Nat /\ (k = MAXFILE \/ k \in DataSlots)
  BY MkfsConstants DEF Slots, DataSlots
<1>3. \A k \in DataSlots : k >= NDIRECT => k - NDIRECT \in 0 .. NINDIRECT - 1
  BY MkfsConstants DEF DataSlots
<1>4. Addr(x, MAXFILE) = a
  BY <1>1, <1>2, AddrIs
<1>5. /\ a \in DOMAIN sect /\ sect[a] \in [0 .. NINDIRECT - 1 -> Nat]
      /\ \A j \in Inodes, k \in DataSlots : Addr(j, k) # a
      /\ \A j \in Inodes \ {x} : Addr(j, MAXFILE) # a
  BY <1>1, <1>4, OtherBlocks
<1>6. /\ sect[freeblock] = Zeroes /\ fb \in DOMAIN sect /\ fb # 0
      /\ \A i \in Inodes, k \in Slots : Addr(i, k) # fb
  BY <1>0, <1>1, NextIsNew
<1>7. /\ sect'[a] \in [0 .. NINDIRECT - 1 -> Nat] /\ sect'[a][k0 - NDIRECT] = fb
      /\ \A m \in 0 .. NINDIRECT - 1 : m # k0 - NDIRECT => sect'[a][m] = sect[a][m]
      /\ \A b \in DOMAIN sect \ {a} : sect'[b] = sect[b]
      /\ DOMAIN sect' = DOMAIN sect
  <2> DEFINE new == [sect[a] EXCEPT ![k0 - NDIRECT] = fb]
  <2>1. k0 - NDIRECT \in 0 .. NINDIRECT - 1
    BY <1>1, <1>3
  <2>2. new \in [0 .. NINDIRECT - 1 -> Nat] /\ new[k0 - NDIRECT] = fb
    BY <1>5, <2>1
  <2>3. \A m \in 0 .. NINDIRECT - 1 : m # k0 - NDIRECT => new[m] = sect[a][m]
    BY <1>5
  <2>4. sect' = [sect EXCEPT ![a] = new]
    BY <1>1
  <2> HIDE DEF new
  <2>5. sect'[a] = new /\ DOMAIN sect' = DOMAIN sect /\ \A b \in DOMAIN sect \ {a} : sect'[b] = sect[b]
    BY <1>5, <2>4
  <2> QED BY <2>2, <2>3, <2>5
<1>8. \A i \in Inodes, k \in Slots : k = MAXFILE \/ k < NDIRECT => Addr(i, k)' = Addr(i, k)
  BY <1>1, <1>2, AddrIs, AddrIsNext
<1>9. Addr(x, k0) = 0 /\ Addr(x, k0)' = fb
  <2>1. Addr(x, k0) = sect[a][k0 - NDIRECT]
    BY <1>1, <1>2, AddrIs
  <2>2. Addr(x, k0)' = sect'[a][k0 - NDIRECT]
    BY <1>1, <1>2, AddrIsNext
  <2> QED BY <1>1, <1>7, <2>1, <2>2
<1>10. ASSUME NEW i \in Inodes, NEW k \in DataSlots, k >= NDIRECT, ~(i = x /\ k = k0)
       PROVE  Addr(i, k)' = Addr(i, k)
  <2>1. CASE i = x
    <3>1. Addr(i, k) = sect[a][k - NDIRECT] /\ Addr(i, k)' = sect'[a][k - NDIRECT]
      BY <1>1, <1>2, <1>10, <2>1, AddrIs, AddrIsNext
    <3>2. k - NDIRECT \in 0 .. NINDIRECT - 1 /\ k - NDIRECT # k0 - NDIRECT
      <4>1. k \in Nat /\ k0 \in Nat /\ k # k0
        BY <1>2, <1>10, <2>1
      <4> QED BY <1>2, <1>3, <1>10, <4>1
    <3> QED BY <1>7, <3>1, <3>2
  <2>2. CASE i # x /\ dinode[i].addrs[NDIRECT] = 0
    BY <1>1, <1>2, <1>10, <2>2, AddrIs, AddrIsNext
  <2>3. CASE i # x /\ dinode[i].addrs[NDIRECT] # 0
    <3>1. Addr(i, MAXFILE) = dinode[i].addrs[NDIRECT]
      BY <1>2, AddrIs
    <3>2. Addr(i, MAXFILE) \in DOMAIN sect /\ Addr(i, MAXFILE) # a
      BY <1>5, <2>3, <3>1, OtherBlocks
    <3>3. sect'[dinode[i].addrs[NDIRECT]] = sect[dinode[i].addrs[NDIRECT]]
      BY <1>7, <3>1, <3>2
    <3>4. Addr(i, k) = sect[dinode[i].addrs[NDIRECT]][k - NDIRECT]
      BY <1>2, <1>10, <2>3, AddrIs
    <3>5. Addr(i, k)' = sect'[dinode'[i].addrs[NDIRECT]][k - NDIRECT]
      BY <1>1, <1>2, <1>10, <2>3, AddrIsNext
    <3> QED BY <1>1, <3>3, <3>4, <3>5
  <2> QED BY <2>1, <2>2, <2>3
<1>11. Takes(k0)
  <2>1. ASSUME NEW i \in Inodes, NEW k \in Slots
        PROVE  Addr(i, k)' = IF i = x /\ k = k0 THEN fb ELSE Addr(i, k)
    <3>1. CASE i = x /\ k = k0
      BY <1>9, <3>1
    <3>2. CASE ~(i = x /\ k = k0) /\ (k = MAXFILE \/ k < NDIRECT)
      BY <1>8, <3>2
    <3>3. CASE ~(i = x /\ k = k0) /\ k \in DataSlots /\ k >= NDIRECT
      BY <1>10, <3>3, SMTT(30)
    <3>4. k \in Nat /\ (k = MAXFILE \/ k \in DataSlots) /\ NDIRECT \in Nat
      BY <1>2, SMTT(30)
    <3> QED BY <3>1, <3>2, <3>3, <3>4
  <2> QED BY <1>0, <1>1, <1>9, <2>1 DEF Takes
<1>12. Keeps(k0)
  <2>1. ASSUME NEW i \in Inodes, NEW k \in DataSlots, Addr(i, k) # 0 PROVE sect'[Addr(i, k)] = sect[Addr(i, k)]
    <3>1. Addr(i, k) \in nmeta .. freeblock - 1
      BY <1>2, <2>1 DEF TreeOk, Placed
    <3>2. Addr(i, k) \in DOMAIN sect
      BY <1>1, <3>1, MkfsConstants, SMTT(30) DEF MkfsTypes
    <3> QED BY <1>5, <1>7, <3>2
  <2>2. fb # a
    BY <1>2, <1>4, <1>6
  <2>3. sect'[freeblock] = Zeroes
    BY <1>0, <1>6, <1>7, <2>2
  <2> QED BY <1>0, <1>1, <2>1, <2>3 DEF Keeps
<1>13. Indirects'
  <2> SUFFICES ASSUME NEW i \in Inodes, Addr(i, MAXFILE)' # 0
               PROVE  sect'[Addr(i, MAXFILE)'] \in [0 .. NINDIRECT - 1 -> Nat]
    BY DEF Indirects
  <2>1. Addr(i, MAXFILE)' = Addr(i, MAXFILE)
    BY <1>2, <1>8
  <2>2. Addr(i, MAXFILE) \in DOMAIN sect /\ sect[Addr(i, MAXFILE)] \in [0 .. NINDIRECT - 1 -> Nat]
    BY <2>1, OtherBlocks
  <2> QED BY <1>7, <2>1, <2>2
<1> QED BY <1>1, <1>2, <1>7, <1>11, <1>12, <1>13

LEMMA AddressSaved ==
    ASSUME MkInv, takesDirect \/ takesIndirect \/ takesEntry
    PROVE  MkInv'
<1>1. Loop /\ append.n > 0 /\ UNCHANGED <<argn, mkpc, append, freeinode, bitmap, given>>
  BY DEF takesDirect, takesIndirect, takesEntry, Loop
<1>2. Working
  BY <1>1 DEF MkInv, Working, Loop
<1>3. MkfsTypes /\ TreeOk /\ TextOk /\ MainAt
  BY <1>2 DEF MkInv
<1>4. (\E k \in Slots : Takes(k) /\ Keeps(k)) /\ dinode' \in [Inodes -> InodeType] /\ Indirects'
  BY <1>3, DirectTakes, IndirectTakes, EntryTakes DEF MkfsTypes
<1>5. PICK k0 \in Slots : Takes(k0) /\ Keeps(k0)
  BY <1>4
<1>6. Placed' /\ PlacedOnce' /\ NoneLost' /\ TextOk'
  BY <1>3, <1>5, TakenOnce, TakenEmpty
<1>7. freeblock < FSSIZE /\ freeblock' = freeblock + 1
  BY <1>5 DEF Takes
<1>8. DOMAIN sect' = DOMAIN sect /\ \A b \in freeblock + 1 .. FSSIZE - 1 : sect'[b] = sect[b]
  <2>1. freeblock \in nmeta .. FSSIZE /\ DOMAIN sect = nmeta .. FSSIZE - 1
    BY <1>3 DEF MkfsTypes
  <2>2. \A b \in freeblock + 1 .. FSSIZE - 1 : b \in DOMAIN sect /\ b # freeblock /\ b > freeblock
    BY <2>1, MkfsConstants
  <2>3. CASE takesDirect
    BY <2>3 DEF takesDirect
  <2>4. CASE takesIndirect
    <3>1. sect' = [sect EXCEPT ![freeblock] = NoEntries]
      BY <2>4 DEF takesIndirect
    <3> QED BY <2>2, <3>1
  <2>5. CASE takesEntry
    <3>1. sect' = [sect EXCEPT ![ind] = [sect[ind] EXCEPT ![fbn - NDIRECT] = freeblock]] /\ ind # 0
      BY <2>5 DEF takesEntry
    <3>2. MAXFILE \in Slots /\ append.inum \in Inodes
      BY <1>3, MkfsConstants DEF Slots, MkfsTypes
    <3>3. Addr(append.inum, MAXFILE) = ind
      BY <3>2, AddrIs DEF ind, addrs
    <3>4. ind \in nmeta .. freeblock - 1
      BY <1>3, <3>1, <3>2, <3>3, OtherBlocks
    <3>5. \A b \in freeblock + 1 .. FSSIZE - 1 : b # ind
      BY <2>1, <3>4, MkfsConstants
    <3> HIDE DEF ind
    <3> QED BY <2>2, <3>1, <3>5
  <2> QED BY <2>3, <2>4, <2>5
<1>9. MkfsTypes'
  <2>1. freeblock' \in nmeta .. FSSIZE
    BY <1>3, <1>7, MkfsConstants DEF MkfsTypes
  <2>2. append' = Appends'
    BY <1>1, <1>3 DEF MkfsTypes, Appends
  <2> QED BY <1>1, <1>3, <1>4, <1>8, <2>1, <2>2 DEF MkfsTypes
<1>10. Unused'
  <2>1. \A b \in freeblock' .. FSSIZE - 1 : sect'[b] = Zeroes
    <3> SUFFICES ASSUME NEW b \in freeblock + 1 .. FSSIZE - 1 PROVE sect'[b] = Zeroes
      BY <1>7
    <3>1. b \in freeblock .. FSSIZE - 1
      BY <1>3, MkfsConstants DEF MkfsTypes
    <3> QED BY <1>3, <1>8, <3>1 DEF TreeOk, Unused
  <2>2. ASSUME NEW i \in Inodes, i >= freeinode PROVE dinode'[i].size = 0 /\ \A k \in Slots : Addr(i, k)' = 0
    <3>1. i # append.inum
      BY <1>3, <1>5, <2>2 DEF Takes, Inodes, MkfsTypes
    <3>2. \A k \in Slots : Addr(i, k)' = Addr(i, k)
      BY <1>5, <3>1 DEF Takes
    <3>3. dinode[i].size = 0 /\ \A k \in Slots : Addr(i, k) = 0
      BY <1>3, <2>2 DEF TreeOk, Unused
    <3> QED BY <1>5, <3>2, <3>3 DEF Keeps
  <2> QED BY <1>1, <2>1, <2>2 DEF Unused
<1>11. MainAt'
  <2>1. \A i \in Inodes : Length(i)' = Length(i)
    BY <1>1, <1>5 DEF Length, Keeps
  <2>2. freeinode \in 1 .. NINODES /\ NINODES \in Nat
    BY <1>3, MkfsConstants DEF MkfsTypes
  <2>3. /\ mkpc \in {"dots", "file", "data"} => ROOTINO \in Inodes
        /\ mkpc = "data" => freeinode - 1 \in Inodes
        /\ \A i \in 2 .. freeinode - 1 : i \in Inodes
    BY <1>3, <2>2, MkfsConstants DEF MainAt, Inodes, MkfsTypes
  <2>4. \A i \in 2 .. freeinode - 2 : i \in Inodes
    BY <2>2, <2>3
  <2> QED BY <1>1, <1>3, <2>1, <2>3, <2>4 DEF MainAt
<1>12. mkpc' # "done"
  BY <1>1, <1>2 DEF Working
<1>13. ImageInv'
  BY <1>12 DEF ImageInv, ImageMarked, ImageWhole, RootSize
<1> QED BY <1>1, <1>2, <1>3, <1>4, <1>6, <1>9, <1>10, <1>11, <1>12, <1>13 DEF MkInv, TreeOk

-----------------------------------------------------------------------------
(* mkfs: copying into a block *)

LEMMA WithinGrows ==
    ASSUME NEW n \in Nat, NEW c \in Nat, c >= 1, c <= BSIZE - Col(n), NEW k \in Nat, NEW j \in Column
    PROVE  Within(n + c, k, j) <=> IF k = Row(n) THEN j <= Col(n) + c ELSE Within(n, k, j)
<1>1. /\ BSIZE \in Nat /\ Row(n) \in Nat /\ Col(n) \in Nat /\ Col(n) < BSIZE
      /\ j \in Nat /\ j >= 1 /\ j <= BSIZE
  <2>1. BSIZE \in Nat
    BY MkfsConstants
  <2> QED BY <2>1, RowCol DEF Column
<1>2. CASE Col(n) + c = BSIZE
  <2>1. Row(n + c) = Row(n) + 1 /\ Col(n + c) = 0
    BY <1>2, FileGrows
  <2> QED BY <1>1, <1>2, <2>1 DEF Within
<1>3. CASE Col(n) + c # BSIZE
  <2>1. Row(n + c) = Row(n) /\ Col(n + c) = Col(n) + c
    BY <1>3, FileGrows
  <2> QED BY <1>1, <1>3, <2>1 DEF Within
<1> QED BY <1>2, <1>3

\* What a step of the copy does: c units more in inode x, in its block b.
Copies(x, b, c) ==
    /\ x = append.inum /\ x \in Inodes /\ c \in Nat /\ c >= 1 /\ c <= append.n
    /\ c <= BSIZE - Col(dinode[x].size)
    /\ Row(dinode[x].size) \in DataSlots /\ b = Addr(x, Row(dinode[x].size)) /\ b # 0 /\ b \in DOMAIN sect
    /\ DOMAIN sect' = DOMAIN sect /\ \A d \in DOMAIN sect \ {b} : sect'[d] = sect[d]
    /\ \A j \in Column : sect'[b][j] = IF j > Col(dinode[x].size) /\ j <= Col(dinode[x].size) + c
                                       THEN append.units[append.p + j - Col(dinode[x].size)] ELSE sect[b][j]
    /\ dinode' \in [Inodes -> InodeType]
    /\ dinode'[x].size = dinode[x].size + c /\ \A i \in Inodes \ {x} : dinode'[i].size = dinode[i].size
    /\ \A i \in Inodes : dinode'[i].addrs = dinode[i].addrs
    /\ append'.inum = x /\ append'.units = append.units
    /\ append'.p = append.p + c /\ append'.n = append.n - c /\ append' = Appends'
    /\ UNCHANGED <<argn, mkpc, freeinode, freeblock, bitmap, given>>

LEMMA CopyDoes ==
    ASSUME MkfsTypes, TreeOk, TextOk, copies
    PROVE  \E x, b, c : Copies(x, b, c)
<1>0. PICK x, b, c, k0, s, col : /\ x = append.inum /\ b = Addr(x, k0) /\ c = n1 /\ k0 = fbn
                                /\ s = dinode[x].size /\ col = within
  OBVIOUS
<1>1. /\ x \in Inodes /\ k0 \in DataSlots /\ k0 \in Slots /\ k0 = Row(s) /\ s \in Nat /\ col = Col(s) /\ s = size
      /\ append.n > 0
  BY <1>0, LoopHere DEF copies, Loop
<1>2. b # 0 /\ sect' = [sect EXCEPT ![b] = Copied(sect[b])]
  BY <1>0 DEF copies
<1>3. c \in Nat /\ c >= 1 /\ c <= append.n /\ c <= BSIZE - Col(s)
  <2>1. append.n \in Nat /\ append.n >= 1
    BY <1>1 DEF MkfsTypes
  <2>2. BSIZE \in Nat /\ col \in 0 .. BSIZE - 1
    BY <1>1, MkfsConstants, RowCol
  <2>3. c = IF append.n < BSIZE - col THEN append.n ELSE BSIZE - col
    BY <1>0 DEF n1
  <2> QED BY <1>1, <2>1, <2>2, <2>3
<1>4. b \in DOMAIN sect
  <2>1. b \in nmeta .. freeblock - 1
    BY <1>0, <1>1, <1>2 DEF TreeOk, Placed
  <2> QED BY <2>1, MkfsConstants DEF MkfsTypes
<1>5. /\ DOMAIN sect' = DOMAIN sect /\ \A d \in DOMAIN sect \ {b} : sect'[d] = sect[d]
      /\ \A j \in Column : sect'[b][j] = IF j > col /\ j <= col + c THEN append.units[append.p + j - col] ELSE sect[b][j]
  <2> DEFINE new == Copied(sect[b])
  <2>1. \A j \in Column : new[j] = IF j > col /\ j <= col + c THEN append.units[append.p + j - col] ELSE sect[b][j]
    BY <1>0 DEF Copied, Column
  <2>2. sect' = [sect EXCEPT ![b] = new]
    BY <1>2
  <2> HIDE DEF new
  <2>3. sect'[b] = new /\ DOMAIN sect' = DOMAIN sect /\ \A d \in DOMAIN sect \ {b} : sect'[d] = sect[d]
    BY <1>4, <2>2
  <2> QED BY <2>1, <2>3
<1>6. /\ dinode' \in [Inodes -> InodeType] /\ dinode'[x].size = s + c
      /\ \A i \in Inodes \ {x} : dinode'[i].size = dinode[i].size
      /\ \A i \in Inodes : dinode'[i].addrs = dinode[i].addrs
  <2> DEFINE node == [dinode[x] EXCEPT !.size = s + c]
  <2>1. dinode \in [Inodes -> InodeType] /\ dinode[x] \in InodeType
    BY <1>1 DEF MkfsTypes
  <2>2. dinode' = [dinode EXCEPT ![x] = node]
    BY <1>0 DEF copies
  <2>3. node \in InodeType /\ node.size = s + c /\ node.addrs = dinode[x].addrs
    <3>1. s + c \in Nat
      BY <1>1, <1>3
    <3> QED BY <2>1, <3>1 DEF InodeType
  <2> HIDE DEF node
  <2>4. dinode' \in [Inodes -> InodeType] /\ dinode'[x] = node /\ \A i \in Inodes \ {x} : dinode'[i] = dinode[i]
    BY <1>1, <2>1, <2>2, <2>3
  <2> QED BY <2>3, <2>4
<1>7. /\ append'.inum = x /\ append'.units = append.units
      /\ append'.p = append.p + c /\ append'.n = append.n - c /\ append' = Appends'
  <2>1. append = [inum |-> append.inum, units |-> append.units, p |-> append.p, n |-> append.n]
    BY DEF MkfsTypes, Appends
  <2>2. append' = [append EXCEPT !.p = append.p + c, !.n = append.n - c]
    BY <1>0 DEF copies
  <2>3. append' = [inum |-> x, units |-> append.units, p |-> append.p + c, n |-> append.n - c]
    BY <1>0, <2>1, <2>2
  <2> QED BY <2>3 DEF Appends
<1>8. UNCHANGED <<argn, mkpc, freeinode, freeblock, bitmap, given>>
  BY DEF copies
<1>9. /\ x = append.inum /\ x \in Inodes /\ c \in Nat /\ c >= 1 /\ c <= append.n
      /\ c <= BSIZE - Col(dinode[x].size)
      /\ Row(dinode[x].size) \in DataSlots /\ b = Addr(x, Row(dinode[x].size)) /\ b # 0 /\ b \in DOMAIN sect
  BY <1>0, <1>1, <1>2, <1>3, <1>4
<1>10. \A j \in Column : sect'[b][j] = IF j > Col(dinode[x].size) /\ j <= Col(dinode[x].size) + c
                                        THEN append.units[append.p + j - Col(dinode[x].size)] ELSE sect[b][j]
  BY <1>0, <1>1, <1>5
<1>11. dinode'[x].size = dinode[x].size + c
  BY <1>0, <1>6
<1>12. Copies(x, b, c)
  BY <1>5, <1>6, <1>7, <1>8, <1>9, <1>10, <1>11 DEF Copies
<1> QED BY <1>12

LEMMA CopiedSlots ==
    ASSUME MkfsTypes, TreeOk, NEW x, NEW b, NEW c, Copies(x, b, c)
    PROVE  \A i \in Inodes, k \in Slots : Addr(i, k)' = Addr(i, k)
<1>1. /\ x \in Inodes /\ Row(dinode[x].size) \in DataSlots /\ b = Addr(x, Row(dinode[x].size))
      /\ \A d \in DOMAIN sect \ {b} : sect'[d] = sect[d]
      /\ \A i \in Inodes : dinode'[i].addrs = dinode[i].addrs
  BY DEF Copies
<1>2. /\ MAXFILE \in Slots /\ NDIRECT \in Nat
      /\ \A k \in Slots : k \in Nat /\ (k = MAXFILE \/ k \in DataSlots)
  BY MkfsConstants DEF Slots, DataSlots
<1> SUFFICES ASSUME NEW i \in Inodes, NEW k \in Slots PROVE Addr(i, k)' = Addr(i, k)
  OBVIOUS
<1>3. dinode'[i].addrs = dinode[i].addrs
  BY <1>1
<1>4. CASE k = MAXFILE
  BY <1>3, <1>4, AddrIs, AddrIsNext
<1>5. CASE k \in DataSlots /\ k < NDIRECT
  BY <1>3, <1>5, AddrIs, AddrIsNext
<1>6. CASE k \in DataSlots /\ k >= NDIRECT /\ dinode[i].addrs[NDIRECT] = 0
  BY <1>3, <1>6, AddrIs, AddrIsNext
<1>7. CASE k \in DataSlots /\ k >= NDIRECT /\ dinode[i].addrs[NDIRECT] # 0
  <2>1. Addr(i, MAXFILE) = dinode[i].addrs[NDIRECT]
    BY <1>2, AddrIs
  <2>2. Addr(i, MAXFILE) \in DOMAIN sect /\ Addr(i, MAXFILE) # b
    BY <1>1, <1>7, <2>1, OtherBlocks
  <2>3. sect'[dinode[i].addrs[NDIRECT]] = sect[dinode[i].addrs[NDIRECT]]
    BY <1>1, <2>1, <2>2
  <2>4. Addr(i, k) = sect[dinode[i].addrs[NDIRECT]][k - NDIRECT]
    BY <1>7, AddrIs
  <2>5. Addr(i, k)' = sect'[dinode'[i].addrs[NDIRECT]][k - NDIRECT]
    BY <1>3, <1>7, AddrIsNext
  <2> QED BY <1>3, <2>3, <2>4, <2>5
<1>8. k \in Nat /\ (k = MAXFILE \/ k \in DataSlots)
  BY <1>2
<1> QED BY <1>2, <1>4, <1>5, <1>6, <1>7, <1>8

LEMMA CopiedText ==
    ASSUME MkfsTypes, TreeOk, TextOk, NEW x, NEW b, NEW c, Copies(x, b, c)
    PROVE  TextOk'
<1> DEFINE s == dinode[x].size
           p == append.p
<1>1. /\ x = append.inum /\ x \in Inodes /\ c \in Nat /\ c >= 1 /\ c <= append.n /\ c <= BSIZE - Col(s)
      /\ Row(s) \in DataSlots /\ b = Addr(x, Row(s)) /\ b # 0 /\ b \in DOMAIN sect
      /\ \A d \in DOMAIN sect \ {b} : sect'[d] = sect[d]
      /\ \A j \in Column : sect'[b][j] = IF j > Col(s) /\ j <= Col(s) + c
                                         THEN append.units[p + j - Col(s)] ELSE sect[b][j]
      /\ dinode'[x].size = s + c /\ \A i \in Inodes \ {x} : dinode'[i].size = dinode[i].size
      /\ append'.inum = x /\ append'.units = append.units /\ append'.p = p + c /\ append'.n = append.n - c
      /\ freeinode' = freeinode
  BY DEF Copies
<1>2. /\ s \in Nat /\ p \in Nat /\ append.n \in Nat /\ Row(s) \in Nat /\ Col(s) \in Nat /\ Col(s) < BSIZE /\ BSIZE \in Nat
      /\ \A i \in Inodes : dinode[i].size \in Nat
  <2>1. \A i \in Inodes : dinode[i].size \in Nat
    BY DEF MkfsTypes, InodeType
  <2>2. s \in Nat
    BY <1>1, <2>1
  <2>3. Row(s) \in Nat /\ Col(s) \in 0 .. BSIZE - 1 /\ BSIZE \in Nat
    BY <2>2, RowCol, MkfsConstants
  <2> QED BY <2>1, <2>2, <2>3 DEF MkfsTypes
<1>3. \A i \in Inodes, k \in Slots : Addr(i, k)' = Addr(i, k)
  BY CopiedSlots
<1>4. DataSlots \subseteq Slots /\ DataSlots \subseteq Nat /\ MAXFILE \in Nat /\ \A k \in Nat : k < MAXFILE => k \in Slots
  BY MkfsConstants DEF Slots, DataSlots
<1>5. Column \subseteq Nat /\ \A j \in Column : j >= 1
  BY MkfsConstants DEF Column
<1>6. Written /\ Covered /\ Pending
  BY DEF TextOk
<1>units. \A m \in 1 .. append.n : append.units[p + m] = Expect(x, s + m - 1)
  BY <1>1, <1>2, <1>6 DEF Pending
<1> HIDE DEF s, p
<1>7. ASSUME NEW j \in Column, j > Col(s), j <= Col(s) + c
      PROVE  append.units[p + j - Col(s)] = Expect(x, Position(Row(s), j))
  <2>1. PICK m \in Nat : m = j - Col(s) /\ m \in 1 .. append.n
    <3>1. j - Col(s) \in Nat /\ j - Col(s) \in 1 .. append.n
      BY <1>1, <1>2, <1>5, <1>7
    <3> QED BY <3>1
  <2>2. append.units[p + m] = Expect(x, s + m - 1)
    BY <1>units, <2>1
  <2>3. p + m = p + j - Col(s)
    BY <1>2, <1>5, <2>1
  <2>4. Position(Row(s), j) = s + m - 1
    <3>1. j \in Nat
      BY <1>5
    <3>2. Position(Row(s), j) = s + (j - Col(s)) - 1
      BY <1>2, <3>1, LastBlock
    <3> QED BY <2>1, <3>2
  <2> QED BY <2>2, <2>3, <2>4
<1>8. ASSUME NEW i \in Inodes, NEW k \in DataSlots, Addr(i, k) # 0, NEW j \in Column
      PROVE  sect'[Addr(i, k)][j] = IF Within(dinode'[i].size, k, j) THEN Expect(i, Position(k, j)) ELSE <<>>
  <2>1. sect[Addr(i, k)][j] = IF Within(dinode[i].size, k, j) THEN Expect(i, Position(k, j)) ELSE <<>>
    BY <1>6, <1>8 DEF Written
  <2>2. k \in Slots /\ k \in Nat /\ Row(s) \in Slots
    BY <1>1, <1>4
  <2>3. CASE i = x /\ k = Row(s)
    <3>1. Within(s + c, k, j) <=> j <= Col(s) + c
      BY <1>1, <1>2, <2>2, <2>3, WithinGrows
    <3>2. Within(s, k, j) <=> j <= Col(s)
      BY <1>2, <2>3 DEF Within
    <3>3. sect'[Addr(i, k)][j] = IF j > Col(s) /\ j <= Col(s) + c THEN append.units[p + j - Col(s)] ELSE sect[Addr(i, k)][j]
      BY <1>1, <2>3
    <3>4. CASE j > Col(s) /\ j <= Col(s) + c
      BY <1>1, <1>7, <2>3, <3>1, <3>3, <3>4
    <3>5. CASE j <= Col(s)
      <4>1. sect'[Addr(i, k)][j] = Expect(i, Position(k, j))
        BY <1>2, <1>5, <2>1, <2>3, <3>2, <3>3, <3>5 DEF s
      <4>2. j <= Col(s) + c
        BY <1>1, <1>2, <1>5, <3>5
      <4> QED BY <1>1, <2>3, <3>1, <4>1, <4>2
    <3>6. CASE j > Col(s) + c
      <4>1. ~(j <= Col(s)) /\ ~(j <= Col(s) + c)
        BY <1>1, <1>2, <1>5, <3>6
      <4>2. sect'[Addr(i, k)][j] = <<>>
        BY <2>1, <2>3, <3>2, <3>3, <4>1 DEF s
      <4> QED BY <1>1, <2>3, <3>1, <4>1, <4>2
    <3> QED BY <1>1, <1>2, <1>5, <3>4, <3>5, <3>6
  <2>4. CASE ~(i = x /\ k = Row(s))
    <3>1. Addr(i, k) # b
      BY <1>1, <1>8, <2>2, <2>4 DEF TreeOk, PlacedOnce
    <3>2. Addr(i, k) \in DOMAIN sect
      <4>1. Addr(i, k) \in nmeta .. freeblock - 1
        BY <1>8, <2>2 DEF TreeOk, Placed
      <4> QED BY <4>1, MkfsConstants DEF MkfsTypes
    <3>3. sect'[Addr(i, k)] = sect[Addr(i, k)]
      BY <1>1, <3>1, <3>2
    <3>4. Within(dinode'[i].size, k, j) <=> Within(dinode[i].size, k, j)
      <4>1. CASE i = x
        <5>1. Within(s + c, k, j) <=> Within(s, k, j)
          BY <1>1, <1>2, <2>2, <2>4, <4>1, WithinGrows
        <5> QED BY <1>1, <4>1, <5>1 DEF s
      <4>2. CASE i # x
        BY <1>1, <4>2
      <4> QED BY <4>1, <4>2
    <3> QED BY <2>1, <3>3, <3>4
  <2> QED BY <2>3, <2>4
<1>9. Written'
  BY <1>3, <1>4, <1>8 DEF Written
<1>10. Covered'
  <2> SUFFICES ASSUME NEW i \in Inodes, NEW k \in Nat, Within(dinode'[i].size, k, 1) PROVE k < MAXFILE /\ Addr(i, k)' # 0
    BY DEF Covered
  <2>1. CASE i = x /\ k = Row(s)
    BY <1>1, <1>3, <1>4, <2>1, MkfsConstants DEF DataSlots
  <2>2. CASE ~(i = x /\ k = Row(s))
    <3>1. Within(dinode[i].size, k, 1)
      <4>1. CASE i = x
        <5>1. 1 \in Column
          BY MkfsConstants DEF Column
        <5>2. Within(s + c, k, 1) <=> Within(s, k, 1)
          BY <1>1, <1>2, <2>2, <4>1, <5>1, WithinGrows
        <5> QED BY <1>1, <4>1, <5>2 DEF s
      <4>2. CASE i # x
        BY <1>1, <4>2
      <4> QED BY <4>1, <4>2
    <3>2. k < MAXFILE /\ Addr(i, k) # 0
      BY <1>6, <3>1 DEF Covered
    <3> QED BY <1>3, <1>4, <3>2
  <2> QED BY <2>1, <2>2
<1>11. Pending'
  <2> SUFFICES ASSUME append'.n > 0
               PROVE  /\ x < freeinode
                      /\ \A m \in 1 .. append.n - c : append.units[p + c + m] = Expect(x, s + c + m - 1)
    BY <1>1 DEF Pending
  <2>1. x < freeinode
    BY <1>1, <1>2, <1>6 DEF Pending
  <2>2. ASSUME NEW m \in 1 .. append.n - c PROVE append.units[p + c + m] = Expect(x, s + c + m - 1)
    <3>1. c + m \in 1 .. append.n /\ p + (c + m) = p + c + m /\ s + (c + m) - 1 = s + c + m - 1
      BY <1>1, <1>2
    <3>2. append.units[p + (c + m)] = Expect(x, s + (c + m) - 1)
      BY <1>units, <3>1
    <3> QED BY <3>1, <3>2
  <2> QED BY <2>1, <2>2
<1> QED BY <1>9, <1>10, <1>11 DEF TextOk

LEMMA UnitsCopied == ASSUME MkInv, copies PROVE MkInv'
<1>1. Loop
  BY DEF copies
<1>2. Working
  BY <1>1 DEF MkInv, Working, Loop
<1>3. MkfsTypes /\ TreeOk /\ TextOk /\ MainAt
  BY <1>2 DEF MkInv
<1>4. PICK x, b, c : Copies(x, b, c)
  BY <1>3, CopyDoes
<1>5. /\ x = append.inum /\ x \in Inodes /\ c \in Nat /\ c >= 1 /\ c <= append.n
      /\ Row(dinode[x].size) \in DataSlots /\ b = Addr(x, Row(dinode[x].size)) /\ b # 0
      /\ DOMAIN sect' = DOMAIN sect /\ \A d \in DOMAIN sect \ {b} : sect'[d] = sect[d]
      /\ dinode' \in [Inodes -> InodeType]
      /\ dinode'[x].size = dinode[x].size + c /\ \A i \in Inodes \ {x} : dinode'[i].size = dinode[i].size
      /\ append'.inum = x
      /\ append'.p = append.p + c /\ append'.n = append.n - c /\ append' = Appends'
      /\ UNCHANGED <<argn, mkpc, freeinode, freeblock, bitmap, given>>
  BY <1>4 DEF Copies
<1>6. TextOk'
  BY <1>3, <1>4, CopiedText
<1>7. \A i \in Inodes, k \in Slots : Addr(i, k)' = Addr(i, k)
  BY <1>3, <1>4, CopiedSlots
<1>8. MAXFILE \in Slots /\ DataSlots \subseteq Slots
  BY MkfsConstants DEF Slots, DataSlots
<1>9. Placed' /\ PlacedOnce' /\ NoneLost'
  BY <1>3, <1>5, <1>7 DEF TreeOk, Placed, PlacedOnce, NoneLost
<1>10. Indirects'
  <2> SUFFICES ASSUME NEW i \in Inodes, Addr(i, MAXFILE) # 0
               PROVE  sect'[Addr(i, MAXFILE)] \in [0 .. NINDIRECT - 1 -> Nat]
    BY <1>7, <1>8 DEF Indirects
  <2>1. /\ Addr(i, MAXFILE) \in DOMAIN sect /\ sect[Addr(i, MAXFILE)] \in [0 .. NINDIRECT - 1 -> Nat]
        /\ Addr(i, MAXFILE) # b
    BY <1>3, <1>5, OtherBlocks
  <2> QED BY <1>5, <2>1
<1>11. Unused'
  <2>1. ASSUME NEW d \in freeblock .. FSSIZE - 1 PROVE sect'[d] = Zeroes
    <3>1. b \in nmeta .. freeblock - 1
      BY <1>3, <1>5, <1>8 DEF TreeOk, Placed
    <3>2. d \in DOMAIN sect /\ d # b
      BY <1>3, <3>1, MkfsConstants DEF MkfsTypes
    <3> QED BY <1>3, <1>5, <3>2 DEF TreeOk, Unused
  <2>2. ASSUME NEW i \in Inodes, i >= freeinode PROVE dinode'[i].size = 0 /\ \A k \in Slots : Addr(i, k)' = 0
    <3>1. Addr(i, Row(dinode[x].size)) = 0
      BY <1>3, <1>5, <1>8, <2>2 DEF TreeOk, Unused
    <3>2. i # x
      BY <1>5, <3>1
    <3> QED BY <1>3, <1>5, <1>7, <2>2, <3>2 DEF TreeOk, Unused
  <2> QED BY <1>5, <2>1, <2>2 DEF Unused
<1>12. MkfsTypes'
  <2>1. append'.n \in Nat /\ append'.p \in Nat
    BY <1>3, <1>5 DEF MkfsTypes
  <2> QED BY <1>3, <1>5, <2>1 DEF MkfsTypes
<1>13. MainAt'
  <2>1. ASSUME NEW i \in Inodes PROVE Length(i)' = Length(i)
    <3>1. dinode[i].size \in Nat /\ append.n \in Nat
      BY <1>3 DEF MkfsTypes, InodeType
    <3>2. CASE i = x
      <4>1. Length(i)' = (dinode[x].size + c) + (append.n - c) /\ Length(i) = dinode[x].size + append.n
        BY <1>5, <3>2 DEF Length
      <4> QED BY <1>5, <3>1, <3>2, <4>1
    <3>3. CASE i # x
      BY <1>5, <3>3 DEF Length
    <3> QED BY <3>2, <3>3
  <2>2. freeinode \in 1 .. NINODES /\ NINODES \in Nat
    BY <1>3, MkfsConstants DEF MkfsTypes
  <2>3. /\ mkpc \in {"dots", "file", "data"} => ROOTINO \in Inodes
        /\ mkpc = "data" => freeinode - 1 \in Inodes
        /\ \A i \in 2 .. freeinode - 1 : i \in Inodes
    BY <1>3, <2>2, MkfsConstants DEF MainAt, Inodes, MkfsTypes
  <2>4. \A i \in 2 .. freeinode - 2 : i \in Inodes
    BY <2>2, <2>3
  <2>5. mkpc # "root"
    BY <1>1, <1>3 DEF MainAt, Loop
  <2> QED BY <1>3, <1>5, <2>1, <2>3, <2>4, <2>5 DEF MainAt
<1>14. mkpc' # "done" /\ mkpc' \in {"root", "dots", "file", "data", "done", "aborted"}
  BY <1>2, <1>5 DEF Working
<1>15. ImageInv'
  BY <1>14 DEF ImageInv, ImageMarked, ImageWhole, RootSize
<1> QED BY <1>6, <1>9, <1>10, <1>11, <1>12, <1>13, <1>14, <1>15 DEF MkInv, TreeOk

-----------------------------------------------------------------------------
(* mkfs: the steps of main() *)

\* A new inode is empty, as it was before; the files stay what they are.
LEMMA InodeNew ==
    ASSUME MkfsTypes, TreeOk, TextOk, NEW type \in {"DIR", "FILE"}, ialloc(type), freeinode < NINODES,
           sect' = sect, freeblock' = freeblock
    PROVE  /\ TreeOk' /\ Written' /\ Covered'
           /\ dinode' \in [Inodes -> InodeType] /\ \A i \in Inodes : dinode'[i].size = dinode[i].size
           /\ freeinode \in Inodes /\ dinode[freeinode].size = 0 /\ freeinode' = freeinode + 1 /\ freeinode' \in 1 .. NINODES
<1>0. PICK x \in Nat : x = freeinode
  BY MkfsConstants DEF MkfsTypes
<1> DEFINE node == NewInode(type)
<1>1. x \in Inodes /\ x + 1 \in 1 .. NINODES
  BY <1>0, MkfsConstants DEF MkfsTypes, Inodes
<1>2. dinode' = [dinode EXCEPT ![x] = node] /\ freeinode' = freeinode + 1
  BY <1>0 DEF ialloc
<1>3. node \in InodeType /\ node.size = 0 /\ \A k \in 0 .. NDIRECT : node.addrs[k] = 0
  BY DEF NewInode, InodeType
<1> HIDE DEF node
<1>4. dinode' \in [Inodes -> InodeType] /\ dinode'[x] = node /\ \A i \in Inodes \ {x} : dinode'[i] = dinode[i]
  BY <1>1, <1>2, <1>3 DEF MkfsTypes
<1>5. dinode[x].size = 0 /\ \A k \in Slots : Addr(x, k) = 0
  BY <1>0, <1>1, MkfsConstants DEF TreeOk, Unused
<1>6. \A i \in Inodes : dinode'[i].size = dinode[i].size
  BY <1>3, <1>4, <1>5
<1>7. /\ MAXFILE \in Slots /\ NDIRECT \in 0 .. NDIRECT /\ DataSlots \subseteq Slots /\ \A k \in Nat : k < MAXFILE => k \in Slots
      /\ \A k \in Slots : (k \in DataSlots /\ k < NDIRECT /\ k \in 0 .. NDIRECT) \/ k = MAXFILE \/ (k \in DataSlots /\ k >= NDIRECT)
  BY MkfsConstants DEF Slots, DataSlots
<1>8. \A i \in Inodes, k \in Slots : Addr(i, k)' = Addr(i, k)
  <2> SUFFICES ASSUME NEW i \in Inodes, NEW k \in Slots PROVE Addr(i, k)' = Addr(i, k)
    OBVIOUS
  <2>1. CASE i = x
    <3>1. \A m \in 0 .. NDIRECT : dinode'[i].addrs[m] = 0
      BY <1>3, <1>4, <2>1
    <3>2. Addr(i, k)' = 0
      BY <1>7, <3>1, AddrIsNext
    <3> QED BY <1>5, <2>1, <3>2
  <2>2. CASE i # x
    <3>1. dinode'[i] = dinode[i]
      BY <1>4, <2>2
    <3>2. dinode[i].addrs[NDIRECT] = 0 \/ dinode[i].addrs[NDIRECT] # 0
      OBVIOUS
    <3> QED BY <1>7, <3>1, <3>2, AddrIs, AddrIsNext
  <2> QED BY <2>1, <2>2
<1>9. Placed' /\ PlacedOnce' /\ Indirects'
  BY <1>7, <1>8 DEF TreeOk, Placed, PlacedOnce, Indirects
<1>10. NoneLost'
  <2>1. \A i \in Inodes : i < freeinode => i < freeinode'
    BY <1>0, <1>2 DEF Inodes
  <2> QED BY <1>8, <2>1 DEF TreeOk, NoneLost
<1>11. Unused'
  <2>1. \A i \in Inodes : i >= freeinode' => i >= freeinode
    BY <1>0, <1>2 DEF Inodes
  <2> QED BY <1>6, <1>8, <2>1 DEF TreeOk, Unused
<1>12. Written'
  <2>1. Written
    BY DEF TextOk
  <2> QED BY <1>6, <1>7, <1>8, <2>1 DEF Written
<1>13. Covered'
  <2>1. Covered
    BY DEF TextOk
  <2> QED BY <1>6, <1>7, <1>8, <2>1 DEF Covered
<1> QED BY <1>0, <1>1, <1>2, <1>4, <1>5, <1>6, <1>9, <1>10, <1>11, <1>12, <1>13 DEF TreeOk

LEMMA AppendBegun ==
    ASSUME NEW i \in Inodes, NEW units, NEW n \in Nat, append' = iappend(i, units, n)
    PROVE  /\ append'.inum = i /\ append'.units = units /\ append'.p = 0 /\ append'.n = n
           /\ append' = Appends' /\ append'.inum \in Inodes /\ append'.n \in Nat /\ append'.p \in Nat
<1>1. append' = [inum |-> i, units |-> units, p |-> 0, n |-> n]
  BY DEF iappend
<1> QED BY <1>1 DEF Appends

LEMMA ImageLater == ASSUME mkpc' # "done" PROVE ImageInv'
  BY DEF ImageInv, ImageMarked, ImageWhole, RootSize

LEMMA SameFiles ==
    ASSUME TreeOk, TextOk, UNCHANGED <<dinode, sect, freeinode, freeblock>>
    PROVE  TreeOk' /\ Written' /\ Covered'
<1>1. \A i, k : Addr(i, k)' = Addr(i, k)
  BY DEF Addr
<1>2. Placed' /\ PlacedOnce' /\ NoneLost'
  BY <1>1 DEF TreeOk, Placed, PlacedOnce, NoneLost
<1>3. Indirects' /\ Unused'
  BY <1>1 DEF TreeOk, Indirects, Unused
<1>4. Written'
  BY <1>1 DEF TextOk, Written
<1>5. Covered'
  BY <1>1 DEF TextOk, Covered
<1> QED BY <1>2, <1>3, <1>4, <1>5 DEF TreeOk

\* What all steps of main() start from.
LEMMA MainHere ==
    ASSUME MkInv, NEW pc \in {"root", "dots", "file", "data"}, Reached(pc)
    PROVE  /\ MkfsTypes /\ TreeOk /\ TextOk /\ MainAt /\ mkpc = pc /\ append.n = 0
           /\ \A i \in Inodes : dinode[i].size \in Nat /\ Length(i) = dinode[i].size
           /\ argn \in Nat \ {0} /\ freeinode \in 1 .. NINODES /\ given \in Seq(Nat) /\ Len(given) + ROOTINO < NINODES
<1>1. MkfsTypes /\ TreeOk /\ TextOk /\ MainAt /\ mkpc = pc /\ append.n = 0
  BY DEF MkInv, Working, Reached
<1>2. \A i \in Inodes : dinode[i].size \in Nat
  BY <1>1 DEF MkfsTypes, InodeType
<1>3. \A i \in Inodes : Length(i) = dinode[i].size
  BY <1>1, <1>2 DEF Length
<1>4. argn \in Nat \ {0} /\ freeinode \in 1 .. NINODES
  BY <1>1 DEF MkfsTypes
<1>5. given \in Seq(Nat) /\ Len(given) + ROOTINO < NINODES
  BY <1>1, MkfsConstants DEF MainAt
<1> QED BY <1>1, <1>2, <1>3, <1>4, <1>5

LEMMA RootStep == ASSUME MkInv, root PROVE MkInv'
<1>0. Reached("root") /\ ialloc("DIR") /\ append' = iappend(freeinode, << <<".", ROOTINO>> >>, 1) /\ mkpc' = "dots"
      /\ UNCHANGED <<argn, sect, freeblock, bitmap, given>>
  BY DEF root
<1>1. /\ MkfsTypes /\ TreeOk /\ TextOk /\ MainAt /\ mkpc = "root"
      /\ freeinode = 1 /\ argn = 1 /\ freeinode < NINODES
      /\ given \in Seq(Nat) /\ Len(given) + ROOTINO < NINODES
  BY <1>0, MainHere, MkfsConstants, LenProperties DEF MainAt
<1>2. /\ TreeOk' /\ Written' /\ Covered' /\ dinode' \in [Inodes -> InodeType]
      /\ \A i \in Inodes : dinode'[i].size = dinode[i].size
      /\ 1 \in Inodes /\ dinode[1].size = 0 /\ freeinode' = 2 /\ freeinode' \in 1 .. NINODES
  BY <1>0, <1>1, InodeNew
<1>3. /\ append'.inum = 1 /\ append'.units = << <<".", ROOTINO>> >> /\ append'.p = 0 /\ append'.n = 1
      /\ append' = Appends' /\ append'.inum \in Inodes /\ append'.n \in Nat /\ append'.p \in Nat
  BY <1>0, <1>1, <1>2, AppendBegun
<1>4. MkfsTypes'
  BY <1>0, <1>1, <1>2, <1>3 DEF MkfsTypes
<1>5. Pending'
  BY <1>2, <1>3, MkfsConstants DEF Pending, Expect
<1>6. MainAt'
  <2>1. Length(ROOTINO)' = 1
    BY <1>2, <1>3, MkfsConstants DEF Length
  <2> QED BY <1>0, <1>1, <1>2, <2>1 DEF MainAt
<1> QED BY <1>0, <1>2, <1>4, <1>5, <1>6, ImageLater DEF MkInv, TextOk

LEMMA DotsStep == ASSUME MkInv, dots PROVE MkInv'
<1>0. Reached("dots") /\ append' = iappend(ROOTINO, << <<"..", ROOTINO>> >>, 1) /\ mkpc' = "file"
      /\ UNCHANGED <<argn, dinode, sect, freeinode, freeblock, bitmap, given>>
  BY DEF dots
<1>1. /\ MkfsTypes /\ TreeOk /\ TextOk /\ MainAt /\ mkpc = "dots"
      /\ freeinode = 2 /\ argn = 1 /\ Length(ROOTINO) = 1 /\ ROOTINO \in Inodes /\ ROOTINO = 1
      /\ \A i \in Inodes : Length(i) = dinode[i].size
      /\ given \in Seq(Nat)
  <2>1. /\ MkfsTypes /\ TreeOk /\ TextOk /\ MainAt /\ mkpc = "dots" /\ freeinode \in 1 .. NINODES
        /\ \A i \in Inodes : Length(i) = dinode[i].size
        /\ given \in Seq(Nat)
    BY <1>0, MainHere
  <2>2. freeinode = 2 /\ argn = 1 /\ Length(ROOTINO) = 1
    BY <2>1 DEF MainAt
  <2> QED BY <2>1, <2>2, MkfsConstants DEF Inodes
<1>2. dinode[1].size = 1
  BY <1>1
<1>3. /\ append'.inum = 1 /\ append'.units = << <<"..", ROOTINO>> >> /\ append'.p = 0 /\ append'.n = 1
      /\ append' = Appends' /\ append'.inum \in Inodes /\ append'.n \in Nat /\ append'.p \in Nat
  BY <1>0, <1>1, AppendBegun
<1>4. MkfsTypes'
  BY <1>0, <1>1, <1>3 DEF MkfsTypes
<1>5. TreeOk' /\ Written' /\ Covered'
  BY <1>0, <1>1, SameFiles
<1>6. Pending'
  <2>1. Expect(1, 1) = <<"..", ROOTINO>>
    BY <1>1 DEF Expect
  <2>2. append'.units[1] = <<"..", ROOTINO>> /\ dinode'[1].size = 1 /\ 1 < freeinode'
    BY <1>0, <1>1, <1>2, <1>3
  <2>3. \A m \in 1 .. 1 : 0 + m = 1 /\ 1 + m - 1 = 1
    OBVIOUS
  <2> QED BY <1>3, <2>1, <2>2, <2>3 DEF Pending
<1>7. MainAt'
  <2>1. Length(ROOTINO)' = 2
    BY <1>0, <1>1, <1>2, <1>3 DEF Length
  <2>2. argn <= Len(given) + 1
    BY <1>1, LenProperties
  <2> QED BY <1>0, <1>1, <2>1, <2>2 DEF MainAt
<1> QED BY <1>0, <1>4, <1>5, <1>6, <1>7, ImageLater DEF MkInv, TextOk

LEMMA FileStep == ASSUME MkInv, file PROVE MkInv'
<1>0. /\ Reached("file") /\ argn <= Len(given) /\ ialloc("FILE")
      /\ append' = iappend(ROOTINO, << <<argn, freeinode>> >>, 1) /\ mkpc' = "data"
      /\ UNCHANGED <<argn, sect, freeblock, bitmap, given>>
  BY DEF file
<1>1. /\ MkfsTypes /\ TreeOk /\ TextOk /\ MainAt /\ mkpc = "file"
      /\ argn \in Nat \ {0} /\ freeinode \in 1 .. NINODES
      /\ \A i \in Inodes : dinode[i].size \in Nat /\ Length(i) = dinode[i].size
      /\ given \in Seq(Nat) /\ Len(given) \in Nat /\ Len(given) + ROOTINO < NINODES /\ NINODES \in Nat /\ ROOTINO = 1
  BY <1>0, MainHere, MkfsConstants, LenProperties
<1>2. PICK f \in Nat : f = freeinode /\ f = argn + 1 /\ f < NINODES
  BY <1>0, <1>1 DEF MainAt
<1>3. /\ Length(ROOTINO) = f /\ 1 \in Inodes /\ dinode[1].size = f
      /\ \A i \in 2 .. f - 1 : i \in Inodes /\ dinode[i].size = given[i - 1]
  <2>1. 1 \in Inodes /\ \A i \in 2 .. f - 1 : i \in Inodes
    BY <1>1, <1>2 DEF Inodes
  <2>2. Length(ROOTINO) = f /\ \A i \in 2 .. f - 1 : Length(i) = given[i - 1]
    BY <1>1, <1>2 DEF MainAt
  <2> QED BY <1>1, <2>1, <2>2
<1>4. /\ TreeOk' /\ Written' /\ Covered' /\ dinode' \in [Inodes -> InodeType]
      /\ \A i \in Inodes : dinode'[i].size = dinode[i].size
      /\ f \in Inodes /\ dinode[f].size = 0 /\ freeinode' = f + 1 /\ freeinode' \in 1 .. NINODES
  BY <1>0, <1>1, <1>2, InodeNew
<1>5. /\ append'.inum = 1 /\ append'.units = << <<argn, freeinode>> >> /\ append'.p = 0 /\ append'.n = 1
      /\ append' = Appends' /\ append'.inum \in Inodes /\ append'.n \in Nat /\ append'.p \in Nat
  BY <1>0, <1>1, <1>3, AppendBegun
<1>6. MkfsTypes'
  BY <1>0, <1>1, <1>4, <1>5 DEF MkfsTypes
<1>7. Pending'
  <2>1. Expect(1, f) = <<argn, freeinode>>
    BY <1>1, <1>2 DEF Expect
  <2>2. append'.units[1] = <<argn, freeinode>>
    BY <1>5
  <2>3. dinode'[1].size = f /\ 1 < freeinode'
    BY <1>1, <1>2, <1>3, <1>4
  <2>4. \A m \in 1 .. 1 : 0 + m = 1 /\ f + m - 1 = f
    OBVIOUS
  <2> QED BY <1>5, <2>1, <2>2, <2>3, <2>4 DEF Pending
<1>8. MainAt'
  <2>1. Length(ROOTINO)' = f + 1
    BY <1>1, <1>3, <1>4, <1>5 DEF Length
  <2>2. ASSUME NEW i \in 2 .. f - 1 PROVE Length(i)' = given[i - 1]
    <3>1. i \in Inodes /\ dinode[i].size = given[i - 1]
      BY <1>3
    <3>2. i # 1 /\ dinode[i].size \in Nat
      BY <1>1, <3>1
    <3>3. dinode'[i].size = dinode[i].size
      BY <1>4, <3>1
    <3> QED BY <1>5, <3>1, <3>2, <3>3 DEF Length
  <2>3. Length(f)' = 0
    <3>1. f # 1
      BY <1>1, <1>2
    <3> QED BY <1>4, <1>5, <3>1 DEF Length
  <2>4. given[argn] \in Nat
    BY <1>0, <1>1, ElementOfSeq
  <2>5. Length(freeinode - 1)' <= given[argn]
    <3>1. freeinode' = f + 1
      BY <1>4
    <3>2. freeinode' - 1 = f
      BY <1>2, <3>1
    <3> QED BY <1>0, <2>3, <2>4, <3>2 DEF Length
  <2>6. freeinode' - 2 = f - 1 /\ freeinode' = argn + 2
    <3>1. freeinode' = f + 1
      BY <1>4
    <3> QED BY <1>1, <1>2, <3>1
  <2>7. given \in CommandLines
    BY <1>1 DEF MainAt
  <2> QED BY <1>0, <1>4, <2>1, <2>2, <2>5, <2>6, <2>7 DEF MainAt
<1> QED BY <1>0, <1>4, <1>6, <1>7, <1>8, ImageLater DEF MkInv, TextOk

LEMMA ReadStep == ASSUME MkInv, reads PROVE MkInv'
<1>0. PICK i, done, n :
         /\ i = freeinode - 1 /\ done = dinode[i].size /\ n = Read(given[argn] - done) /\ Reached("data")
         /\ \/ n > 0 /\ append' = iappend(i, [k \in 1 .. n |-> <<i, done + k>>], n) /\ UNCHANGED <<argn, mkpc>>
            \/ n = 0 /\ argn' = argn + 1 /\ mkpc' = "file" /\ UNCHANGED append
         /\ UNCHANGED <<dinode, sect, freeinode, freeblock, bitmap, given>>
  BY DEF reads
<1>1. /\ MkfsTypes /\ TreeOk /\ TextOk /\ MainAt /\ mkpc = "data" /\ append.n = 0
      /\ argn \in Nat \ {0} /\ freeinode \in 1 .. NINODES
      /\ \A j \in Inodes : dinode[j].size \in Nat /\ Length(j) = dinode[j].size
      /\ given \in Seq(Nat) /\ Len(given) \in Nat /\ NINODES \in Nat /\ ROOTINO = 1
  BY <1>0, MainHere, MkfsConstants, LenProperties
<1>2. /\ argn <= Len(given) /\ freeinode = argn + 2 /\ i = argn + 1 /\ i \in Inodes /\ 1 \in Inodes
      /\ dinode[1].size = freeinode /\ done <= given[argn] /\ done \in Nat
      /\ \A j \in 2 .. freeinode - 2 : j \in Inodes /\ dinode[j].size = given[j - 1]
  <2>1. /\ argn <= Len(given) /\ freeinode = argn + 2 /\ Length(ROOTINO) = freeinode
        /\ \A j \in 2 .. freeinode - 2 : Length(j) = given[j - 1]
        /\ Length(freeinode - 1) <= given[argn]
    BY <1>1 DEF MainAt
  <2>2. i = argn + 1 /\ i \in Inodes /\ 1 \in Inodes /\ \A j \in 2 .. freeinode - 2 : j \in Inodes
    BY <1>0, <1>1, <2>1, SMTT(30) DEF Inodes
  <2> QED BY <1>0, <1>1, <2>1, <2>2
<1>3. given[argn] \in Nat /\ BSIZE \in Nat /\ BSIZE >= 1
  BY <1>1, <1>2, MkfsConstants, ElementOfSeq
<1>4. n \in Nat /\ n <= given[argn] - done /\ (n = 0 => done = given[argn])
  <2>1. PICK rest \in Nat : rest = given[argn] - done
    BY <1>2, <1>3
  <2>2. n = IF rest < BSIZE THEN rest ELSE BSIZE
    BY <1>0, <2>1 DEF Read
  <2>3. n \in Nat /\ n <= rest /\ (n = 0 => rest = 0)
    BY <1>3, <2>2
  <2> QED BY <1>2, <1>3, <2>1, <2>3
<1>5. TreeOk' /\ Written' /\ Covered'
  BY <1>0, <1>1, SameFiles
<1>6. given \in CommandLines
  BY <1>1 DEF MainAt
<1>7. CASE n > 0
  <2>1. append' = iappend(i, [k \in 1 .. n |-> <<i, done + k>>], n) /\ UNCHANGED <<argn, mkpc>>
    BY <1>0, <1>7
  <2>2. /\ append'.inum = i /\ append'.units = [k \in 1 .. n |-> <<i, done + k>>] /\ append'.p = 0 /\ append'.n = n
        /\ append' = Appends' /\ append'.inum \in Inodes /\ append'.n \in Nat /\ append'.p \in Nat
    BY <1>2, <1>4, <2>1, AppendBegun
  <2>3. MkfsTypes'
    BY <1>0, <1>1, <2>1, <2>2 DEF MkfsTypes
  <2>4. Pending'
    <3>1. ASSUME NEW m \in 1 .. n PROVE append'.units[0 + m] = Expect(i, done + m - 1)
      <4>1. 0 + m = m /\ (done + m - 1) + 1 = done + m
        BY <1>2, <1>4
      <4>2. append'.units[m] = <<i, done + m>>
        BY <2>2
      <4>3. i # ROOTINO
        BY <1>1, <1>2
      <4> QED BY <4>1, <4>2, <4>3 DEF Expect
    <3>2. i < freeinode /\ dinode'[i].size = done
      BY <1>0, <1>1, <1>2
    <3>3. \A m \in 1 .. append'.n : append'.units[append'.p + m] = Expect(append'.inum, dinode'[append'.inum].size + m - 1)
      BY <2>2, <3>1, <3>2
    <3>4. append'.inum < freeinode'
      BY <1>0, <2>2, <3>2
    <3> QED BY <3>3, <3>4 DEF Pending
  <2>5. MainAt'
    <3>1. Length(ROOTINO)' = freeinode
      BY <1>0, <1>1, <1>2, <2>2 DEF Length
    <3>2. ASSUME NEW j \in 2 .. freeinode - 2 PROVE Length(j)' = given[j - 1]
      <4>1. j # i
        BY <1>0, <1>1
      <4>2. dinode[j].size \in Nat /\ dinode[j].size = given[j - 1]
        BY <1>1, <1>2
      <4>3. Length(j)' = dinode[j].size
        BY <1>0, <2>2, <4>1, <4>2 DEF Length
      <4> QED BY <4>2, <4>3
    <3>3. Length(freeinode - 1)' <= given[argn]
      <4>1. Length(freeinode - 1)' = done + n
        BY <1>0, <2>2 DEF Length
      <4> QED BY <1>2, <1>3, <1>4, <4>1
    <3> QED BY <1>0, <1>1, <1>2, <1>6, <2>1, <3>1, <3>2, <3>3 DEF MainAt
  <2>6. mkpc' = "data"
    BY <1>1, <2>1
  <2> QED BY <1>5, <2>3, <2>4, <2>5, <2>6, ImageLater DEF MkInv, TextOk
<1>8. CASE n = 0
  <2>1. argn' = argn + 1 /\ mkpc' = "file" /\ append' = append
    BY <1>0, <1>4, <1>8
  <2>2. MkfsTypes'
    <3>1. append' = Appends'
      BY <1>1, <2>1 DEF MkfsTypes, Appends
    <3>2. argn' \in Nat \ {0}
      BY <1>1, <2>1
    <3> QED BY <1>0, <1>1, <2>1, <3>1, <3>2 DEF MkfsTypes
  <2>3. Pending'
    BY <1>1, <2>1 DEF Pending
  <2>4. MainAt'
    <3>1. ASSUME NEW j \in Inodes PROVE Length(j)' = dinode[j].size
      BY <1>0, <1>1, <2>1, <3>1 DEF Length
    <3>2. Length(ROOTINO)' = freeinode
      BY <1>1, <1>2, <3>1
    <3>3. ASSUME NEW j \in 2 .. freeinode - 1 PROVE Length(j)' = given[j - 1]
      <4>1. CASE j = i
        <5>1. j - 1 = argn
          BY <1>1, <1>2, <4>1
        <5> QED BY <1>0, <1>2, <1>4, <1>8, <3>1, <4>1, <5>1
      <4>2. CASE j # i
        <5>1. j \in 2 .. freeinode - 2
          BY <1>0, <1>1, <1>2, <4>2
        <5> QED BY <1>2, <3>1, <5>1
      <4> QED BY <4>1, <4>2
    <3>4. argn + 1 <= Len(given) + 1 /\ freeinode = argn + 1 + 1
      BY <1>1, <1>2
    <3> QED BY <1>0, <1>6, <2>1, <3>2, <3>3, <3>4 DEF MainAt
  <2> QED BY <1>5, <2>1, <2>2, <2>3, <2>4, ImageLater DEF MkInv, TextOk
<1> QED BY <1>4, <1>7, <1>8

LEMMA AbortStep == ASSUME MkInv, aborts PROVE MkInv'
BY ImageLater DEF aborts, MkInv, Working

\* What is written can be read where the kernel looks for it.
LEMMA UnitRight ==
    ASSUME MkfsTypes, TextOk, NEW i \in Inodes, NEW n \in Nat, n < dinode[i].size
    PROVE  Unit(i, n) = Expect(i, n)
<1> DEFINE s == dinode[i].size
           k == Row(n)
           j == Col(n) + 1
<1>1. s \in Nat
  BY DEF MkfsTypes, InodeType
<1>2. /\ k \in Nat /\ Col(n) \in 0 .. BSIZE - 1 /\ j \in Column /\ j >= 1 /\ j \in Nat
      /\ Row(s) \in Nat /\ Col(s) \in Nat
  <2>1. k \in Nat /\ Col(n) \in Nat /\ Col(n) < BSIZE /\ j \in Column
    BY PlaceIn
  <2>2. Row(s) \in Nat /\ Col(s) \in Nat
    BY <1>1, PlaceIn
  <2>3. BSIZE \in Nat
    BY MkfsConstants
  <2> QED BY <2>1, <2>2, <2>3
<1>3. Unit(i, n) = sect[Addr(i, k)][j]
  BY DEF Unit, Row, Col
<1>4. Within(s, k, j) /\ Position(k, j) = n
  BY <1>1, BeforeEnd
<1> HIDE DEF k, j, s
<1>5. Within(s, k, 1)
  BY <1>2, <1>4 DEF Within
<1>6. k \in DataSlots /\ Addr(i, k) # 0
  BY <1>2, <1>5, MkfsConstants DEF TextOk, Covered, s, DataSlots
<1>7. sect[Addr(i, k)][j] = IF Within(s, k, j) THEN Expect(i, Position(k, j)) ELSE <<>>
  BY <1>2, <1>6 DEF TextOk, Written, s
<1> QED BY <1>3, <1>4, <1>7

\* The directory ends in the block where its entries end, or in one that is not there.
LEMMA RootRounded ==
    ASSUME MkfsTypes, TextOk, ROOTINO \in Inodes, NEW n \in Nat, n = dinode[ROOTINO].size, n <= NINODES
    PROVE  /\ RoundUp(n) \in Nat /\ RoundUp(n) >= n
           /\ \A m \in n .. RoundUp(n) - 1 :
                 IF Addr(ROOTINO, m \div BSIZE) = 0 THEN n % BSIZE = 0 /\ RoundUp(n) = n + BSIZE
                 ELSE Unit(ROOTINO, m) = <<>>
<1>1. /\ Row(n) \in Nat /\ Col(n) \in 0 .. BSIZE - 1 /\ n = Row(n) * BSIZE + Col(n) /\ BSIZE \in Nat
      /\ MAXFILE \in Nat /\ n < MAXFILE * BSIZE
  <2>1. NINODES < MAXFILE * BSIZE /\ MAXFILE \in Nat /\ BSIZE \in Nat /\ NINODES \in Nat
    BY MkfsConstants
  <2>2. MAXFILE * BSIZE \in Nat
    BY <2>1
  <2>3. n \in Nat
    BY DEF MkfsTypes, InodeType
  <2>4. Row(n) \in Nat /\ Col(n) \in 0 .. BSIZE - 1 /\ n = Row(n) * BSIZE + Col(n)
    BY <2>3, RowCol
  <2>5. n < MAXFILE * BSIZE
    BY <2>1, <2>2, <2>3
  <2> QED BY <2>1, <2>4, <2>5
<1>2. PICK P \in Nat : P = Row(n) * BSIZE
  BY <1>1
<1>3. RoundUp(n) = P + BSIZE
  BY <1>1, <1>2 DEF RoundUp, Row
<1>4. n = P + Col(n)
  BY <1>1, <1>2
<1>5. RoundUp(n) \in Nat /\ RoundUp(n) >= n
  BY <1>1, <1>3, <1>4
<1>6. Row(n) < MAXFILE
  <2>1. PICK Q \in Nat : Q = MAXFILE * BSIZE
    BY <1>1
  <2>2. CASE MAXFILE < Row(n)
    <3>1. MAXFILE * BSIZE + BSIZE <= Row(n) * BSIZE
      BY <1>1, <2>2, NextRow
    <3>2. Q + BSIZE <= P /\ n < Q
      BY <1>1, <1>2, <2>1, <3>1
    <3> QED BY <1>1, <1>4, <3>2
  <2>3. CASE MAXFILE = Row(n)
    <3>1. Q = P /\ n < Q
      BY <1>1, <1>2, <2>1, <2>3
    <3> QED BY <1>1, <1>4, <3>1
  <2> QED BY <1>1, <2>2, <2>3
<1> SUFFICES ASSUME NEW m \in n .. RoundUp(n) - 1
             PROVE  IF Addr(ROOTINO, m \div BSIZE) = 0 THEN n % BSIZE = 0 /\ RoundUp(n) = n + BSIZE
                    ELSE Unit(ROOTINO, m) = <<>>
  BY <1>5
<1>7. m \in Nat /\ m >= n /\ m < P + BSIZE
  BY <1>3, <1>5
<1>8. Row(m) = Row(n)
  <2>1. Row(m) \in Nat /\ Col(m) \in 0 .. BSIZE - 1 /\ m = Row(m) * BSIZE + Col(m)
    BY <1>7, RowCol
  <2>2. PICK R \in Nat : R = Row(m) * BSIZE
    BY <1>1, <2>1
  <2>3. m = R + Col(m)
    BY <2>1, <2>2
  <2>4. CASE Row(m) < Row(n)
    <3>1. R + BSIZE <= P
      BY <1>1, <1>2, <2>1, <2>2, <2>4, NextRow
    <3> QED BY <1>1, <1>4, <1>7, <2>1, <2>3, <3>1
  <2>5. CASE Row(n) < Row(m)
    <3>1. P + BSIZE <= R
      BY <1>1, <1>2, <2>1, <2>2, <2>5, NextRow
    <3> QED BY <1>1, <1>4, <1>7, <2>1, <2>3, <3>1
  <2> QED BY <1>1, <2>1, <2>4, <2>5
<1>9. m \div BSIZE = Row(n)
  BY <1>8 DEF Row
<1>10. Row(n) \in DataSlots
  BY <1>1, <1>6 DEF DataSlots
<1>11. CASE Addr(ROOTINO, Row(n)) = 0
  <2>1. ~Within(n, Row(n), 1)
    BY <1>1, <1>11 DEF TextOk, Covered
  <2>2. Col(n) = 0
    BY <1>1, <2>1 DEF Within
  <2>3. n % BSIZE = 0
    BY <2>2 DEF Col
  <2> QED BY <1>3, <1>4, <1>9, <1>11, <2>2, <2>3
<1>12. CASE Addr(ROOTINO, Row(n)) # 0
  <2>1. Col(m) + 1 \in Column
    BY <1>7, PlaceIn
  <2>2. ~Within(n, Row(m), Col(m) + 1)
    BY <1>7, BeforeEnd
  <2>3. Unit(ROOTINO, m) = sect[Addr(ROOTINO, Row(n))][Col(m) + 1]
    BY <1>9 DEF Unit, Col
  <2>4. sect[Addr(ROOTINO, Row(n))][Col(m) + 1] = <<>>
    BY <1>8, <1>10, <1>12, <2>1, <2>2 DEF TextOk, Written
  <2> QED BY <1>9, <1>12, <2>3, <2>4
<1> QED BY <1>11, <1>12

LEMMA FinishStep == ASSUME MkInv, finish PROVE MkInv'
<1>0. PICK s, f : /\ s = dinode[ROOTINO].size /\ f = freeinode
                  /\ Reached("file") /\ argn > Len(given)
                  /\ mkpc' = (IF freeblock < BPB THEN "done" ELSE "aborted")
                  /\ dinode' = [dinode EXCEPT ![ROOTINO] = [dinode[ROOTINO] EXCEPT !.size = RoundUp(s)]]
                  /\ bitmap' = (IF freeblock < BPB THEN balloc(freeblock) ELSE bitmap)
                  /\ UNCHANGED <<argn, append, sect, freeinode, freeblock, given>>
  BY DEF finish
<1>1. /\ MkfsTypes /\ TreeOk /\ TextOk /\ MainAt /\ mkpc = "file" /\ append.n = 0
      /\ argn \in Nat \ {0} /\ freeinode \in 1 .. NINODES
      /\ \A j \in Inodes : dinode[j].size \in Nat /\ Length(j) = dinode[j].size
      /\ given \in Seq(Nat) /\ Len(given) \in Nat /\ NINODES \in Nat /\ ROOTINO = 1
  BY <1>0, MainHere, MkfsConstants, LenProperties
<1>2. CASE mkpc' # "done"
  <2>1. mkpc' = "aborted"
    BY <1>0, <1>2
  <2> QED BY <2>1, ImageLater DEF MkInv, Working
<1>3. CASE mkpc' = "done"
  <2>1. bitmap' = 0 .. freeblock - 1
    BY <1>0, <1>3 DEF balloc
  <2>2. /\ f = Len(given) + 2 /\ f \in Nat /\ f <= NINODES /\ 1 \in Inodes /\ s = f
        /\ \A i \in 2 .. f - 1 : dinode[i].size = given[i - 1]
        /\ \A i \in 1 .. f - 1 : i \in Inodes
    <3>1. /\ argn <= Len(given) + 1 /\ freeinode = argn + 1 /\ Length(ROOTINO) = freeinode
          /\ \A i \in 2 .. freeinode - 1 : Length(i) = given[i - 1]
      BY <1>1 DEF MainAt
    <3>2. f = Len(given) + 2 /\ f \in Nat /\ f <= NINODES
      BY <1>0, <1>1, <3>1
    <3>3. 1 \in Inodes /\ \A i \in 1 .. f - 1 : i \in Inodes
      BY <1>1, <3>2 DEF Inodes
    <3>4. s = f
      BY <1>0, <1>1, <3>1, <3>3
    <3>5. \A i \in 2 .. f - 1 : i \in 1 .. f - 1
      BY <3>2
    <3> QED BY <1>0, <1>1, <3>1, <3>2, <3>3, <3>4, <3>5
  <2>3. /\ RoundUp(f) \in Nat /\ RoundUp(f) >= f
        /\ \A m \in f .. RoundUp(f) - 1 :
              IF Addr(ROOTINO, m \div BSIZE) = 0 THEN f % BSIZE = 0 /\ RoundUp(f) = f + BSIZE
              ELSE Unit(ROOTINO, m) = <<>>
    BY <1>0, <1>1, <2>2, RootRounded
  <2>4. /\ \A i \in Inodes : dinode'[i].addrs = dinode[i].addrs
        /\ dinode'[1].size = RoundUp(f) /\ \A i \in Inodes \ {1} : dinode'[i].size = dinode[i].size
    <3> DEFINE node == [dinode[1] EXCEPT !.size = RoundUp(f)]
    <3>1. dinode \in [Inodes -> InodeType] /\ dinode[1] \in InodeType
      BY <1>1, <2>2 DEF MkfsTypes
    <3>2. node.size = RoundUp(f) /\ node.addrs = dinode[1].addrs
      BY <3>1 DEF InodeType
    <3>3. dinode' = [dinode EXCEPT ![1] = node]
      BY <1>0, <1>1, <2>2
    <3> HIDE DEF node
    <3>4. dinode'[1] = node /\ \A i \in Inodes \ {1} : dinode'[i] = dinode[i]
      BY <2>2, <3>1, <3>3
    <3> QED BY <3>2, <3>4
  <2>5. /\ \A i \in Inodes : \A k : Addr(i, k)' = Addr(i, k)
        /\ \A i \in Inodes : \A n : Unit(i, n)' = Unit(i, n)
    <3>1. \A i \in Inodes : \A k : Addr(i, k)' = Addr(i, k)
      BY <1>0, <2>4 DEF Addr
    <3> QED BY <1>0, <3>1 DEF Unit
  <2>6. Used' = 1 .. f - 1
    BY <1>0, <1>1 DEF Used
  <2>7. ImageMarked'
    <3>1. freeblock \in Nat /\ nmeta \in Nat /\ nmeta >= 2 /\ nmeta <= freeblock /\ freeblock <= FSSIZE /\ FSSIZE \in Nat
      BY <1>1, MkfsConstants DEF MkfsTypes
    <3>2. {Addr(i, k)' : i \in 1 .. f - 1, k \in Slots} \ {0} = nmeta .. freeblock - 1
      <4>1. ASSUME NEW b \in nmeta .. freeblock - 1
            PROVE  b \in {Addr(i, k)' : i \in 1 .. f - 1, k \in Slots} \ {0}
        <5>1. PICK i \in Inodes, k \in Slots : i < freeinode /\ Addr(i, k) = b
          BY <1>1 DEF TreeOk, NoneLost
        <5>2. i \in 1 .. f - 1
          BY <1>0, <1>1, <2>2, <5>1 DEF Inodes
        <5>3. b # 0
          BY <3>1
        <5> QED BY <2>5, <5>1, <5>2, <5>3
      <4>2. ASSUME NEW i \in 1 .. f - 1, NEW k \in Slots, Addr(i, k)' # 0
            PROVE  Addr(i, k)' \in nmeta .. freeblock - 1
        BY <1>1, <2>2, <2>5, <4>2 DEF TreeOk, Placed
      <4> QED BY <4>1, <4>2
    <3>3. bitmap' = (0 .. nmeta - 1) \cup ({Addr(i, k)' : i \in 1 .. f - 1, k \in Slots} \ {0})
      <4>1. 0 .. freeblock - 1 = (0 .. nmeta - 1) \cup (nmeta .. freeblock - 1)
        BY <3>1
      <4> QED BY <2>1, <3>2, <4>1
    <3>4. bitmap' \subseteq 0 .. FSSIZE - 1
      BY <2>1, <3>1
    <3>5. \A i, j \in 1 .. f - 1, k, m \in Slots : Addr(i, k)' = Addr(j, m)' /\ Addr(i, k)' # 0 => i = j /\ k = m
      BY <1>1, <2>2, <2>5 DEF TreeOk, PlacedOnce
    <3> QED BY <2>6, <3>3, <3>4, <3>5 DEF ImageMarked, Slots
  <2>8. ImageWhole'
    <3>1. f = Len(given) + ROOTINO + 1
      BY <1>1, <2>2
    <3>2. ASSUME NEW i \in (1 .. f - 1) \ {1}
          PROVE  /\ dinode'[i].size = given[i - 1]
                 /\ \A n \in 0 .. dinode'[i].size - 1 : Unit(i, n)' = <<i, n + 1>>
      <4>1. i \in 2 .. f - 1 /\ i \in Inodes
        BY <2>2
      <4>2. dinode'[i].size = dinode[i].size /\ dinode[i].size = given[i - 1] /\ dinode[i].size \in Nat
        BY <1>1, <2>2, <2>4, <4>1
      <4>3. ASSUME NEW n \in 0 .. dinode[i].size - 1 PROVE Unit(i, n) = <<i, n + 1>>
        <5>1. n \in Nat /\ n < dinode[i].size
          BY <4>2
        <5>2. Unit(i, n) = Expect(i, n)
          BY <1>1, <4>1, <5>1, UnitRight
        <5> QED BY <1>1, <4>1, <5>2 DEF Expect
      <4> QED BY <2>5, <4>1, <4>2, <4>3
    <3>3. ASSUME NEW n \in 0 .. f - 1 PROVE Unit(1, n)' = Expect(1, n)
      <4>1. n \in Nat /\ n < dinode[1].size
        BY <1>0, <1>1, <2>2
      <4>2. Unit(1, n) = Expect(1, n)
        BY <1>1, <2>2, <4>1, UnitRight
      <4> QED BY <2>2, <2>5, <4>2
    <3>4. Unit(1, 0)' = <<".", 1>> /\ Unit(1, 1)' = <<"..", 1>>
      <4>1. 0 \in 0 .. f - 1 /\ 1 \in 0 .. f - 1
        BY <1>1, <2>2
      <4> QED BY <1>1, <3>3, <4>1 DEF Expect
    <3>5. ASSUME NEW k \in DOMAIN given PROVE Unit(1, k + 1)' = <<k, k + 1>>
      <4>1. k \in 1 .. Len(given)
        BY <1>1, LenProperties
      <4>2. k \in Nat /\ k + 1 \in 0 .. f - 1 /\ k + 1 # 0 /\ k + 1 # 1 /\ k + 1 - 1 = k
        BY <1>1, <2>2, <4>1
      <4>3. Unit(1, k + 1)' = Expect(1, k + 1)
        BY <3>3, <4>2
      <4> QED BY <1>1, <4>2, <4>3 DEF Expect
    <3>6. freeinode' = f /\ given' = given
      BY <1>0
    <3> QED BY <1>1, <2>6, <3>1, <3>2, <3>4, <3>5, <3>6 DEF ImageWhole
  <2>9. RootSize'
    <3>1. \A m \in f .. RoundUp(f) - 1 :
              IF Addr(1, m \div BSIZE)' = 0 THEN f % BSIZE = 0 /\ RoundUp(f) = f + BSIZE
              ELSE Unit(1, m)' = <<>>
      BY <1>1, <2>2, <2>3, <2>5
    <3>2. Len(given') + 2 = f
      BY <1>0, <2>2
    <3> QED BY <1>1, <2>3, <2>4, <3>1, <3>2 DEF RootSize
  <2>10. append'.n = 0
    BY <1>0, <1>1
  <2> QED BY <1>3, <2>7, <2>8, <2>9, <2>10 DEF MkInv, Working, ImageInv
<1> QED BY <1>2, <1>3

LEMMA MkfsStarts == MkfsInit => MkInv
<1> SUFFICES ASSUME MkfsInit PROVE MkInv
  OBVIOUS
<1> DEFINE node == [NewInode("NONE") EXCEPT !.nlink = 0]
<1>1. /\ given \in CommandLines /\ argn = 1 /\ mkpc = "root" /\ append = iappend(ROOTINO, <<>>, 0)
      /\ dinode = [i \in Inodes |-> node] /\ sect = [b \in nmeta .. FSSIZE - 1 |-> Zeroes]
      /\ freeinode = 1 /\ freeblock = nmeta
  BY DEF MkfsInit, ROOTINO, Inodes
<1>2. node \in InodeType /\ node.size = 0 /\ \A k \in 0 .. NDIRECT : node.addrs[k] = 0
  BY DEF NewInode, InodeType
<1> HIDE DEF node
<1>3. NINODES \in Nat /\ NINODES > 1 /\ 1 \in Inodes
  <2>1. given \in Seq(Nat) /\ Len(given) + ROOTINO < NINODES /\ NINODES \in Nat /\ ROOTINO = 1
    BY <1>1, MkfsConstants
  <2>2. Len(given) \in Nat
    BY <2>1, LenProperties
  <2> QED BY <2>1, <2>2 DEF Inodes
<1>4. /\ append.inum = 1 /\ append.n = 0 /\ append.p = 0 /\ append = Appends
  <2>1. append = [inum |-> 1, units |-> <<>>, p |-> 0, n |-> 0]
    BY <1>1 DEF iappend, ROOTINO
  <2> QED BY <2>1 DEF Appends
<1>5. MkfsTypes
  BY <1>1, <1>2, <1>3, <1>4, MkfsConstants DEF MkfsTypes
<1>6. \A i \in Inodes, k \in Slots : Addr(i, k) = 0
  <2> SUFFICES ASSUME NEW i \in Inodes, NEW k \in Slots PROVE Addr(i, k) = 0
    OBVIOUS
  <2>1. \A m \in 0 .. NDIRECT : dinode[i].addrs[m] = 0
    BY <1>1, <1>2
  <2>2. /\ NDIRECT \in 0 .. NDIRECT
        /\ (k \in DataSlots /\ k < NDIRECT /\ k \in 0 .. NDIRECT) \/ k = MAXFILE \/ (k \in DataSlots /\ k >= NDIRECT)
    BY MkfsConstants DEF Slots, DataSlots
  <2> QED BY <2>1, <2>2, AddrIs
<1>7. \A i \in Inodes : dinode[i].size = 0
  BY <1>1, <1>2
<1>8. MAXFILE \in Slots /\ DataSlots \subseteq Slots /\ nmeta \in Nat
  BY MkfsConstants DEF Slots, DataSlots
<1>9. Placed /\ PlacedOnce /\ Indirects
  BY <1>6, <1>8 DEF Placed, PlacedOnce, Indirects
<1>10. NoneLost
  BY <1>1, <1>8 DEF NoneLost
<1>11. Unused
  BY <1>1, <1>6, <1>7 DEF Unused
<1>12. Written
  BY <1>6, <1>8 DEF Written
<1>13. Covered
  <2> SUFFICES ASSUME NEW i \in Inodes, NEW k \in Nat, Within(0, k, 1) PROVE FALSE
    BY <1>7 DEF Covered
  <2>1. Row(0) = 0 /\ Col(0) = 0
    <3>1. 0 \in Nat /\ 0 \in 0 .. BSIZE - 1 /\ 0 = 0 * BSIZE + 0
      BY MkfsConstants
    <3> QED BY <3>1, RowColUnique
  <2> QED BY <2>1 DEF Within
<1>14. Pending /\ MainAt
  BY <1>1, <1>4 DEF Pending, MainAt
<1>15. ImageInv
  BY <1>1 DEF ImageInv, ImageMarked, ImageWhole, RootSize
<1> QED BY <1>1, <1>4, <1>5, <1>9, <1>10, <1>11, <1>12, <1>13, <1>14, <1>15 DEF MkInv, TreeOk, TextOk

LEMMA MkfsStays == ASSUME MkInv, UNCHANGED mkfsVars PROVE MkInv'
<1>1. UNCHANGED <<argn, mkpc, append, dinode, sect, freeinode, freeblock, bitmap, given>>
  BY DEF mkfsVars
<1>2. /\ mkpc' \in {"root", "dots", "file", "data", "done", "aborted"}
      /\ mkpc' = "done" => append'.n = 0
  BY <1>1 DEF MkInv
<1>3. ASSUME Working' PROVE MkfsTypes' /\ TreeOk' /\ TextOk' /\ MainAt'
  <2>1. MkfsTypes /\ TreeOk /\ TextOk /\ MainAt
    BY <1>1, <1>3 DEF MkInv, Working
  <2>2. TreeOk' /\ Written' /\ Covered'
    BY <1>1, <2>1, SameFiles
  <2>3. MkfsTypes'
    BY <1>1, <2>1 DEF MkfsTypes, Appends
  <2>4. Pending'
    BY <1>1, <2>1 DEF TextOk, Pending
  <2>5. MainAt'
    <3>1. \A i : Length(i)' = Length(i)
      BY <1>1 DEF Length
    <3> QED BY <1>1, <2>1, <3>1 DEF MainAt
  <2> QED BY <2>2, <2>3, <2>4, <2>5 DEF TextOk
<1>4. ImageInv'
  <2>1. ImageMarked /\ ImageWhole /\ RootSize
    BY DEF MkInv, ImageInv
  <2>2. \A i, k : Addr(i, k)' = Addr(i, k)
    BY <1>1 DEF Addr
  <2>3. \A i, n : Unit(i, n)' = Unit(i, n)
    BY <1>1, <2>2 DEF Unit
  <2>4. ImageMarked'
    BY <1>1, <2>1, <2>2 DEF ImageMarked, Used
  <2>5. ImageWhole'
    BY <1>1, <2>1, <2>3 DEF ImageWhole, Used
  <2>6. RootSize'
    BY <1>1, <2>1, <2>2, <2>3 DEF RootSize
  <2> QED BY <2>4, <2>5, <2>6 DEF ImageInv
<1> QED BY <1>2, <1>3, <1>4 DEF MkInv

\* mkfs: whatever files it is given, when it has not given up every file is on the
\* image as it was, the directory has them all, every block has one place and the
\* bitmap marks what is taken (ImageInv).
THEOREM ImageIsWhole == MkfsSpec => []ImageInv
<1>1. MkInv /\ [MkfsNext]_mkfsVars => MkInv'
  BY AddressSaved, UnitsCopied, AbortStep, RootStep, DotsStep, FileStep, ReadStep, FinishStep, MkfsStays DEF MkfsNext
<1>2. MkInv => ImageInv
  BY DEF MkInv
<1> QED BY <1>1, <1>2, MkfsStarts, PTL DEF MkfsSpec
=============================================================================
