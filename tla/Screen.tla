------------------------------- MODULE Screen -------------------------------
(***************************************************************************)
(* The text screen behind the console (console.c): the cursor lives in two *)
(* registers of the CRT controller that are reached through one index port *)
(* and one data port, so that reading or moving it takes four port         *)
(* accesses, each of them a step here.  cgaputc() reads the cursor,        *)
(* computes and moves it; getCursorPos(), setCursorPos() and clearScreen() *)
(* do one half of that.  The cells of the screen are left out.             *)
(***************************************************************************)
EXTENDS Integers

CONSTANTS Actor,        \* who can be inside these functions
          ROWS, COLS,   \* 25 and 80
          TABW,         \* 4
          BYTE          \* values of a register, 256

\* The two registers hold every position.
ASSUME ScreenAssumption == /\ ROWS \in Nat \ {0} /\ COLS \in Nat \ {0}
                           /\ TABW \in Nat \ {0} /\ BYTE \in Nat \ {0, 1}
                           /\ ROWS * COLS <= BYTE * BYTE

VARIABLES idx,        \* the index register: 14 or 15
          reg,        \* registers 14 and 15
          port,         \* where each actor is in the port accesses of a call
          panicked,
          cur,        \* history: the cursor if calls did not overlap
          last,       \* history: who made the last call
          marks       \* history: "raced", a call without cons.lock overlapped
                      \* another; "mixed", it put a character where another
                      \* actor had left the cursor; "tabbed", a tab crossed the last cell;
                      \* "scrolled", a call without cons.lock scrolled the screen

screenVars == <<idx, reg, port, panicked, cur, last, marks>>

CELLS == ROWS * COLS
Idle == [at |-> 0, call |-> "none", c |-> "none", locked |-> FALSE, pos |-> 0]
Outside(a) == port[a].at = 0

ScreenInit == /\ idx = 15 /\ reg = [i \in {14, 15} |-> 0]
              /\ port = [a \in Actor |-> Idle]
              /\ panicked = FALSE /\ cur = 0 /\ last = "fg" /\ marks = {}

\* Two calls overlap and one of them is made without cons.lock.
Overlap(a, locked) == \E b \in Actor \ {a} : ~Outside(b) /\ ~(locked /\ port[b].locked)

\* Actor a enters a call at the given port access.
Enter(a, call, at, c, pos, locked) ==
    /\ Outside(a)
    /\ port' = [port EXCEPT ![a] = [at |-> at, call |-> call, c |-> c, locked |-> locked, pos |-> pos]]
    /\ marks' = marks \cup (IF Overlap(a, locked) THEN {"raced"} ELSE {})
                     \cup (IF call = "put" /\ ~locked /\ last # a THEN {"mixed"} ELSE {})
    /\ last' = a
    /\ UNCHANGED <<idx, reg, panicked, cur>>

\* cgaputc(), getCursorPos(), setCursorPos() and clearScreen(); a position that
\* is not on the screen is a panic.
cgaputc(a, c, locked) == Enter(a, "put", 1, c, 0, locked)
getCursorPos(a) == Enter(a, "get", 1, "none", 0, FALSE)
setCursorPos(a, pos) == IF pos < CELLS THEN Enter(a, "set", 5, "none", pos, FALSE)
                        ELSE Outside(a) /\ panicked' = TRUE /\ UNCHANGED <<idx, reg, port, cur, last, marks>>

\* The position after character c is put at pos, before the bounds are looked at.
Advance(c, pos) == CASE c = "nl" -> pos + COLS - (pos % COLS)
                     [] c = "backspace" -> IF pos > 0 THEN pos - 1 ELSE 0
                     [] c = "tab" -> pos + TABW
                     [] OTHER -> pos + 1

\* Mutant of ScrollUp: the test of the original 24-line screen with the new bound.
ScrollUpLate(pos) == IF pos \div COLS > ROWS THEN pos - COLS ELSE pos

\* Scroll when the position is past the last line.
ScrollUp(pos) == IF pos \div COLS > ROWS - 1 THEN pos - COLS ELSE pos

OutOfScreen(pos) == pos > CELLS

\* The fourth port access ends getCursorPos(); cgaputc() computes and goes on.
GotPos(a, pos) ==
    IF port[a].call = "get"
    THEN /\ port' = [port EXCEPT ![a].at = 0, ![a].pos = pos]
         /\ UNCHANGED <<panicked, marks>>
    ELSE LET new == Advance(port[a].c, pos)
         IN  /\ panicked' = OutOfScreen(new)
             /\ port' = [port EXCEPT ![a].at = 5, ![a].pos = ScrollUp(new)]
             /\ marks' = marks
                  \cup (IF port[a].c = "tab" /\ new >= CELLS THEN {"tabbed"} ELSE {})
                  \cup (IF ~port[a].locked /\ ScrollUp(new) # new THEN {"scrolled"} ELSE {})

\* One port access of actor a: outb(CRTPORT, 14) first, then the data port,
\* outb(CRTPORT, 15), the data port; once to read, once to write.
Access(a) ==
    /\ ~panicked /\ ~Outside(a)
    /\ LET o == port[a]
           go == [port EXCEPT ![a].at = o.at + 1]
           same == UNCHANGED <<panicked, cur, marks>>
       IN  \/ /\ o.at \in {1, 5} /\ idx' = 14 /\ port' = go /\ same /\ UNCHANGED reg
           \/ /\ o.at \in {3, 7} /\ idx' = 15 /\ port' = go /\ same /\ UNCHANGED reg
           \/ /\ o.at = 2 /\ port' = [go EXCEPT ![a].pos = reg[idx] * BYTE] /\ same /\ UNCHANGED <<idx, reg>>
           \/ /\ o.at = 4 /\ GotPos(a, o.pos + reg[idx]) /\ UNCHANGED <<idx, reg, cur>>
           \/ /\ o.at = 6 /\ reg' = [reg EXCEPT ![idx] = o.pos \div BYTE] /\ port' = go /\ same /\ UNCHANGED idx
           \/ /\ o.at = 8 /\ reg' = [reg EXCEPT ![idx] = o.pos % BYTE]
              /\ port' = [port EXCEPT ![a] = Idle] /\ cur' = o.pos
              /\ UNCHANGED <<idx, panicked, marks>>
    /\ UNCHANGED last

\* What the next call would read.
Cursor == reg[14] * BYTE + reg[15]
=============================================================================
