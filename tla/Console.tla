------------------------------ MODULE Console -------------------------------
(***************************************************************************)
(* The console (console.c) with the two switches and the screen calls that *)
(* were added for vi: the keyboard interrupt fills a ring of characters    *)
(* that can be edited until they are committed, and a foreground process   *)
(* (the shell, or a vi it started and waits for) reads committed           *)
(* characters and prints.  cons.lock covers the ring and the output of     *)
(* characters; the switches and the screen calls of vi take no lock.  Port *)
(* accesses are those of Screen.                                           *)
(***************************************************************************)
EXTENDS Screen, Sequences, FiniteSetsExt

CONSTANTS INPUT_BUF, ReadSize,
          Keys,            \* what is typed: P, U, H, D stand for the control keys
          Chars,           \* what vi draws
          MaxKeys, MaxVi   \* bounds on the keys typed and on the editing sessions

ASSUME ConsoleAssumption == /\ Actor = {"intr", "fg"}
                            /\ INPUT_BUF \in Nat \ {0} /\ ReadSize \in Nat \ {0}

VARIABLES buf, r, w, e,           \* struct input
          bufferFlag, showAtonce,
          consLock,                   \* holder of cons.lock
          intr, doprocdump,       \* the interrupt handler: where it is, its local
          fg, read,               \* the foreground process: where it is, and in consoleread()
          want, left,             \* the current consoleread(): target and n
          saved,                  \* pos of printOnStatusLine()
          killed,                 \* proc->killed of the editor
          committed,              \* history: characters in the order w passed them
          zeros,                  \* history: reads that returned 0
          keys, sessions,         \* history: counts against the bounds
          viKilled,               \* history: an editor was killed
          ahead                   \* history: input not committed when vi set the switches

ringVars == <<buf, r, w, e, committed>>
flagVars == <<bufferFlag, showAtonce>>
intrVars == <<intr, doprocdump, keys>>
fgVars == <<fg, read, want, left, saved, killed, zeros, sessions, viKilled, ahead>>
vars == <<screenVars, ringVars, flagVars, consLock, intrVars, fgVars>>

Init == /\ ScreenInit
        /\ buf = [i \in 0..(INPUT_BUF - 1) |-> "none"] /\ r = 0 /\ w = 0 /\ e = 0
        /\ bufferFlag = 1 /\ showAtonce = 1 /\ consLock = "none"
        /\ intr = "off" /\ doprocdump = FALSE /\ fg = "sh" /\ read = "no"
        /\ want = 0 /\ left = 0 /\ saved = 0 /\ killed = FALSE
        /\ committed = <<>> /\ zeros = 0 /\ keys = 0 /\ sessions = 0
        /\ viKilled = FALSE /\ ahead = FALSE

\* Mutant of acquireCons: the lock is not waited for.
acquireConsAtOnce(a) == consLock' = a

acquireCons(a) == consLock = "none" /\ consLock' = a
releaseCons(a) == consLock' = "none"

-----------------------------------------------------------------------------
(* consoleintr() *)

IntrEnter == /\ intr = "off" /\ keys < MaxKeys /\ acquireCons("intr")
             /\ intr' = "getc" /\ UNCHANGED <<screenVars, ringVars, flagVars, doprocdump, keys, fgVars>>

\* getc() returns -1: the lock is released, procdump() comes after that.
IntrLeave == /\ intr = "getc" /\ Outside("intr") /\ releaseCons("intr")
             /\ intr' = IF doprocdump THEN "dump" ELSE "off"
             /\ UNCHANGED <<screenVars, ringVars, flagVars, doprocdump, keys, fgVars>>

\* procdump() prints through cprintf(), which takes cons.lock.
Procdump == /\ intr = "dump" /\ acquireCons("intr") /\ cgaputc("intr", "a", TRUE) /\ intr' = "dumped"
            /\ doprocdump' = FALSE /\ UNCHANGED <<ringVars, flagVars, keys, fgVars>>
ProcdumpEnd == /\ intr = "dumped" /\ Outside("intr") /\ releaseCons("intr") /\ intr' = "off"
               /\ UNCHANGED <<screenVars, ringVars, flagVars, doprocdump, keys, fgVars>>

\* Mutant of CanErase: committed characters can be erased.
CanEraseCommitted(k) == e # r /\ (k = "U" => buf[(e - 1) % INPUT_BUF] # "nl")

\* The test of one round of ^U, and that of ^H.
CanErase(k) == e # w /\ (k = "U" => buf[(e - 1) % INPUT_BUF] # "nl")

Erase == /\ e' = e - 1 /\ cgaputc("intr", "backspace", TRUE)
         /\ UNCHANGED <<buf, r, w, committed>>

\* case C('U'), case C('H'): ^U goes round until it may not erase.
IntrErase(k) ==
    /\ \/ intr = "getc" /\ keys < MaxKeys /\ keys' = keys + 1
       \/ intr = "kill" /\ k = "U" /\ UNCHANGED keys
    /\ Outside("intr")
    /\ IF CanErase(k) THEN Erase ELSE UNCHANGED <<screenVars, ringVars>>
    /\ intr' = IF CanErase(k) /\ k = "U" THEN "kill" ELSE "getc"
    /\ UNCHANGED <<flagVars, consLock, doprocdump, fgVars>>

\* case C('P')
IntrDump == /\ intr = "getc" /\ Outside("intr") /\ keys < MaxKeys /\ keys' = keys + 1
            /\ doprocdump' = TRUE
            /\ UNCHANGED <<screenVars, ringVars, flagVars, consLock, intr, fgVars>>

\* Mutant of HasRoom: one character too many.
HasRoomOffByOne == e - r <= INPUT_BUF

HasRoom == e - r < INPUT_BUF

\* Mutant of Shown: characters are shown whatever the switch says.
ShownAlways == TRUE

Shown == showAtonce # 0

\* default: store the character and show it; without room it is dropped.
IntrStore(k) ==
    /\ intr = "getc" /\ Outside("intr") /\ keys < MaxKeys /\ keys' = keys + 1
    /\ IF HasRoom
       THEN /\ buf' = [buf EXCEPT ![e % INPUT_BUF] = k] /\ e' = e + 1 /\ intr' = "commit"
            /\ UNCHANGED <<r, w, committed>>
            /\ IF Shown THEN cgaputc("intr", k, TRUE) ELSE UNCHANGED screenVars
       ELSE UNCHANGED <<screenVars, ringVars, intr>>
    /\ UNCHANGED <<flagVars, consLock, doprocdump, fgVars>>

\* Does the character just stored commit the line?
Commits == LET c == buf[(e - 1) % INPUT_BUF]
           IN  bufferFlag = 0 \/ c \in {"nl", "D"} \/ e = r + INPUT_BUF

\* Mutant of WakeReader: no wakeup(&input.r).
WakeReaderNot == read

WakeReader == IF read = "asleep" THEN "try" ELSE read

\* input.w = input.e and wakeup(&input.r); bufferFlag is read only now.
IntrCommit ==
    /\ intr = "commit" /\ Outside("intr") /\ intr' = "getc"
    /\ IF Commits
       THEN /\ w' = e /\ read' = WakeReader
            /\ committed' = committed \o [i \in 1..(e - w) |-> buf[(w + i - 1) % INPUT_BUF]]
       ELSE UNCHANGED <<w, read, committed>>
    /\ UNCHANGED <<screenVars, buf, r, e, flagVars, consLock, doprocdump, keys>>
    /\ UNCHANGED <<fg, want, left, saved, killed, zeros, sessions, viKilled, ahead>>

Interrupt == \/ IntrEnter \/ IntrLeave \/ Procdump \/ ProcdumpEnd \/ IntrCommit
             \/ \E k \in Keys \cap {"U", "H"} : IntrErase(k)
             \/ "P" \in Keys /\ IntrDump
             \/ \E k \in Keys \ {"U", "H", "P"} : IntrStore(k)

-----------------------------------------------------------------------------
(* consoleread() by the foreground process *)

\* Where the foreground process goes when its read is over.
AfterRead == IF fg = "sh" THEN "sh" ELSE "v_get"

ReadCall(n) == /\ want' = n /\ left' = n /\ read' = "try"

ReadEnter == /\ read = "try" /\ acquireCons("fg") /\ read' = "in"
             /\ UNCHANGED <<screenVars, ringVars, flagVars, intrVars>>
             /\ UNCHANGED <<fg, want, left, saved, killed, zeros, sessions, viKilled, ahead>>

\* The read is over and had left still to go; result -1 ends the process.
Return(togo) == /\ read' = "no" /\ left' = togo /\ releaseCons("fg") /\ fg' = AfterRead
                /\ zeros' = IF togo = want THEN zeros + 1 ELSE zeros

\* Nothing committed: give up if killed, else sleep.
ReadWait == /\ read = "in" /\ r = w /\ releaseCons("fg")
            /\ IF killed THEN read' = "no" /\ fg' = AfterRead
                         ELSE read' = "asleep" /\ UNCHANGED fg
            /\ UNCHANGED <<screenVars, ringVars, flagVars, intrVars>>
            /\ UNCHANGED <<want, left, saved, killed, zeros, sessions, viKilled, ahead>>

\* Mutant of KeepEof: the ^D that ends a line is used up.
KeepEofNot == FALSE

\* ^D after other characters stays in the ring for the next read.
KeepEof == left < want

ReadChar ==
    /\ read = "in" /\ r # w
    /\ LET c == buf[r % INPUT_BUF]
       IN  CASE c = "D" -> /\ r' = IF KeepEof THEN r ELSE r + 1
                           /\ Return(left)
             [] c # "D" /\ (c = "nl" \/ left = 1) -> r' = r + 1 /\ Return(left - 1)
             [] OTHER -> /\ r' = r + 1 /\ left' = left - 1
                         /\ UNCHANGED <<read, consLock, fg, zeros>>
    /\ UNCHANGED <<screenVars, buf, w, e, committed, flagVars, intrVars>>
    /\ UNCHANGED <<want, saved, killed, sessions, viKilled, ahead>>

-----------------------------------------------------------------------------
(* The shell and the editor *)

fgRest == <<ringVars, intrVars, want, left, zeros>>
\* Inside copyFromTextToScreen(), which a kill does not end.
InCopy == fg \in {"v_copy", "v_copied", "r_copy", "r_copied"}
Ready(label) == fg = label /\ read = "no" /\ Outside("fg") /\ (killed => InCopy)

ShRead == /\ Ready("sh") /\ ReadCall(ReadSize)
          /\ UNCHANGED <<screenVars, ringVars, flagVars, consLock, intrVars>>
          /\ UNCHANGED <<fg, saved, killed, zeros, sessions, viKilled, ahead>>

ShStartVi == /\ Ready("sh") /\ sessions < MaxVi /\ sessions' = sessions + 1 /\ fg' = "v_clear"
             /\ UNCHANGED <<screenVars, fgRest, flagVars, consLock, read, saved, killed, viKilled, ahead>>

\* The calls of vi that only move the cursor: where they are made, to which
\* position, and what can come next.  v_: edit_file() and its loop; r_: redraw()
\* in that loop; q_: its end, which synchronize() comes before as after any key.
StatusLine == (ROWS - 1) * COLS
Move == [v_clear |-> <<{0}, {"v_origin"}>>, v_origin |-> <<{0}, {"v_copy"}>>,
         r_clear |-> <<{0}, {"r_origin"}>>, r_origin |-> <<{0}, {"r_copy"}>>,
         v_home |-> <<{0}, {"v_flag1"}>>, v_status |-> <<{StatusLine}, {"v_print"}>>,
         v_restore |-> <<{saved}, {"v_cmd"}>>,
         v_sync |-> <<0..(StatusLine - 1), {"v_read", "q_flag1"}>>,
         q_clear |-> <<{0}, {"q_home"}>>, q_home |-> <<{0}, {"sh"}>>]

ViMove == \E l \in DOMAIN Move :
    /\ Ready(l) /\ \E pos \in Move[l][1] : setCursorPos("fg", pos)
    /\ fg' \in Move[l][2]
    /\ UNCHANGED <<fgRest, flagVars, consLock, read, saved, killed, sessions, viKilled, ahead>>

\* Mutant of CopyEnds: the last cell is filled too.
CopyEndsLate(pos, c) == pos >= (ROWS - 1) * COLS /\ c = "nl"

\* copyFromTextToScreen() stops before the screen would scroll.
CopyEnds(pos, c) == pos = CELLS - 1 \/ (pos >= (ROWS - 1) * COLS /\ c = "nl")

\* Next character of the text, or its end; the first redraw comes before the switches.
ViCopy == /\ Ready("v_copy") \/ Ready("r_copy")
          /\ \/ \E c \in Chars : /\ ~CopyEnds(port["fg"].pos, c)
                                 /\ cgaputc("fg", c, FALSE)
                                 /\ fg' = IF fg = "v_copy" THEN "v_copied" ELSE "r_copied"
             \/ /\ fg' = IF fg = "v_copy" THEN "v_home" ELSE "v_sync"
                /\ UNCHANGED screenVars
          /\ UNCHANGED <<fgRest, flagVars, consLock, read, saved, killed, sessions, viKilled, ahead>>

\* getCursorPos(), in the copying loop and in printOnStatusLine().
ViGet == /\ \/ Ready("v_copied") /\ fg' = "v_copy"
            \/ Ready("r_copied") /\ fg' = "r_copy"
            \/ Ready("v_get") /\ fg' = "v_got"
         /\ getCursorPos("fg")
         /\ UNCHANGED <<fgRest, flagVars, consLock, read, saved, killed, sessions, viKilled, ahead>>
ViGot == /\ Ready("v_got") /\ saved' = port["fg"].pos /\ fg' = "v_status"
         /\ UNCHANGED <<screenVars, fgRest, flagVars, consLock, read, killed, sessions, viKilled, ahead>>

\* The text of the status line goes through consolewrite().
ViPrint == /\ Ready("v_print") /\ acquireCons("fg") /\ cgaputc("fg", "a", TRUE) /\ fg' = "v_printed"
           /\ UNCHANGED <<fgRest, flagVars, read, saved, killed, sessions, viKilled, ahead>>
ViPrinted == /\ fg = "v_printed" /\ Outside("fg") /\ releaseCons("fg") /\ fg' = "v_restore"
             /\ UNCHANGED <<screenVars, fgRest, flagVars, read, saved, killed, sessions, viKilled, ahead>>

\* Mutant of ViFlag: vi does not switch the echo on again.
ViFlagForgets ==
    /\ \/ Ready("v_flag1") /\ bufferFlag' = 0 /\ fg' = "v_flag2" /\ UNCHANGED <<showAtonce, ahead>>
       \/ /\ Ready("v_flag2") /\ showAtonce' = 0 /\ fg' = "v_read" /\ UNCHANGED bufferFlag
          /\ ahead' = (e # w \/ ~Outside("intr"))
       \/ Ready("q_flag1") /\ bufferFlag' = 1 /\ fg' = "q_clear" /\ UNCHANGED <<showAtonce, ahead>>
    /\ UNCHANGED <<screenVars, fgRest, consLock, read, saved, killed, sessions, viKilled>>

\* setBufferFlag() and setShowAtOnce(), at the start and at the end.
ViFlag ==
    /\ \/ Ready("v_flag1") /\ bufferFlag' = 0 /\ fg' = "v_flag2" /\ UNCHANGED <<showAtonce, ahead>>
       \/ /\ Ready("v_flag2") /\ showAtonce' = 0 /\ fg' = "v_read" /\ UNCHANGED bufferFlag
          /\ ahead' = (e # w \/ ~Outside("intr"))
       \/ Ready("q_flag1") /\ bufferFlag' = 1 /\ fg' = "q_flag2" /\ UNCHANGED <<showAtonce, ahead>>
       \/ Ready("q_flag2") /\ showAtonce' = 1 /\ fg' = "q_clear" /\ UNCHANGED <<bufferFlag, ahead>>
    /\ UNCHANGED <<screenVars, fgRest, consLock, read, saved, killed, sessions, viKilled>>

ViRead == /\ Ready("v_read") /\ ReadCall(1)
          /\ UNCHANGED <<screenVars, ringVars, flagVars, consLock, intrVars>>
          /\ UNCHANGED <<fg, saved, killed, zeros, sessions, viKilled, ahead>>

\* doCmd() and synchronize(): redraw the screen or only move the cursor.
ViCommand == /\ Ready("v_cmd") /\ fg' \in {"r_clear", "v_sync"}
             /\ UNCHANGED <<screenVars, fgRest, flagVars, consLock, read, saved, killed, sessions, viKilled, ahead>>

Vi == ViMove \/ ViCopy \/ ViGet \/ ViGot \/ ViPrint \/ ViPrinted \/ ViFlag \/ ViRead \/ ViCommand

\* kill(): proc->killed, and a sleeping process becomes runnable.
Kill == /\ fg # "sh" /\ ~killed /\ killed' = TRUE
        /\ read' = WakeReader
        /\ UNCHANGED <<screenVars, fgRest, flagVars, consLock, fg, saved, sessions, viKilled, ahead>>

\* A killed editor exits at its next return from a system call.
Die == /\ killed /\ read = "no" /\ Outside("fg") /\ fg # "v_printed" /\ ~InCopy
       /\ fg' = "sh" /\ killed' = FALSE /\ viKilled' = TRUE
       /\ UNCHANGED <<screenVars, fgRest, flagVars, consLock, read, saved, sessions, ahead>>

Next == /\ ~panicked
        /\ \/ Interrupt \/ Vi \/ Kill \/ Die
           \/ ShRead \/ ShStartVi \/ ReadEnter \/ ReadWait \/ ReadChar
           \/ \E a \in Actor : /\ Access(a)
                               /\ UNCHANGED <<ringVars, flagVars, consLock, intrVars, fgVars>>

Spec == Init /\ [][Next]_vars

-----------------------------------------------------------------------------
(* Properties *)

TypeOK == /\ idx \in {14, 15} /\ \A i \in {14, 15} : reg[i] \in 0..(BYTE - 1)
          /\ r \in 0..w /\ w \in 0..e /\ e \in 0..(r + INPUT_BUF)
          /\ bufferFlag \in {0, 1} /\ showAtonce \in {0, 1}
          /\ consLock \in Actor \cup {"none"} /\ read \in {"no", "try", "in", "asleep"}
          /\ left \in 0..want /\ Len(committed) = w

\* What a read takes next is what was committed next: no character that
\* consoleintr() has committed is erased by ^H or ^U or overwritten when the
\* ring is full, and none is skipped or read twice.
InputIsQueue == \A i \in r..(w - 1) : buf[i % INPUT_BUF] = committed[i + 1]

\* consoleread() never sleeps over committed characters: every change of
\* input.w is followed by a wakeup, whichever switch position committed it.
SleepsOnEmpty == read = "asleep" => r = w

\* Every ^D that consoleread() passes makes exactly one read return 0, also
\* when it came after other characters and was put back for the next call.
EofOnce == zeros = Cardinality({i \in 1..r : committed[i] = "D"})

\* An editor that was not killed leaves both switches on for the shell.
SwitchesRestored == fg = "sh" /\ ~viKilled => bufferFlag = 1 /\ showAtonce = 1

\* While vi waits for keys and draws, the keyboard interrupt does not touch the
\* screen, although ^H and ^U print without looking at showAtonce: with
\* bufferFlag off nothing stays uncommitted.  Input that was not committed when
\* vi set the switches is the exception.
InLoop == fg \in {"v_read", "v_get", "v_got", "v_status", "v_print", "v_printed",
                 "v_restore", "v_cmd", "v_sync", "r_clear", "r_origin", "r_copy", "r_copied"}
QuietInVi == InLoop /\ ~ahead => Outside("intr") \/ intr = "dumped"

\* The cursor registers hold the position that the last call gave them, and the
\* panics of cgaputc() and setCursorPos() are not reached, unless a call made
\* without cons.lock ran into another one or a tab crossed the last cell.
CursorWhole == "raced" \notin marks =>
                   /\ (\A a \in Actor : Outside(a)) => Cursor = cur
                   /\ panicked => "tabbed" \in marks

\* Drawing the text of vi never scrolls the screen (copyFromTextToScreen() is
\* to stop at the last cell), with the same exceptions and one more: another
\* actor printed between two of its characters.
CopyNeverScrolls == "scrolled" \in marks => marks \cap {"raced", "mixed", "tabbed"} # {}

\* Input reaches its readers: characters in order and once, readers awake when
\* there are any, ^D as one end of file.
InputInv == TypeOK /\ InputIsQueue /\ SleepsOnEmpty /\ EofOnce

\* The shell and vi share the screen with the keyboard interrupt: the switches
\* keep the interrupt off the screen of vi and are on again when vi is gone, and
\* cursor and drawing are whole where no call without cons.lock met another.
ScreenInv == SwitchesRestored /\ QuietInVi /\ CursorWhole /\ CopyNeverScrolls
=============================================================================
