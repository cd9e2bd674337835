--------------------------------- MODULE Vi ---------------------------------
(***************************************************************************)
(* The editor (vi.c): the text buffer with its pointers text, end,         *)
(* textend, dot and screenbegin, every command of doCmd(), insert mode,    *)
(* replace mode, searching, colon commands and file_save().  text is       *)
(* address 0.  A function of the program that moves pointers or bytes is   *)
(* an operator from editor records to editor records; a command is one     *)
(* action per key read.  What only the screen shows (status line, redraw)  *)
(* is left out; screenbegin is kept, because motions and loops depend on   *)
(* it.  A loop that cannot end, a walk or a division that traps, and a     *)
(* search that runs out of the buffer, where it may trap or meet the       *)
(* string in memory that is not the text's, set the field lost: the editor *)
(* does not come back to its text from that command.                       *)
(***************************************************************************)
EXTENDS Integers, Sequences, SequencesExt, FiniteSetsExt

CONSTANTS SIZE,      \* textend - text
          SLACK,     \* bytes malloc() gives beyond textend: 8
          ROWS, COLS, TabLength,  \* rows 24, columns 80, 4
          Texts,     \* contents of the file when vi is started
          Printable, \* characters that are typed
          Sought, Patterns,  \* characters and strings searched for
          MaxEdits   \* bound on the changes of the text

ASSUME ViAssumption == /\ SIZE \in Nat \ {0} /\ SLACK \in Nat
                       /\ ROWS \in Nat \ {0} /\ COLS \in Nat \ {0} /\ TabLength \in Nat
                       /\ \A t \in Texts : Len(t) <= SIZE

VARIABLES ed,         \* [mem, end, dot, scr, lost, wild]
          mode,       \* which read() the editor is in
          editing, hasChanged,
          lastFindChar, lastFindString,
          file,       \* the bytes of the file
          edits,      \* history: changes so far
          old,        \* history: text and dot when insert mode was entered
          typed,      \* history: characters typed since, or "moved"
          saveFailed, \* history: some file_save() failed
          forced,     \* history: the editor was left with :q!
          did         \* history: the command the editor is lost in

vars == <<ed, mode, editing, hasChanged, lastFindChar, lastFindString, file,
          edits, old, typed, saveFailed, forced, did>>

NUL == "0"
Byte == {"a", "A", "sp", "nl", "tab", NUL}
Addr == 0..(SIZE + SLACK - 1)
At(t, p) == IF p \in Addr THEN t.mem[p] ELSE NUL
Text(t) == [i \in 1..t.end |-> t.mem[i - 1]]
Lost(t) == [t EXCEPT !.lost = TRUE]

\* A store outside the allocated bytes is wild.
Put(t, p, c) == IF p \in Addr THEN [t EXCEPT !.mem[p] = c] ELSE [t EXCEPT !.wild = TRUE]

isSpace(c) == c \in {"nl", "tab", "sp"}
reverseChar(c) == CASE c = "a" -> "A" [] c = "A" -> "a" [] OTHER -> c

-----------------------------------------------------------------------------
(* Pointers *)

dot_increase(t) == IF t.dot < t.end - 1 THEN [t EXCEPT !.dot = @ + 1] ELSE t
dot_decrease(t) == IF t.dot > 0 THEN [t EXCEPT !.dot = @ - 1] ELSE t

begin_line(t, p) == Max({q \in 0..p : q = 0 \/ At(t, q - 1) = "nl"} \cup (IF p < 0 THEN {p} ELSE {}))
end_line(t, p) == IF p >= t.end - 1 THEN p
                  ELSE Min({q \in p..(t.end - 1) : q = t.end - 1 \/ At(t, q) = "nl"})
prev_line(t, p) == LET b == begin_line(t, p) IN begin_line(t, IF b > 0 THEN b - 1 ELSE b)
next_line(t, p) == LET q == end_line(t, p)
                   IN  IF q < t.end - 1 /\ At(t, q) = "nl" THEN q + 1 ELSE q

\* Cells from position s to dot.
Advance(cnt, c) == CASE c \in {"a", "A", "sp"} -> cnt + 1
                     [] c = "tab" -> cnt + TabLength
                     [] c = "nl" -> IF (cnt + 1) % COLS = 0 THEN cnt + 1
                                    ELSE ((cnt + 1) \div COLS) * COLS + COLS
                     [] OTHER -> cnt
RECURSIVE CountOn(_, _, _)
CountOn(t, p, cnt) == IF p >= t.dot THEN cnt ELSE CountOn(t, p + 1, Advance(cnt, At(t, p)))
Count(t, s) == CountOn(t, s, 0)

\* countCursorPosFromScreenBegin2Dot() first brings screenbegin in front of dot.
Adjusted(t) == IF t.scr > t.dot THEN [t EXCEPT !.scr = begin_line(t, t.dot)] ELSE t
Cells(t) == Count(t, Adjusted(t).scr)
SCREEN == ROWS * COLS

\* Mutant of Below: one cell too many fits on the screen.
BelowOffByOne(t) == Cells(t) > SCREEN

Below(t) == Cells(t) >= SCREEN

\* modifyScreenBegin(): its loop goes down one line per round; when it has gone
\* round as often as there are bytes it repeats itself for ever.
RECURSIVE LinesDown(_, _)
LinesDown(t, fuel) == IF ~Below(t) THEN Adjusted(t)
                      ELSE IF fuel = 0 THEN Lost(t)
                      ELSE LinesDown([t EXCEPT !.scr = next_line(t, Adjusted(t).scr)], fuel - 1)
modifyScreenBegin(t) == LinesDown(Adjusted(t), SIZE + 1)

-----------------------------------------------------------------------------
(* Motions *)

dot_left(t) == IF t.dot > 0 /\ At(t, t.dot - 1) # "nl" THEN dot_decrease(t) ELSE t
dot_right(t) == IF t.dot < t.end - 1 /\ At(t, t.dot) # "nl" THEN dot_increase(t) ELSE t
dot_head(t) == [t EXCEPT !.dot = begin_line(t, t.dot)]
dot_tail(t) == [t EXCEPT !.dot = end_line(t, t.dot)]

dot_preLine(t) ==
    LET head == begin_line(t, t.dot)
        new == begin_line(t, head - 1)
    IN  IF head > 0 THEN [t EXCEPT !.dot = new, !.scr = IF new < @ THEN new ELSE @] ELSE t

dot_nextLine(t) ==
    LET tail == end_line(t, t.dot)
        n == Adjusted([t EXCEPT !.dot = tail + 1])
    IN  IF tail < t.end - 1 /\ At(t, tail) = "nl"
        THEN IF Below(n) THEN [n EXCEPT !.scr = next_line(n, n.scr)] ELSE n
        ELSE t

\* dot_up(), dot_down(): to the same column, or as far as the line goes.
Column(t) == t.dot - begin_line(t, t.dot)
InColumn(n, col) == [n EXCEPT !.dot = Min({n.dot + col, end_line(n, n.dot)})]
dot_up(t) == IF dot_preLine(t).dot = t.dot THEN t ELSE InColumn(dot_preLine(t), Column(t))
dot_down(t) == IF dot_nextLine(t).dot = t.dot THEN t ELSE InColumn(dot_nextLine(t), Column(t))

dot_textStart(t) == [t EXCEPT !.dot = 0, !.scr = 0]

\* Upwards until a full screen is above dot: in a shorter text, for ever.
RECURSIVE ScreenUp(_, _)
ScreenUp(t, fuel) == IF Below(t) THEN [t EXCEPT !.scr = next_line(t, @)]
                     ELSE IF fuel = 0 THEN Lost(t)
                     ELSE ScreenUp([t EXCEPT !.scr = prev_line(t, @)], fuel - 1)
dot_textEnd(t) == LET n == [t EXCEPT !.dot = t.end - 1]
                  IN  ScreenUp([n EXCEPT !.scr = begin_line(n, n.dot)], SIZE + 1)

WordHead(t, p) == isSpace(At(t, p - 1)) /\ ~isSpace(At(t, p))
WordEnd(t, p) == ~isSpace(At(t, p - 1)) /\ isSpace(At(t, p))
dot_move2NextWordHead(t) ==
    IF t.dot < t.end - 1
    THEN [t EXCEPT !.dot = Min({p \in (t.dot + 1)..(t.end - 1) : p = t.end - 1 \/ WordHead(t, p)})]
    ELSE IF t.dot = t.end - 1 \/ WordHead(t, t.dot) THEN t ELSE Lost(t)
dot_move2NextWordTail(t) ==
    LET n == dot_move2NextWordHead(t)
        stop == {p \in n.dot..(n.end - 1) : p = n.end - 1 \/ WordEnd(n, p)}
    IN  CASE n.lost -> n
          [] ~n.lost /\ stop # {} -> IF Min(stop) = n.end - 1 THEN [n EXCEPT !.dot = n.end - 1]
                                     ELSE [n EXCEPT !.dot = Min(stop) - 1]
          [] OTHER -> IF WordEnd(n, n.dot) THEN dot_decrease(n) ELSE Lost(n)
\* Mutant of dot_move2PreWordHead: the test for screenbegin comes before the step.
dot_move2PreWordHead_early(t) == IF t.dot = t.scr \/ t.dot = 0 THEN Lost(t) ELSE dot_decrease(t)

\* Leftwards, until screenbegin is met exactly.
dot_move2PreWordHead(t) ==
    IF t.dot > t.scr \/ t.scr = 0
    THEN [t EXCEPT !.dot = Max({p \in t.scr..(t.dot - 1) : p = t.scr \/ WordHead(t, p)} \cup {t.scr})]
    ELSE Lost(t)

RECURSIVE Times(_, _, _)
Times(n, F(_), t) == IF n = 0 THEN t ELSE Times(n - 1, F, F(t))

-----------------------------------------------------------------------------
(* Searching *)

\* In the line, but never its last character.
findChar(t, c) == LET hits == {p \in (t.dot + 1)..(end_line(t, t.dot) - 1) : At(t, p) = c}
                  IN  IF hits = {} THEN t ELSE [t EXCEPT !.dot = Min(hits)]

equal(t, p, s) == \A i \in 1..Len(s) : At(t, p + i - 1) = s[i]

\* One round of findString() per step of p.  A p that leaves the buffer runs on
\* through memory until it traps, or until the string is found there and dot is
\* set outside the text: both are Lost.
RECURSIVE FindFrom(_, _, _, _)
FindFrom(t, p, wrapped, s) ==
    LET q == IF p = t.end - 1 THEN 1 ELSE p + 1
        again == p = t.end - 1
    IN  CASE again /\ wrapped -> t
          [] ~(again /\ wrapped) /\ q > SIZE + SLACK -> Lost(t)
          [] OTHER -> IF equal(t, q, s) THEN [t EXCEPT !.dot = q]
                      ELSE IF q = t.dot THEN t ELSE FindFrom(t, q, wrapped \/ again, s)
\* Mutant of findString: the search begins at dot itself.
findStringHere(t, s) == FindFrom(t, t.dot - 1, FALSE, s)

\* n finds the next occurrence, not the one dot is at.
findString(t, s) == FindFrom(t, t.dot, FALSE, s)

\* The same downwards: with at most one character p goes on below the text.
RECURSIVE FindBack(_, _, _, _)
FindBack(t, p, wrapped, s) ==
    LET q == IF p = 0 THEN t.end - 2 ELSE p - 1
        again == p = 0
    IN  CASE again /\ wrapped -> t
          [] ~(again /\ wrapped) /\ q < 0 -> Lost(t)
          [] OTHER -> IF equal(t, q, s) THEN [t EXCEPT !.dot = q]
                      ELSE IF q = t.dot THEN t ELSE FindBack(t, q, wrapped \/ again, s)
reverseFindString(t, s) == FindBack(t, t.dot, FALSE, s)

-----------------------------------------------------------------------------
(* Changes of the text *)

\* The bytes s..e go; those up to and including *end move down.
make_hole_delete(t, s, e) ==
    [t EXCEPT !.mem = [p \in Addr |-> IF p \in s..(s + t.end - e - 1) THEN At(t, p + e + 1 - s) ELSE @[p]],
              !.end = @ - (e - s + 1)]

\* Mutant of HoleFits: there always is room.
HoleFitsAlways(t) == TRUE

HoleFits(t) == t.end + 1 <= SIZE

\* Mutant of make_hole_add: bytes are copied from the start to the end, over each other.
make_hole_add_forward(t, p) ==
    IF HoleFits(t)
    THEN [t EXCEPT !.mem = [q \in Addr |-> IF q \in p..(t.end + 1) THEN At(t, p) ELSE @[q]],
                   !.end = @ + 1]
    ELSE t

\* One byte is made free at p, if the buffer is not full.
make_hole_add(t, p) ==
    IF HoleFits(t)
    THEN [t EXCEPT !.mem = [q \in Addr |-> IF q \in (p + 1)..(t.end + 1) THEN At(t, q - 1) ELSE @[q]],
                   !.end = @ + 1, !.wild = @ \/ (p <= t.end /\ t.end + 1 \notin Addr)]
    ELSE t

\* The callers store into the hole whether there is one or not.
AddAt(t, p, c) == Put(make_hole_add(t, p), p, c)

\* Mutant of Type: dot stays where it is.
TypeStays(t, c) == modifyScreenBegin(AddAt(t, t.dot, c))

\* A printable character in insert mode; redraw() and synchronize().
Type(t, c) == modifyScreenBegin(dot_increase(AddAt(t, t.dot, c)))
Overtype(t, c) == modifyScreenBegin(dot_increase(Put(t, t.dot, c)))

x(t) == make_hole_delete(t, t.dot, t.dot)
J(t) == LET p == end_line(t, t.dot) IN make_hole_delete(t, p, p)
D(t) == LET p == end_line(t, t.dot) IN IF p - 1 >= t.dot THEN make_hole_delete(t, t.dot, p - 1) ELSE t
IndentRight(t) == AddAt(t, begin_line(t, t.dot), "tab")
IndentLeft(t) == LET p == begin_line(t, t.dot) IN IF At(t, p) = "tab" THEN make_hole_delete(t, p, p) ELSE t
o(t) == dot_nextLine(AddAt(t, next_line(t, t.dot), "nl"))
O(t) == LET p == begin_line(t, t.dot) IN [AddAt(t, p, "nl") EXCEPT !.dot = p]
-----------------------------------------------------------------------------
(* doCmd() and the loop around it *)

\* new_text() clears the buffer, file_insert() reads the file into it.
Init == /\ file \in Texts
        /\ ed = [mem |-> [p \in Addr |-> IF p < Len(file) THEN file[p + 1] ELSE NUL],
                 end |-> Len(file), dot |-> 0, scr |-> 0, lost |-> FALSE, wild |-> FALSE]
        /\ mode = "command" /\ editing = 1 /\ hasChanged = 0
        /\ lastFindChar = NUL /\ lastFindString = <<>>
        /\ edits = 0 /\ old = <<>> /\ typed = <<>>
        /\ saveFailed = FALSE /\ forced = FALSE /\ did = "none"

\* synchronize() after a command.
Synchronized(t) == IF t.lost THEN t ELSE modifyScreenBegin(t)
Becomes(t, k) == /\ ed' = t /\ did' = IF t.lost THEN k ELSE "none"

Command == mode = "command" /\ editing = 1 /\ ~ed.lost
Change == edits < MaxEdits /\ edits' = edits + 1 /\ hasChanged' = 1
insertVars == <<mode, old, typed>>
findVars == <<lastFindChar, lastFindString>>
fileVars == <<editing, file, saveFailed, forced>>

\* ^G divides by end - text.
ShowPosition(t) == IF t.end = 0 THEN Lost(t) ELSE t

\* The keys that only move dot or screenbegin; other: ^R and unknown keys.
Moved(t, k) == CASE k = "k" -> dot_up(t)
                 [] k = "j" -> dot_down(t)
                 [] k = "h" -> dot_left(t)
                 [] k = "l" -> dot_right(t)
                 [] k = "^" -> dot_head(t)
                 [] k = "$" -> dot_tail(t)
                 [] k = "G" -> dot_textEnd(t)
                 [] k = "g" -> dot_textStart(t)
                 [] k = "w" -> dot_move2NextWordHead(t)
                 [] k = "b" -> dot_move2PreWordHead(t)
                 [] k = "e" -> dot_move2NextWordTail(t)
                 [] k = "PAGEUP" -> LET n == Times(ROWS - 1, dot_preLine, t) IN [n EXCEPT !.scr = n.dot]
                 [] k = "PAGEDN" -> LET n == Times(ROWS - 1, dot_nextLine, t) IN [n EXCEPT !.scr = n.dot]
                 [] k = "L" -> Times(ROWS - 1, dot_nextLine, [t EXCEPT !.dot = t.scr])
                 [] k = "M" -> Times(ROWS \div 2, dot_nextLine, [t EXCEPT !.dot = t.scr])
                 [] k = "H" -> [t EXCEPT !.dot = t.scr]
                 [] k = "^G" -> ShowPosition(t)
                 [] k = "other" -> t
Motions == {"k", "j", "h", "l", "^", "$", "G", "g", "w", "b", "e", "PAGEUP", "PAGEDN",
            "L", "M", "H", "^G", "other"}

Motion(k) == /\ Command /\ Becomes(Synchronized(Moved(ed, k)), k)
             /\ UNCHANGED <<insertVars, hasChanged, findVars, fileVars, edits>>

\* f and ; with the character that f reads, / with the string it reads.
FindChar(c) == /\ Command /\ lastFindChar' = c /\ Becomes(Synchronized(findChar(ed, c)), "f")
               /\ UNCHANGED <<insertVars, hasChanged, lastFindString, fileVars, edits>>
FindAgain == /\ Command /\ lastFindChar # NUL
             /\ Becomes(Synchronized(findChar(ed, lastFindChar)), ";")
             /\ UNCHANGED <<insertVars, hasChanged, findVars, fileVars, edits>>
Slash(s) == /\ Command /\ lastFindString' = s /\ Becomes(Synchronized(findString(ed, s)), "/")
            /\ UNCHANGED <<insertVars, hasChanged, lastFindChar, fileVars, edits>>
FindNext(k) == /\ Command /\ lastFindString # <<>>
               /\ Becomes(Synchronized(IF k = "n" THEN findString(ed, lastFindString)
                                       ELSE reverseFindString(ed, lastFindString)), k)
               /\ UNCHANGED <<insertVars, hasChanged, findVars, fileVars, edits>>

\* Mutant of Edited: D forgets to set hasChanged.
EditedForgets(k, t) == IF k = "D" THEN edits < MaxEdits /\ edits' = edits + 1 /\ UNCHANGED hasChanged
                       ELSE Change
\* D and < note a change only when they make one, the others always.
Edited(k, t) == IF k \in {"D", "<"} /\ t = ed THEN UNCHANGED <<edits, hasChanged>> ELSE Change

Edits(t, k) == CASE k = "x" -> x(t) [] k = "J" -> J(t) [] k = "D" -> D(t)
                 [] k = ">" -> IndentRight(t) [] k = "<" -> IndentLeft(t) [] k = "d" -> t
                 [] k = "~" -> dot_increase(Put(t, t.dot, reverseChar(At(t, t.dot))))
Edit(k) == /\ Command /\ Becomes(Synchronized(Edits(ed, k)), k) /\ Edited(k, Edits(ed, k))
           /\ UNCHANGED <<insertVars, findVars, fileVars>>

\* r and the character it reads.
ReplaceOne(c) == /\ Command /\ Change /\ Becomes(Overtype(ed, c), "r")
                 /\ UNCHANGED <<insertVars, findVars, fileVars>>

\* R, or insert() from i, I, a, A, o, O; only I, A, o and O synchronize first.
Begun(t, k) == CASE k \in {"i", "R"} -> t
                 [] k = "I" -> Synchronized(dot_head(t))
                 [] k = "a" -> dot_right(t)
                 [] k = "A" -> Synchronized(dot_decrease(dot_tail(t)))
                 [] k = "o" -> Synchronized(o(t))
                 [] k = "O" -> Synchronized(O(t))
StartInsert(k) ==
    /\ Command /\ (IF k \in {"o", "O"} THEN Change ELSE hasChanged' = 1 /\ UNCHANGED edits)
    /\ mode' = IF k = "R" THEN "replace" ELSE "insert"
    /\ Becomes(Begun(ed, k), k)
    /\ old' = IF k = "R" THEN <<>> ELSE [text |-> Text(ed'), dot |-> ed'.dot]
    /\ typed' = <<>>
    /\ UNCHANGED <<findVars, fileVars>>

InsertChar(c) == /\ mode = "insert" /\ ~ed.lost /\ Change /\ Becomes(Type(ed, c), "insert")
                 /\ typed' = IF typed = "moved" THEN typed ELSE Append(typed, c)
                 /\ UNCHANGED <<mode, old, findVars, fileVars>>
ReplaceChar(c) == /\ mode = "replace" /\ ~ed.lost /\ Change /\ Becomes(Overtype(ed, c), "R")
                  /\ UNCHANGED <<insertVars, findVars, fileVars>>
InsertMove(k) == /\ mode = "insert" /\ ~ed.lost /\ typed' = "moved" /\ old' = <<>>
                 /\ Becomes(Synchronized(IF k = "$" THEN dot_left(dot_tail(ed)) ELSE Moved(ed, k)), k)
                 /\ UNCHANGED <<mode, hasChanged, edits, findVars, fileVars>>
Escape == /\ mode # "command" /\ ~ed.lost /\ mode' = "command" /\ old' = <<>> /\ typed' = <<>>
          /\ Becomes(Synchronized(ed), "escape")
          /\ UNCHANGED <<hasChanged, edits, findVars, fileVars>>

\* Mutant of Saved: the text without its last byte is written.
SavedShort(n) == [i \in 1..Max({Len(file), n - 2}) |-> IF i <= n - 2 THEN At(ed, i - 1) ELSE file[i]]

\* The file after n bytes from text on were written over it: it is not truncated.
Saved(n) == [i \in 1..Max({Len(file), n}) |-> IF i <= n THEN At(ed, i - 1) ELSE file[i]]

\* file_save(): open() can fail, write() can stop short; end - text + 1 bytes.
file_save == LET cnt == ed.end + 1
             IN  \/ file' = Saved(cnt) /\ UNCHANGED saveFailed
                 \/ \E n \in 0..(cnt - 1) : file' = Saved(n) /\ saveFailed' = TRUE

\* :q, :q!, :w and :wq; w takes the change for saved before it is.
Colon(k) ==
    /\ Command
    /\ CASE k = "q" -> editing' = hasChanged /\ UNCHANGED <<file, saveFailed, forced, hasChanged>>
         [] k = "q!" -> editing' = 0 /\ forced' = TRUE /\ UNCHANGED <<file, saveFailed, hasChanged>>
         [] k = "w" -> hasChanged' = 0 /\ file_save /\ UNCHANGED <<editing, forced>>
         [] k = "wq" -> editing' = 0 /\ file_save /\ UNCHANGED <<forced, hasChanged>>
    /\ Becomes(Synchronized(ed), k)
    /\ UNCHANGED <<insertVars, edits, findVars>>

\* ZZ saves, changed or not.
ZZ == /\ Command /\ editing' = 0 /\ file_save /\ Becomes(Synchronized(ed), "ZZ")
      /\ UNCHANGED <<insertVars, edits, findVars, forced, hasChanged>>

Next == \/ \E k \in Motions : Motion(k)
        \/ \E c \in Sought : FindChar(c)
        \/ \E c \in Printable : ReplaceOne(c) \/ InsertChar(c) \/ ReplaceChar(c)
        \/ \E s \in Patterns : Slash(s)
        \/ FindAgain \/ \E k \in {"n", "N"} : FindNext(k)
        \/ \E k \in {"x", "J", "D", ">", "<", "d", "~"} : Edit(k)
        \/ \E k \in {"i", "I", "a", "A", "o", "O", "R"} : StartInsert(k)
        \/ \E k \in {"k", "j", "h", "l", "$"} : InsertMove(k)
        \/ Escape
        \/ \E k \in {"q", "q!", "w", "wq"} : Colon(k)
        \/ ZZ

Spec == Init /\ [][Next]_vars

-----------------------------------------------------------------------------
(* Properties *)

TypeOK == /\ ed.mem \in [Addr -> Byte] /\ ed.end <= SIZE /\ (~ed.lost => ed.scr \in 0..SIZE /\ ed.dot \in 0..SIZE)
          /\ mode \in {"command", "insert", "replace"} /\ editing \in 0..1 /\ hasChanged \in 0..1

\* No command stores outside the bytes new_text() allocated, although the
\* callers of make_hole_add() do not look at its result and x moves end below
\* dot and even below text.
BufferSafe == ~ed.wild

\* After each command dot is on the screen (synchronize() puts the cursor there,
\* and setCursorPos() panics the kernel when it is not).
DotOnScreen == mode = "command" /\ ~ed.lost => ed.scr <= ed.dot /\ Count(ed, ed.scr) < SCREEN

\* What is typed in insert mode stands in the text in the order it was typed,
\* between what was there before, provided that insertion began inside the text
\* and the buffer did not fill up.
InsertInOrder ==
    LET before == SubSeq(old.text, 1, old.dot)
        after == SubSeq(old.text, old.dot + 1, Len(old.text))
    IN  (mode = "insert" /\ typed # "moved") =>
            ((old.dot < Len(old.text) /\ Len(old.text) + Len(typed) <= SIZE)
                => Text(ed) = before \o typed \o after)

\* The editor is left without losing text: after :q, :wq and ZZ the file begins
\* with the text, unless a save failed.
NoSilentLoss == (editing = 0 /\ ~forced /\ ~saveFailed) => IsPrefix(Text(ed), file)

\* A command comes back to the text, except: any when dot is behind the end of the text or
\* the line of dot alone fills the screen, G when the text does not fill it, b
\* at the start of a screen that is not the first, a search when there is at
\* most one character, ^G when there is none.
ComesBack ==
    [][ed'.lost =>
         \/ ed'.dot >= ed'.end
         \/ Count(ed', begin_line(ed', ed'.dot)) >= SCREEN
         \/ did' = "G" /\ Count([ed EXCEPT !.dot = ed.end - 1], 0) < SCREEN
         \/ did' = "b" /\ ed.dot = ed.scr /\ ed.scr > 0
         \/ did' \in {"/", "n", "N"} /\ ed.end <= 1
         \/ did' = "^G" /\ ed.end = 0]_vars

\* / and n go to the next occurrence of the string behind dot, or round to the
\* first one, from inside a text of two or more characters; the very first
\* character is never looked at.
FindsNext ==
    LET behind(s) == {p \in (ed.dot + 1)..(ed.end - 1) : equal(ed, p, s)}
        all(s) == {p \in 1..(ed.end - 1) : equal(ed, p, s)}
    IN  \A s \in Patterns : ed.dot < ed.end /\ ed.end > 1 =>
            findString(ed, s).dot = IF behind(s) # {} THEN Min(behind(s))
                                    ELSE IF all(s) # {} THEN Min(all(s)) ELSE ed.dot

\* The editor does not damage what it edits: it stays in its buffer, dot stays
\* on the screen, insertion and search do what they say, leaving loses nothing.
EditorInv == TypeOK /\ BufferSafe /\ DotOnScreen /\ InsertInOrder /\ NoSilentLoss /\ FindsNext
=============================================================================
