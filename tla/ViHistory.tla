------------------------------ MODULE ViHistory ------------------------------
(***************************************************************************)
(* The versions vi_1.c ... vi_9.c the editor grew through, loop by loop,   *)
(* on the editor records of Vi: X_n is what the n-th version does.  Vi     *)
(* says in closed form where a command of the final version ends; here the *)
(* loops of each version are run, so that the versions can be compared     *)
(* with Vi and with each other from every state Vi reaches.  A record has  *)
(* in addition: shown, the bytes drawn last; syn, the screenbegin that     *)
(* synchronize() remembers; changed, editing; saved, the file was written. *)
(***************************************************************************)
EXTENDS Vi

\* strlen(screenbegin) bytes are drawn.
OnScreen(u) == LET z == Min({p \in Addr : p >= u.scr /\ u.mem[p] = NUL} \cup {SIZE + SLACK})
               IN  [p \in u.scr..(z - 1) |-> u.mem[p]]
Start(t, mark) == [mem |-> t.mem, end |-> t.end, dot |-> t.dot, scr |-> t.scr, lost |-> t.lost,
                   wild |-> t.wild, shown |-> OnScreen(t), syn |-> t.scr, changed |-> mark,
                   editing |-> 1, saved |-> FALSE]
\* The pointers and bytes, as far as the editor comes back at all.
Same(u, t) == IF u.lost \/ t.lost THEN u.lost = t.lost
              ELSE u.mem = t.mem /\ u.end = t.end /\ u.dot = t.dot /\ u.scr = t.scr /\ u.wild = t.wild

FUEL == 2 * (SIZE + SLACK) + 2   \* rounds after which a loop repeats itself
\* A while loop of C.
RECURSIVE While(_, _, _, _)
While(Goes(_), Body(_), u, fuel) == IF u.lost \/ ~Goes(u) THEN u
                                    ELSE IF fuel = 0 THEN Lost(u)
                                    ELSE While(Goes, Body, Body(u), fuel - 1)

-----------------------------------------------------------------------------
(* vi_1: h, l, k and j; the screen follows by counting lines *)

doCmd_1(u, k) == CASE k = "h" -> IF u.dot > 0 /\ At(u, u.dot - 1) # "nl" THEN [u EXCEPT !.dot = @ - 1] ELSE u
                   [] k = "l" -> IF u.dot < u.end - 1 /\ At(u, u.dot) # "nl" THEN [u EXCEPT !.dot = @ + 1] ELSE u
                   [] k = "k" -> [u EXCEPT !.dot = prev_line(u, @)]
                   [] k = "j" -> [u EXCEPT !.dot = next_line(u, @)]
                   [] k = "q" -> [u EXCEPT !.editing = 0]
                   [] OTHER -> u

NEVER == -(SIZE + 2)   \* no count: the loop does not end

\* Mutant of CountLines_1: a dot at the end of its line is still in the line.
RECURSIVE CountLinesTo_1(_, _, _, _, _)
CountLinesTo_1(u, p, q, pos, fuel) ==
    IF q >= u.dot THEN pos + u.dot - p ELSE IF fuel = 0 THEN NEVER
    ELSE CountLinesTo_1(u, next_line(u, p), end_line(u, next_line(u, q)), pos + COLS, fuel - 1)

\* countScreenBeginToDot(): the line p..q must end behind dot.
RECURSIVE CountLines_1(_, _, _, _, _)
CountLines_1(u, p, q, pos, fuel) ==
    IF q > u.dot THEN pos + u.dot - p
    ELSE IF fuel = 0 THEN NEVER
    ELSE CountLines_1(u, next_line(u, p), end_line(u, next_line(u, q)),
                      pos + (IF (q - p) % COLS > 0 THEN ((q - p) \div COLS) * COLS + COLS ELSE q - p),
                      fuel - 1)
countScreenBeginToDot_1(u) == CountLines_1(u, u.scr, end_line(u, u.scr), 0, FUEL)

\* freshScreenBegin(): rows lines upwards.
RECURSIVE Fresh_1(_, _, _, _)
Fresh_1(u, p, q, cnt) ==
    IF cnt >= ROWS + 1 THEN q
    ELSE Fresh_1(u, end_line(u, prev_line(u, p)), prev_line(u, q),
                 cnt + (IF p - q > COLS THEN (p - q + COLS - 1) \div COLS ELSE 1))

\* sync_cur_dot_scr(); the number of rows is compared with a number of cells.
sync_1(u) == LET a == IF u.dot < u.scr THEN [u EXCEPT !.scr = begin_line(u, u.dot)] ELSE u
                 tail == end_line(a, a.dot)
                 b == IF countScreenBeginToDot_1(a) > ROWS THEN [a EXCEPT !.scr = Fresh_1(a, tail, tail, 0)] ELSE a
             IN  IF countScreenBeginToDot_1(a) = NEVER \/ countScreenBeginToDot_1(b) = NEVER THEN Lost(b) ELSE b
Step_1(u, k) == sync_1(doCmd_1(u, k))

-----------------------------------------------------------------------------
(* The dot functions: Dec is dot_decrease() of a version, Adj what its      *)
(* countCursorPosFromScreenBegin2Dot() does to screenbegin.                 *)

Inc(u) == IF u.dot < u.end - 1 THEN [u EXCEPT !.dot = @ + 1] ELSE u
Left(Dec(_), u) == IF u.dot > 0 /\ At(u, u.dot - 1) # "nl" THEN Dec(u) ELSE u
Right(u) == IF u.dot < u.end - 1 /\ At(u, u.dot) # "nl" THEN Inc(u) ELSE u
ToHead(Dec(_), u) == While(LAMBDA w : w.dot > 0 /\ At(w, w.dot - 1) # "nl", Dec, u, FUEL)
ToTail(u) == While(LAMBDA w : w.dot < w.end - 1 /\ At(w, w.dot) # "nl", Inc, u, FUEL)

Raised(n) == [n EXCEPT !.scr = IF n.dot < @ THEN begin_line(n, n.dot) ELSE @]
HasPrev(Dec(_), u) == ToHead(Dec, u).dot > 0
LineAbove(Dec(_), u, h) == IF h.lost THEN h
                           ELSE IF h.dot > 0 THEN Raised(ToHead(Dec, Dec(h))) ELSE u
PreLine(Dec(_), u) == LineAbove(Dec, u, ToHead(Dec, u))

AtLineEnd(e) == e.dot < e.end - 1 /\ At(e, e.dot) = "nl"
HasNext(u) == AtLineEnd(ToTail(u))
Lowered(n) == IF n.lost THEN n ELSE [n EXCEPT !.scr = IF Count(n, @) >= SCREEN THEN next_line(n, @) ELSE @]
LineBelow(Dec(_), Adj(_), u, e) == IF AtLineEnd(e) THEN Lowered(Adj(ToHead(Dec, Inc(e)))) ELSE u
NextLine(Dec(_), Adj(_), u) == LineBelow(Dec, Adj, u, ToTail(u))

\* The loop of dot_up() and dot_down() that goes to the old column.
RECURSIVE Along(_, _)
Along(u, n) == IF n = 0 \/ u.lost THEN u
               ELSE IF At(Right(u), Right(u).dot) = "nl" THEN Right(u) ELSE Along(Right(u), n - 1)

NextWord(u) == While(LAMBDA w : w.dot # w.end - 1 /\ ~WordHead(w, w.dot), Inc, Inc(u), FUEL)
BackOne(Dec(_), n) == IF n.lost \/ n.dot = n.end - 1 THEN n ELSE Dec(n)
WordTail(Dec(_), u) ==
    BackOne(Dec, While(LAMBDA w : w.dot # w.end - 1 /\ ~WordEnd(w, w.dot), Inc, NextWord(u), FUEL))
PreWord(Dec(_), u) ==
    While(LAMBDA w : w.dot # w.scr /\ ~(w.dot > w.scr /\ WordHead(w, w.dot)), Dec, Dec(u), FUEL)

\* The functions that a version calls by their names dot_f().
dot(Dec(_), Adj(_), u, f) ==
    CASE f = "left" -> Left(Dec, u)
      [] f = "right" -> Right(u)
      [] f = "head" -> ToHead(Dec, u)
      [] f = "tail" -> ToTail(u)
      [] f = "preLine" -> PreLine(Dec, u)
      [] f = "nextLine" -> NextLine(Dec, Adj, u)
      [] f = "up" -> Along(PreLine(Dec, u), IF HasPrev(Dec, u) THEN Column(u) ELSE 0)
      [] f = "down" -> Along(NextLine(Dec, Adj, u), IF HasNext(u) THEN Column(u) ELSE 0)
      [] f = "textStart" -> [u EXCEPT !.dot = 0, !.scr = 0]
      [] f = "textEnd" -> dot_textEnd(u)
      [] f = "nextWordHead" -> NextWord(u)
      [] f = "nextWordTail" -> WordTail(Dec, u)
      [] f = "preWordHead" -> PreWord(Dec, u)

\* Keys that call one dot function, and those that go from line to line: which
\* function, how often.  Page is what a version does after paging.
Calls == [k |-> "up", j |-> "down", h |-> "left", l |-> "right", G |-> "textEnd", g |-> "textStart",
          w |-> "nextWordHead", e |-> "nextWordTail", b |-> "preWordHead"] @@ ("^" :> "head" @@ "$" :> "tail")
Lines == [PAGEUP |-> <<"preLine", ROWS - 1>>, PAGEDN |-> <<"nextLine", ROWS - 1>>,
          L |-> <<"nextLine", ROWS - 1>>, M |-> <<"nextLine", ROWS \div 2>>, H |-> <<"nextLine", 0>>]
MotionOf(Dot(_, _), Page(_), u, k) ==
    LET line(w) == Dot(w, Lines[k][1])
        from == IF k \in {"L", "M", "H"} THEN [u EXCEPT !.dot = u.scr] ELSE u
        page(w) == IF k \in {"PAGEUP", "PAGEDN"} THEN Page(w) ELSE w
    IN  IF k \in DOMAIN Calls THEN Dot(u, Calls[k]) ELSE page(Times(Lines[k][2], line, from))
MotionKeys == Motions \ {"^G", "other"}

-----------------------------------------------------------------------------
(* vi_2: h, j, k, l, ^ and $; only a change of line moves screenbegin *)

dot_decrease_2(u) == [u EXCEPT !.dot = @ - 1]
dot_2(u, f) == dot(dot_decrease_2, LAMBDA w : w, u, f)

\* Mutant of doCmd_2: j and k do not look for the old column.
doCmd_2_head(u, k) == CASE k = "k" -> dot_2(u, "preLine") [] k = "j" -> dot_2(u, "nextLine") [] OTHER -> u

doCmd_2(u, k) == CASE k \in {"h", "l", "k", "j", "^", "$"} -> MotionOf(dot_2, LAMBDA w : w, u, k)
                   [] k = "q" -> [u EXCEPT !.editing = 0]
                   [] OTHER -> u

\* syn_screenbegin is never set: the screen is drawn each time.
synchronize_2(u) == [u EXCEPT !.shown = OnScreen(u)]
Step_2(u, k) == synchronize_2(doCmd_2(u, k))

-----------------------------------------------------------------------------
(* vi_3: all motions; modifyScreenBegin(); dot_decrease() stops at the       *)
(* screen's first character.                                                 *)

\* Mutant of dot_decrease_3: it stops at the start of the text.
dot_decrease_3_text(u) == IF u.dot > 0 THEN [u EXCEPT !.dot = @ - 1] ELSE u

dot_decrease_3(u) == IF u.dot > u.scr THEN [u EXCEPT !.dot = @ - 1] ELSE u
dot_3(u, f) == dot(dot_decrease_3, Adjusted, u, f)
doCmd_3(u, k) == CASE k \in MotionKeys -> MotionOf(dot_3, LAMBDA w : w, u, k)
                   [] k = "q" -> [u EXCEPT !.editing = 0]
                   [] OTHER -> u
draw(m) == IF m.lost THEN m ELSE [m EXCEPT !.shown = OnScreen(m)]
redraw(u) == draw(modifyScreenBegin(u))

\* Mutant of synchronize_3: it draws only when screenbegin has changed.
synchronize_3_once(u) == IF u.lost \/ modifyScreenBegin(u).scr = u.syn THEN modifyScreenBegin(u) ELSE redraw(u)

synchronize_3(u) == IF u.lost THEN u ELSE redraw(modifyScreenBegin(u))
Step_3(u, k) == synchronize_3(doCmd_3(u, k))

-----------------------------------------------------------------------------
(* vi_4: changes of the text; dot_decrease() stops at its start *)

\* Mutant of dot_decrease_4: it still stops at the screen's first character.
dot_decrease_4_screen(u) == IF u.dot > u.scr THEN [u EXCEPT !.dot = @ - 1] ELSE u

dot_decrease_4(u) == IF u.dot > 0 THEN [u EXCEPT !.dot = @ - 1] ELSE u
dot_4(u, f) == dot(dot_decrease_4, Adjusted, u, f)
Page_4(u) == [u EXCEPT !.scr = u.dot]

\* memmove(): byte by byte upwards.  memmoveFormEnd2Start(): downwards.
RECURSIVE CopyUp(_, _, _, _)
CopyUp(u, to, from, n) == IF n <= 0 THEN u ELSE CopyUp(Put(u, to, At(u, from)), to + 1, from + 1, n - 1)
RECURSIVE CopyDown(_, _, _, _)
CopyDown(u, to, from, n) == IF n <= 0 THEN u
                            ELSE CopyDown(Put(u, to + n - 1, At(u, from + n - 1)), to, from, n - 1)

delete_4(u, s, e) == [CopyUp(u, s, e + 1, u.end - e) EXCEPT !.end = u.end - (e - s + 1)]
add_4(u, p) == IF u.end + 1 > SIZE THEN u
               ELSE Put(CopyDown([u EXCEPT !.end = @ + 1], p + 1, p, u.end - p + 1), p, "sp")
Mark(u) == [u EXCEPT !.changed = 1]

\* Mutant of EditOf: D does not note the change.
EditForgets(u, k, in) == IF k = "D" THEN delete_4(u, u.dot, end_line(u, u.dot) - 1) ELSE u

\* The keys that change the text at once; in: what r and R read after them.
EditOf(u, k, in) ==
    LET b == begin_line(u, u.dot)
        e == end_line(u, u.dot)
        store(w, c) == Inc(Put(w, w.dot, c))
        replace(w, c) == IF w.lost THEN w ELSE redraw(store(Mark(w), c))
    IN  CASE k = "~" -> store(Mark(u), reverseChar(At(u, u.dot)))
          [] k \in {"r", "R"} -> FoldLeft(replace, IF k = "R" THEN Mark(u) ELSE u, in)
          [] k = "d" -> Mark(u)
          [] k = "x" -> redraw(delete_4(Mark(u), u.dot, u.dot))
          [] k = "J" -> delete_4(Mark(u), e, e)
          [] k = "D" -> IF e - 1 >= u.dot THEN delete_4(Mark(u), u.dot, e - 1) ELSE u
          [] k = ">" -> Put(add_4(Mark(u), b), b, "tab")
          [] k = "<" -> IF At(u, b) = "tab" THEN delete_4(Mark(u), b, b) ELSE u
EditKeys == {"~", "r", "R", "d", "x", "J", "D", ">", "<"}

\* file_save(), when open() and write() succeed.
file_save_4(u) == [u EXCEPT !.saved = TRUE]

\* q, which asks for one more key when there are changes, and Z.
Leave_4(u, k, in) == CASE k = "q" -> [IF u.changed = 1 /\ in = <<"w">> THEN file_save_4(u) ELSE u EXCEPT !.editing = 0]
                       [] k = "Z" -> IF in = <<"Z">> THEN [file_save_4(u) EXCEPT !.editing = 0] ELSE u

doCmd_4(u, k, in) == CASE k \in MotionKeys -> MotionOf(dot_4, Page_4, u, k)
                       [] k \in EditKeys -> EditOf(u, k, in)
                       [] k = "^R" -> redraw(u)
                       [] k \in {"q", "Z"} -> Leave_4(u, k, in)
                       [] OTHER -> u
synchronize_4(u) == synchronize_3(u)
Step_4(u, k, in) == synchronize_4(doCmd_4(u, k, in))

-----------------------------------------------------------------------------
(* vi_5: insertion and colon commands *)

dot_5(u, f) == dot_4(u, f)
synchronize_5(u) == synchronize_4(u)

\* insert(): characters, arrow keys and END until escape.
insert(Dot(_, _), Sync(_), u, in) ==
    LET moved(w, c) == IF c = "END" THEN Dot(Dot(w, "tail"), "left")
                       ELSE Dot(w, [UP |-> "up", DOWN |-> "down", LEFT |-> "left", RIGHT |-> "right"][c])
        read(w, c) == IF w.lost THEN w
                      ELSE Sync(IF c \in Byte THEN redraw(Inc(Put(add_4(w, w.dot), w.dot, c))) ELSE moved(w, c))
    IN  FoldLeft(read, Mark(u), in)

\* The keys that enter insert(), and what they do before.
InsertOf(Dot(_, _), Dec(_), Sync(_), u, k, in) ==
    LET p == IF k = "o" THEN next_line(u, u.dot) ELSE begin_line(u, u.dot)
        line == Put(add_4(u, p), p, "nl")
        at == CASE k = "o" -> Dot(line, "nextLine")
                [] k = "O" -> [line EXCEPT !.dot = p]
                [] k = "i" -> u
                [] OTHER -> Dot(u, [I |-> "head", a |-> "right", A |-> "tail"][k])
        enter(b) == IF b.lost THEN b ELSE insert(Dot, Sync, b, in)
    IN  enter(CASE k \in {"o", "O"} -> Sync(redraw(at))
                [] k \in {"I", "A"} -> Sync(IF k = "A" THEN Dec(at) ELSE at)
                [] OTHER -> at)
InsertKeys == {"o", "O", "i", "I", "a", "A"}

insert_5(u, k, in) == InsertOf(dot_5, dot_decrease_4, synchronize_5, u, k, in)
\* colon(): in is the order typed; any other order does nothing.
colon_5(u, in) == CASE in = <<"q!">> -> [u EXCEPT !.editing = 0]
                    [] in = <<"q">> -> IF u.changed = 1 THEN u ELSE [u EXCEPT !.editing = 0]
                    [] in = <<"wq">> -> [file_save_4(u) EXCEPT !.editing = 0]
                    [] in = <<"w">> -> file_save_4([u EXCEPT !.changed = 0])
                    [] OTHER -> u
doCmd_5(u, k, in) == CASE k \in MotionKeys -> MotionOf(dot_5, Page_4, u, k)
                       [] k \in EditKeys -> EditOf(u, k, in)
                       [] k \in InsertKeys -> insert_5(u, k, in)
                       [] k = ":" -> colon_5(u, in)
                       [] k = "^R" -> redraw(u)
                       [] k \in {"q", "Z"} -> Leave_4(u, k, in)
                       [] OTHER -> u
Step_5(u, k, in) == synchronize_5(doCmd_5(u, k, in))

-----------------------------------------------------------------------------
(* vi_6: the screen is drawn only when screenbegin has changed *)

dot_6(u, f) == dot_5(u, f)
drawMoved(m) == IF ~m.lost /\ m.syn # m.scr THEN redraw([m EXCEPT !.syn = m.scr]) ELSE m
synchronize_6(u) == IF u.lost THEN u ELSE drawMoved(modifyScreenBegin(u))
insert_6(u, k, in) == InsertOf(dot_6, dot_decrease_4, synchronize_6, u, k, in)
colon_6(u, in) == colon_5(u, in)
doCmd_6(u, k, in) == CASE k \in MotionKeys -> MotionOf(dot_6, Page_4, u, k)
                       [] k \in EditKeys -> EditOf(u, k, in)
                       [] k \in InsertKeys -> insert_6(u, k, in)
                       [] k = ":" -> colon_6(u, in)
                       [] k = "^R" -> redraw(u)
                       [] k \in {"q", "Z"} -> Leave_4(u, k, in)
                       [] OTHER -> synchronize_6(u)
Step_6(u, k, in) == synchronize_6(doCmd_6(u, k, in))

-----------------------------------------------------------------------------
(* vi_7: searching *)

dot_7(u, f) == dot_6(u, f)
synchronize_7(u) == synchronize_6(u)

\* findChar(): the loop stops at the last character of the line.
RECURSIVE Seek(_, _, _, _)
Seek(u, p, lineEnd, c) == IF p >= lineEnd THEN p
                          ELSE IF At(u, p + 1) = c THEN p + 1 ELSE Seek(u, p + 1, lineEnd, c)
findChar_7(u, c) == LET e == end_line(u, u.dot)
                        p == Seek(u, u.dot, e, c)
                    IN  IF p = e THEN u ELSE [u EXCEPT !.dot = p]
find_7(u, k, in) == CASE k = "f" -> findChar_7(u, in[1])
                      [] k = "/" -> FindFrom(u, u.dot, FALSE, in)
                      [] k = "N" -> FindBack(u, u.dot, FALSE, in)
FindKeys == {"f", "/", "N"}

insert_7(u, k, in) == InsertOf(dot_7, dot_decrease_4, synchronize_7, u, k, in)
colon_7(u, in) == colon_6(u, in)
doCmd_7(u, k, in) == CASE k \in MotionKeys -> MotionOf(dot_7, Page_4, u, k)
                       [] k \in FindKeys -> find_7(u, k, in)
                       [] k \in EditKeys -> EditOf(u, k, in)
                       [] k \in InsertKeys -> insert_7(u, k, in)
                       [] k = ":" -> colon_7(u, in)
                       [] k = "^R" -> redraw(u)
                       [] k \in {"q", "Z"} -> Leave_4(u, k, in)
                       [] OTHER -> synchronize_7(u)
Step_7(u, k, in) == synchronize_7(doCmd_7(u, k, in))

-----------------------------------------------------------------------------
(* vi_8: the code of vi_7 in another order.  vi_9: no q, but ^G *)

dot_8(u, f) == dot_7(u, f)
synchronize_8(u) == synchronize_7(u)
insert_8(u, k, in) == InsertOf(dot_8, dot_decrease_4, synchronize_8, u, k, in)
colon_8(u, in) == colon_7(u, in)
find_8(u, k, in) == find_7(u, k, in)
doCmd_8(u, k, in) == CASE k \in MotionKeys -> MotionOf(dot_8, Page_4, u, k)
                       [] k \in FindKeys -> find_8(u, k, in)
                       [] k \in EditKeys -> EditOf(u, k, in)
                       [] k \in InsertKeys -> insert_8(u, k, in)
                       [] k = ":" -> colon_8(u, in)
                       [] k = "^R" -> redraw(u)
                       [] k \in {"q", "Z"} -> Leave_4(u, k, in)
                       [] OTHER -> synchronize_8(u)
Step_8(u, k, in) == synchronize_8(doCmd_8(u, k, in))

dot_9(u, f) == dot_8(u, f)
synchronize_9(u) == synchronize_8(u)
insert_9(u, k, in) == InsertOf(dot_9, dot_decrease_4, synchronize_9, u, k, in)
colon_9(u, in) == colon_8(u, in)
find_9(u, k, in) == IF k = "f" THEN find_8(u, k, in) ELSE synchronize_9(find_8(u, k, in))
doCmd_9(u, k, in) == CASE k \in MotionKeys -> MotionOf(dot_9, Page_4, u, k)
                       [] k \in FindKeys -> find_9(u, k, in)
                       [] k \in EditKeys -> EditOf(u, k, in)
                       [] k \in InsertKeys -> insert_9(u, k, in)
                       [] k = ":" -> colon_9(u, in)
                       [] k = "^R" -> redraw(u)
                       [] k = "^G" -> ShowPosition(u)
                       [] k = "Z" -> Leave_4(u, k, in)
                       [] OTHER -> u
Step_9(u, k, in) == synchronize_9(doCmd_9(u, k, in))

-----------------------------------------------------------------------------
(* Properties.  All versions are started from each state of the final one.   *)

Step(v, u, c) == CASE v = 3 -> Step_3(u, c[1])
                   [] v = 4 -> Step_4(u, c[1], c[2]) [] v = 5 -> Step_5(u, c[1], c[2])
                   [] v = 6 -> Step_6(u, c[1], c[2]) [] v = 7 -> Step_7(u, c[1], c[2])
                   [] v = 8 -> Step_8(u, c[1], c[2]) [] v = 9 -> Step_9(u, c[1], c[2])

\* The commands of version v that leave the editor running, with their input.
CommandsOf(v) ==
    (MotionKeys \X {<<>>})
    \cup (IF v >= 4 THEN ({"~", "d", "x", "J", "D", ">", "<"} \X {<<>>})
                          \cup ({"r", "R"} \X {<<c>> : c \in Printable}) ELSE {})
    \cup (IF v >= 5 THEN InsertKeys \X ({<<c>> : c \in Printable} \cup {<<"LEFT">>, <<"END">>}) ELSE {})
    \cup (IF v >= 7 THEN ({"f"} \X {<<c>> : c \in Sought}) \cup ({"/", "N"} \X Patterns) ELSE {})

\* Where the final version, as Vi has it, ends.
Final(k, in) ==
    CASE k \in MotionKeys -> Synchronized(Moved(ed, k))
      [] k \in {"r", "R"} -> Overtype(ed, in[1])
      [] k \in InsertKeys -> LET b == Begun(ed, k)
                             IN  IF b.lost THEN b
                                 ELSE CASE in = <<"LEFT">> -> Synchronized(dot_left(b))
                                        [] in = <<"END">> -> Synchronized(dot_left(dot_tail(b)))
                                        [] OTHER -> Type(b, in[1])
      [] k = "f" -> Synchronized(findChar(ed, in[1]))
      [] k = "/" -> Synchronized(findString(ed, in))
      [] k = "N" -> Synchronized(reverseFindString(ed, in))
      [] OTHER -> Synchronized(Edits(ed, k))

\* States that differ only in what was searched for or saved are looked at once.
Fresh == /\ mode = "command" /\ editing = 1 /\ ~ed.lost
         /\ lastFindChar = NUL /\ lastFindString = <<>> /\ file \in Texts /\ edits < MaxEdits /\ hasChanged = edits

\* Only PAGEDN of the later versions can make a screen begin inside a line.
LineAtTop == begin_line(ed, ed.scr) = ed.scr

\* From the fourth version on each command ends in the same text, at the same
\* dot and on the same screen as in the final one, or never ends in both,
\* although the versions share no function but by copying.
KeepsCommands == Fresh => \A v \in 4..9 : \A c \in CommandsOf(v) :
                              Same(Step(v, Start(ed, 0), c), Final(c[1], c[2]))

\* The first version does not come back once dot is the last character (its
\* header: j cannot reach the end of the file); otherwise its cursor is the
\* cell of dot (its header: dot and cursor do not correspond) unless dot is at
\* the end of a line or a line fills its rows, or has a tab.
FirstVersion ==
    Fresh /\ LineAtTop => \A k \in {"h", "l", "k", "j"} :
        LET d == doCmd_1(Start(ed, 0), k)
            r == Step_1(Start(ed, 0), k)
            tails == {p \in r.scr..r.dot : At(r, p) = "nl"}
            even == \E p \in tails : (p - begin_line(r, p)) % COLS = 0
        IN  /\ r.lost <=> d.dot >= d.end - 1
            /\ ~(r.lost \/ even \/ r.dot \in tails \/ \E p \in r.scr..r.dot : At(r, p) \in {"tab", NUL})
                   => countScreenBeginToDot_1(r) = Count(r, r.scr)

\* The second version moves as the final one as long as each line fits into
\* one row; with longer lines its screen does not follow dot.
SecondVersion ==
    Fresh /\ LineAtTop /\ (\A p \in 0..(ed.end - 1) : /\ At(ed, p) # "tab"
                                                      /\ end_line(ed, p) - begin_line(ed, p) < COLS)
        => \A k \in {"h", "l", "k", "j", "^", "$"} : Same(Step_2(Start(ed, 0), k), Final(k, <<>>))

\* The third version cannot leave the screen upwards and pages differently, but
\* its b always comes back: the change of dot_decrease() that lets the fourth
\* leave the screen is what makes b hang there.
ThirdVersion ==
    Fresh /\ LineAtTop /\ ed.dot < ed.end => \A k \in MotionKeys :
        LET r == Step_3(Start(ed, 0), k)
        IN  /\ k = "b" => ~r.lost
            /\ ~Same(r, Final(k, <<>>)) => \/ k \in {"PAGEUP", "PAGEDN", "b"}
                                           \/ k = "k" /\ begin_line(ed, ed.dot) = ed.scr /\ ed.scr > 0

\* After each command the screen shows the text, except that since the sixth
\* version, which draws only a screen that has moved, ~ J D < and > leave the
\* old text on it.
ScreenCurrent ==
    Fresh => \A v \in 3..9 : \A c \in CommandsOf(v) : \A r \in {Step(v, Start(ed, 0), c)} :
        ~r.lost /\ r.shown # OnScreen(r)
            => v >= 6 /\ c[1] \in {"~", "J", "D", "<", ">"} /\ r.scr = ed.scr

\* No version forgets a change: a command that changes the text sets
\* hasChanged, and with hasChanged set the editor is left without saving only
\* by :q! and by q and a key that is not w.
ChangesKept ==
    Fresh => \A v \in 4..9 :
        /\ \A c \in CommandsOf(v) : \A r \in {Step(v, Start(ed, 0), c)} :
               ~r.lost /\ Text(r) # Text(ed) => r.changed = 1
        /\ \A c \in ({"q"} \X {<<"w">>, <<"x">>}) \cup {<<"Z", <<"Z">>>>}
                        \cup ({":"} \X {<<"q">>, <<"q!">>, <<"w">>, <<"wq">>, <<"hg">>}) :
               \A r \in {Step(v, Start(ed, 1), c)} :
                   r.editing = 0 /\ ~r.saved => c \in {<<"q", <<"x">>>>, <<":", <<"q!">>>>}

\* How the nine versions differ, exactly: in motions, in what hangs, in what the
\* screen shows and in what a change leaves behind.
VersionsDiffer == /\ KeepsCommands /\ FirstVersion /\ SecondVersion /\ ThirdVersion
                  /\ ScreenCurrent /\ ChangesKept
=============================================================================
