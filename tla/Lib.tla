-------------------------------- MODULE Lib --------------------------------
(* The functions on strings, memory and numbers that kernel and programs    *)
(* share: string.c, ulib.c, printf.c, the name handling of fs.c and ls.c,   *)
(* the matcher and the read loop of grep.c, the counter of wc.c.            *)
(*                                                                          *)
(* A behaviour is one call: Init picks the call, its step computes what the *)
(* code returns, and the invariants compare that with a definition that     *)
(* does not follow the code.  grep() and wc() take one step per read().     *)
(* A string is a sequence without its closing 0; where the 0 matters the    *)
(* string is an array of cells in which NUL ends it.                        *)
EXTENDS Integers, FiniteSets, SequencesExt
CONSTANTS Letters,   \* what names, lines and patterns are made of
          MaxLen,    \* the longest name, line or pattern
          DIRSIZ,    \* fs.h: the longest name in a directory
          Width,     \* the bits of an int
          BufSize,   \* grep.c and wc.c: sizeof(buf)
          Streams    \* what grep() and wc() read
VARIABLES call,      \* the call: the function, its arguments, what it returned
          stream     \* grep() and wc(): all of the input, what is still to be read, buf, and what was done so far

libVars == <<call, stream>>

NUL == "0"
Words(set, n) == UNION {[1 .. k -> set] : k \in 0 .. n}
Cell(s, k) == IF k <= Len(s) THEN s[k] ELSE NUL       \* what a pointer k - 1 cells into the string reads
Tail2(s) == SubSeq(s, 3, Len(s))
Upto(n) == [k \in 1 .. n |-> k]
None == <<>>        \* no answer yet; an answer v is <<v>>

------------------------------------------------------------------------------
(* Memory.  Cells are numbered from 1. *)

CopyUp(mem, dst, src, n) == FoldLeft(LAMBDA m, k : [m EXCEPT ![dst + k - 1] = m[src + k - 1]], mem, Upto(n))
CopyDown(mem, dst, src, n) == FoldLeft(LAMBDA m, k : [m EXCEPT ![dst + n - k] = m[src + n - k]], mem, Upto(n))
kmemmoveUp(mem, dst, src, n) == CopyUp(mem, dst, src, n)
kmemmove(mem, dst, src, n) == IF src < dst /\ src + n > dst THEN CopyDown(mem, dst, src, n) ELSE CopyUp(mem, dst, src, n)
umemmove(mem, dst, src, n) == CopyUp(mem, dst, src, n)

Moved(mem, dst, src, n) == [c \in DOMAIN mem |-> IF c \in dst .. dst + n - 1 THEN mem[c - dst + src] ELSE mem[c]]

------------------------------------------------------------------------------
(* Names.  An array keeps what was in it where nothing is written. *)

\* The copy stops behind the 0 of t, and strncpy() fills the rest with 0.
strncpy(s, t, n) == [k \in DOMAIN s |-> IF k <= n THEN Cell(t, k) ELSE s[k]]
\* It copies at most n - 1 characters, up to and with the 0 of t, and puts a 0 behind them.
safestrcpy(s, t, n) == LET copied == IF n - 1 < Len(t) + 1 THEN n - 1 ELSE Len(t) + 1
                       IN  [k \in DOMAIN s |-> IF n <= 0 \/ k > copied + 1 THEN s[k]
                                              ELSE IF k <= copied THEN Cell(t, k) ELSE NUL]

\* strncmp() of two arrays: no difference before a 0 or the n-th cell.
strncmpFull(p, q, n) == \A k \in 1 .. n : p[k] = q[k]
strncmp(p, q, n) == ~ \E k \in 1 .. n : p[k] # q[k] /\ \A j \in 1 .. k - 1 : p[j] = q[j] /\ p[j] # NUL

FirstNot(path, set) == LET at == {k \in DOMAIN path : path[k] \notin set}
                       IN  IF at = {} THEN Len(path) + 1 ELSE CHOOSE k \in at : \A j \in at : k <= j
SkipSlash(path) == SubSeq(path, FirstNot(path, {"/"}), Len(path))
\* One name off the front of the path: <<the rest, name>>, None when there is none.
skipelemOpen(path, name) ==
    LET s == SkipSlash(path)
        len == FirstNot(s, Letters) - 1
    IN  IF s = <<>> THEN None
        ELSE <<SkipSlash(SubSeq(s, len + 1, Len(s))), [k \in 1 .. DIRSIZ |-> IF k <= len THEN s[k] ELSE name[k]]>>
skipelem(path, name) ==
    LET s   == SkipSlash(path)
        len == FirstNot(s, Letters) - 1
    IN  IF s = <<>> THEN None
        ELSE << SkipSlash(SubSeq(s, len + 1, Len(s))),
                [k \in 1 .. DIRSIZ |-> IF k <= len THEN s[k] ELSE IF k = len + 1 THEN NUL ELSE name[k]] >>
\* The names that namex() looks up, one after the other, in the same array.
RECURSIVE Elements(_, _)
Elements(path, name) == LET e == skipelem(path, name)
                        IN  IF e = None THEN <<>> ELSE <<e[2]>> \o Elements(e[1], e[2])

\* ls.c: the name behind the last slash, filled with blanks.
fmtname(path) ==
    LET at == {k \in DOMAIN path : path[k] = "/"}
        p  == SubSeq(path, (IF at = {} THEN 0 ELSE CHOOSE k \in at : \A j \in at : j <= k) + 1, Len(path))
    IN  IF Len(p) >= DIRSIZ THEN p ELSE p \o [k \in 1 .. DIRSIZ - Len(p) |-> " "]

\* What an array holds as a string, and what a name keeps of a word.
Held(a) == LET at == {k \in DOMAIN a : a[k] = NUL}
           IN  SubSeq(a, 1, (IF at = {} THEN Len(a) + 1 ELSE CHOOSE k \in at : \A j \in at : k <= j) - 1)
Short(w) == SubSeq(w, 1, IF Len(w) < DIRSIZ THEN Len(w) ELSE DIRSIZ)

------------------------------------------------------------------------------
(* Numbers. *)

Digits(x, base) == LET RECURSIVE ds(_)
                       ds(y) == (IF y < base THEN <<>> ELSE ds(y \div base)) \o <<y % base>>
                   IN  ds(x)
\* x is unsigned: minus the least int is itself, as a uint.
printintSigned(xx, base, sgn) == [neg |-> sgn /\ xx < 0, digits |-> Digits((IF sgn /\ xx < 0 THEN -xx ELSE xx) % 2 ^ (Width - 1), base)]
printint(xx, base, sgn) == LET neg == sgn /\ xx < 0
                               x   == (IF neg THEN -xx ELSE xx) % 2 ^ Width
                           IN  [neg |-> neg, digits |-> Digits(x, base)]

Value(ds, base) == FoldLeft(LAMBDA v, d : v * base + d, 0, ds)
atoi(ds) == FoldLeft(LAMBDA n, d : (n * 10 + d) % 2 ^ Width, 0, ds)

\* printf(): what is put out, a character or an argument in a form, and how many arguments were taken.
printfStep(st, c) ==
    LET put(x) == [st EXCEPT !.out = @ \o x, !.pct = FALSE]
        arg    == [st EXCEPT !.out = Append(@, <<c, st.ap>>), !.ap = @ + 1, !.pct = FALSE]
    IN  IF ~st.pct THEN IF c = "%" THEN [st EXCEPT !.pct = TRUE] ELSE put(<<<<c>>>>)
        ELSE IF c \in {"d", "x", "p", "s", "c"} THEN arg
        ELSE IF c = "%" THEN put(<<<<c>>>>) ELSE put(<<<<"%">>, <<c>>>>)
printf(fmt) == FoldLeft(printfStep, [out |-> <<>>, ap |-> 1, pct |-> FALSE], fmt)

------------------------------------------------------------------------------
(* The matcher of grep.c. *)

RECURSIVE matchhere(_, _)
RECURSIVE matchstar(_, _, _)
matchstarOnce(c, re, text) == \/ text # <<>> /\ (text[1] = c \/ c = ".") /\ matchstar(c, re, Tail(text))
                              \/ text = <<>> /\ matchhere(re, text)
matchstar(c, re, text) == \/ matchhere(re, text)
                          \/ text # <<>> /\ (text[1] = c \/ c = ".") /\ matchstar(c, re, Tail(text))
matchhere(re, text) == IF re = <<>> THEN TRUE
                       ELSE IF Cell(re, 2) = "*" THEN matchstar(re[1], Tail2(re), text)
                       ELSE IF re = <<"$">> THEN text = <<>>
                       ELSE text # <<>> /\ re[1] \in {".", text[1]} /\ matchhere(Tail(re), Tail(text))
match(re, text) == IF Cell(re, 1) = "^" THEN matchhere(Tail(re), text)
                   ELSE \E k \in 0 .. Len(text) : matchhere(re, SubSeq(text, k + 1, Len(text)))

\* What a pattern means: its items, each a character that stands once or any
\* number of times, cover a stretch of the line, item k the cells cut[k] + 1 .. cut[k + 1].
RECURSIVE Items(_)
Items(re) == IF re = <<>> THEN <<>>
             ELSE IF Cell(re, 2) = "*" THEN <<[c |-> re[1], star |-> TRUE]>> \o Items(Tail2(re))
             ELSE <<[c |-> re[1], star |-> FALSE]>> \o Items(Tail(re))
Means(re, text) ==
    LET start == Cell(re, 1) = "^"
        items == Items(IF start THEN Tail(re) ELSE re)
        end   == items # <<>> /\ Last(items) = [c |-> "$", star |-> FALSE]
        body  == IF end THEN Front(items) ELSE items
        n     == Len(body)
    IN  \E cut \in [1 .. n + 1 -> 0 .. Len(text)] :
            /\ start => cut[1] = 0
            /\ end => cut[n + 1] = Len(text)
            /\ \A k \in 1 .. n : /\ cut[k] <= cut[k + 1]
                                 /\ ~body[k].star => cut[k + 1] = cut[k] + 1
                                 /\ \A j \in cut[k] + 1 .. cut[k + 1] : body[k].c \in {".", text[j]}

------------------------------------------------------------------------------
(* One step for each function. *)

Returns(f, v) == call.fn = f /\ call.out = None /\ call' = [call EXCEPT !.out = <<v>>] /\ UNCHANGED stream

memmove == \/ Returns("kmemmove", kmemmove(call.mem, call.dst, call.src, call.n))
           \/ Returns("umemmove", umemmove(call.mem, call.dst, call.src, call.n))
copyName == \/ Returns("safestrcpy", safestrcpy(call.s, call.t, call.n))
            \/ Returns("namecmp", strncmp(strncpy(call.s, call.t, DIRSIZ), skipelem(call.u, call.s)[2], DIRSIZ))
split == Returns("namex", <<Elements(call.path, call.name), fmtname(call.path)>>)
number == \/ Returns("printint", printint(call.xx, call.base, call.sgn))
          \/ Returns("printf", printf(call.fmt))
search == Returns("match", match(call.re, call.text))

\* read(): a file gives all that is asked for while it lasts, a pipe or the
\* console may give less.
Reads(room) == LET most == IF Len(stream.rest) < room THEN Len(stream.rest) ELSE room
               IN  IF stream.file THEN {most} ELSE IF most = 0 THEN {0} ELSE 1 .. most

\* The lines that are whole in s, and what is left behind the last of them.
RECURSIVE Cut(_)
Cut(s) == LET k == FirstNot(s, Letters)
          IN  IF k > Len(s) THEN <<<<>>, s>>
              ELSE LET more == Cut(SubSeq(s, k + 1, Len(s))) IN <<<<SubSeq(s, 1, k - 1)>> \o more[1], more[2]>>
\* What stays in buf: nothing when no line end was found in all of it.
LeftNothing(buf) == <<>>
Left(buf) == IF Cut(buf)[1] = <<>> THEN <<>> ELSE Cut(buf)[2]
grep == /\ call.fn = "grep" /\ call.out = None
        /\ \E n \in Reads(BufSize - Len(stream.buf) - 1) :
              LET buf == stream.buf \o SubSeq(stream.rest, 1, n) IN
              IF n = 0 THEN call' = [call EXCEPT !.out = <<stream.done>>] /\ UNCHANGED stream
              ELSE /\ stream' = [stream EXCEPT !.rest = SubSeq(@, n + 1, Len(@)), !.buf = Left(buf),
                                               !.done = @ \o SelectSeq(Cut(buf)[1], LAMBDA line : match(call.re, line))]
                   /\ UNCHANGED call

Counted(d, c) == [l |-> d.l + (IF c = "nl" THEN 1 ELSE 0), c |-> d.c + 1, inword |-> c \in Letters,
                  w |-> d.w + (IF c \in Letters /\ ~d.inword THEN 1 ELSE 0)]
\* The counts go on from one buffer to the next.
BufferNew(d) == [d EXCEPT !.inword = FALSE]
Buffer(d) == d
wc == /\ call.fn = "wc" /\ call.out = None
      /\ \E n \in Reads(BufSize) :
            IF n = 0 THEN call' = [call EXCEPT !.out = <<stream.done>>] /\ UNCHANGED stream
            ELSE /\ stream' = [stream EXCEPT !.rest = SubSeq(@, n + 1, Len(@)),
                                             !.done = FoldLeft(Counted, Buffer(@), SubSeq(stream.rest, 1, n))]
                 /\ UNCHANGED call

\* gets(): a character at a time, to a line end, the end of the input or max - 1.
RoomOne(i) == i < call.max
Room(i) == i + 1 < call.max
gets == /\ call.fn = "gets" /\ call.out = None
        /\ LET i == Len(stream.done) IN
           IF Room(i) /\ stream.rest # <<>> /\ ~(i > 0 /\ stream.done[i] = "nl")
           THEN stream' = [stream EXCEPT !.rest = Tail(@), !.done = Append(@, Head(stream.rest))] /\ UNCHANGED call
           ELSE call' = [call EXCEPT !.out = <<Append(stream.done, NUL)>>] /\ UNCHANGED stream

------------------------------------------------------------------------------

Mem == <<"a", "b", "c", "d", "e">>
Junk == [k \in 1 .. DIRSIZ + 1 |-> "x"]
Signed == -(2 ^ (Width - 1)) .. 2 ^ (Width - 1) - 1
Patterns == Words({"a", ".", "*", "$", "^"}, MaxLen)
NoStream == [all |-> <<>>, rest |-> <<>>, file |-> TRUE, buf |-> <<>>, done |-> <<>>]
Zero == [l |-> 0, w |-> 0, c |-> 0, inword |-> FALSE]
CopyCalls ==
    {[fn |-> f, mem |-> Mem, dst |-> d, src |-> s, n |-> n, out |-> None] :
            f \in {"kmemmove", "umemmove"}, d \in 1 .. 3, s \in 1 .. 3, n \in 0 .. 3}
StrcpyCalls == {[fn |-> "safestrcpy", s |-> Junk, t |-> t, n |-> n, out |-> None] : t \in Words(Letters, MaxLen), n \in 0 .. DIRSIZ}
NameCalls ==
    {[fn |-> "namecmp", s |-> Junk, t |-> t, u |-> u, out |-> None] : t \in Words(Letters, MaxLen), u \in Words(Letters, MaxLen) \ {<<>>}}
PathCalls == {[fn |-> "namex", path |-> p, name |-> Junk, out |-> None] : p \in Words(Letters \cup {"/"}, MaxLen + 1)}
NumberCalls == {[fn |-> "printint", xx |-> x, base |-> b, sgn |-> s, out |-> None] : x \in Signed, b \in {10, 16}, s \in BOOLEAN}
FormatCalls == {[fn |-> "printf", fmt |-> f, out |-> None] : f \in Words({"%", "d", "s", "a"}, MaxLen + 1)}
MatchCalls == {[fn |-> "match", re |-> r, text |-> t, out |-> None] : r \in Patterns, t \in Words(Letters, MaxLen - 1)}
StreamCalls == {[fn |-> "grep", re |-> <<"a">>, out |-> None], [fn |-> "wc", out |-> None]}
               \cup {[fn |-> "gets", max |-> m, out |-> None] : m \in 1 .. BufSize}

LibInit == \/ /\ stream = NoStream
              /\ \/ call \in CopyCalls \/ call \in StrcpyCalls \/ call \in NameCalls \/ call \in PathCalls
                 \/ call \in NumberCalls \/ call \in FormatCalls \/ call \in MatchCalls
           \/ /\ call \in StreamCalls
              /\ \E s \in Streams, f \in BOOLEAN :
                    stream = [all |-> s, rest |-> s, file |-> f, buf |-> <<>>, done |-> IF call.fn = "wc" THEN Zero ELSE <<>>]
LibNext == memmove \/ copyName \/ split \/ number \/ search \/ grep \/ wc \/ gets

------------------------------------------------------------------------------

Done(f) == call.fn = f /\ call.out # None
Out == call.out[1]
Prefix(s, n) == SubSeq(s, 1, IF n < Len(s) THEN n ELSE Len(s))

\* The kernel's memmove() copies right however the two stretches overlap; the
\* one of the user library when it does not copy upwards into its own source,
\* which is how grep() uses it.
CopyExact ==
    \A f \in {"kmemmove", "umemmove"} : Done(f) =>
        LET d == call.dst  s == call.src  n == call.n IN
        ~(f = "umemmove" /\ s < d /\ d < s + n) => Out = Moved(call.mem, d, s, n)

\* A name that dirlink() stored with strncpy() is found by dirlookup() for
\* exactly the path elements with the same first DIRSIZ characters, whatever the
\* array of namex() held before; safestrcpy() stays in its array and ends the name.
NamesMatch ==
    /\ Done("namecmp") => Out = (Short(call.t) = Short(call.u))
    /\ Done("safestrcpy") /\ call.n > 0 =>
          /\ Held(Out) = Prefix(call.t, call.n - 1)
          /\ \A k \in call.n + 1 .. Len(call.s) : Out[k] = call.s[k]

\* namex() looks up the stretches between the slashes, each cut to DIRSIZ, in
\* their order; ls shows the last of them.
PathNames ==
    Done("namex") =>
        LET p      == call.path
            starts == {k \in DOMAIN p : p[k] # "/" /\ (k = 1 \/ p[k - 1] = "/")}
            from(k) == LET r == SubSeq(p, k, Len(p)) IN Prefix(r, FirstNot(r, Letters) - 1)
            names  == [i \in 1 .. Cardinality(starts) |->
                          from(CHOOSE k \in starts : Cardinality({j \in starts : j < k}) = i - 1)]
        IN  /\ Len(Out[1]) = Len(names)
            /\ \A i \in DOMAIN names : Held(Out[1][i]) = Short(names[i])
            /\ p # <<>> /\ Last(p) # "/" => SelectSeq(Out[2], LAMBDA c : c # " ") = Last(names)
            /\ Len(Out[2]) >= DIRSIZ

\* printint() prints every int of the machine, the least one included, without
\* leading zeros, and atoi() reads it back; printf() takes its arguments one
\* after the other, each once, and passes on what is no conversion.
Printed ==
    /\ Done("printint") =>
          LET o == Out  v == Value(o.digits, call.base) IN
          /\ (IF o.neg THEN -v ELSE v) = IF call.sgn THEN call.xx ELSE call.xx % 2 ^ Width
          /\ o.digits[1] = 0 => o.digits = <<0>>
          /\ call.base = 10 /\ ~o.neg => atoi(o.digits) = v
    /\ Done("printf") =>
          LET args == SelectSeq(Out.out, LAMBDA x : Len(x) = 2) IN
          /\ Len(args) = Out.ap - 1
          /\ \A k \in DOMAIN args : args[k][2] = k
          /\ SelectSeq(Out.out, LAMBDA x : x[1] = "a") = [k \in DOMAIN SelectSeq(call.fmt, LAMBDA c : c = "a") |-> <<"a">>]

\* match() finds a line exactly when the pattern's items cover a stretch of it,
\* the whole of it between ^ and $.
MatchRight == Done("match") => Out = Means(call.re, call.text)

Lines(s) == Cut(s)[1]
\* grep() on a file whose lines fit the buffer prints exactly the matching lines
\* that are ended, in their order.  Of anything else it reads, it prints no line
\* that is not the end of one of the lines.
GrepLines ==
    Done("grep") =>
        /\ stream.file /\ (\A k \in DOMAIN Lines(stream.all) : Len(Lines(stream.all)[k]) + 1 < BufSize) =>
              Out = SelectSeq(Lines(stream.all), LAMBDA line : match(call.re, line))
        /\ \A k \in DOMAIN Out : \E j \in DOMAIN Lines(stream.all) : IsSuffix(Out[k], Lines(stream.all)[j])

\* wc() counts the same, however read() cuts the text into pieces: the words are
\* the stretches of letters.
WcCounts ==
    Done("wc") =>
        LET t == stream.all IN
        /\ Out.c = Len(t)
        /\ Out.l = Cardinality({k \in DOMAIN t : t[k] = "nl"})
        /\ Out.w = Cardinality({k \in DOMAIN t : t[k] \in Letters /\ (k = 1 \/ t[k - 1] \notin Letters)})

\* gets() gives the first line with its end, or as much of it as fits before the
\* closing 0, and takes no more of the input.
GetsLine ==
    Done("gets") =>
        LET t == stream.all
            line == Prefix(t, FirstNot(t, Letters))
        IN  /\ Out = Append(Prefix(line, call.max - 1), NUL)
            /\ Len(Out) <= call.max
            /\ t = Front(Out) \o stream.rest

\* The functions of the libraries and the filters do what their definitions say,
\* on every short input and however read() cuts it.
LibRight == /\ CopyExact /\ NamesMatch /\ PathNames /\ Printed
            /\ MatchRight /\ GrepLines /\ WcCounts /\ GetsLine
=============================================================================
