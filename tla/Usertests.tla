----------------------------- MODULE Usertests ------------------------------
(***************************************************************************)
(* The tests of usertests.c as programs of User, with the names, checks    *)
(* and order of their calls.  Counts are reduced: four processes to two or *)
(* three, hundreds of rounds to two or three, buffers to a few bytes, where *)
(* a byte stands for the block or the string the test writes at a time.    *)
(***************************************************************************)
EXTENDS Calls

iputtest == <<Ok(Mkdir(<<"iputdir">>)), Ok(Chdir(<<"iputdir">>)), Ok(Unlink(<<"..", "iputdir">>)), Ok(Chdir(<<"/">>))>>

exitiputtest ==
    <<Ok(Fork(<<Ok(Mkdir(<<"iputdir">>)), Ok(Chdir(<<"iputdir">>)), Ok(Unlink(<<"..", "iputdir">>))>>)), Wait>>

openiputtest == <<Ok(Mkdir(<<"oidir">>)), Ok(Fork(<<Fails(Open(<<"oidir">>, "rw"))>>)), Sleep,
                  Ok(Unlink(<<"oidir">>)), Wait>>

opentest == <<Ok(Open(<<"echo">>, "r")), Close("fd"), Fails(Open(<<"doesnotexist">>, "r"))>>

writetest == <<Ok(Creat(<<"small">>, "rw")), Ok(Write("fd", <<"a">>)), Ok(Write("fd", <<"b">>)),
               Ok(Write("fd", <<"a">>)), Ok(Write("fd", <<"b">>)), Close("fd"),
               Ok(Open(<<"small">>, "r")), Read("fd", 4, {<<x, y, z, w>> : x, y, z, w \in {"a", "b"}}),
               Close("fd"), Ok(Unlink(<<"small">>))>>

\* With MAXFILE = 3: only a file that is one block short is complained about.
writetest1 == <<Ok(Creat(<<"big">>, "rw")), Ok(Write("fd", <<0>>)), Ok(Write("fd", <<1>>)), Ok(Write("fd", <<2>>)),
                Close("fd"), Ok(Open(<<"big">>, "r")), ReadAll("fd", 1, {<<>>, <<0>>, <<0, 1, 2>>}),
                Close("fd"), Ok(Unlink(<<"big">>))>>

createtest == LET names == <<"a0", "a1", "a2">>
              IN  Each(names, LAMBDA n : <<Creat(<<n>>, "rw"), Close("fd")>>) \o Each(names, LAMBDA n : <<Unlink(<<n>>)>>)

dirtest == <<Ok(Mkdir(<<"dir0">>)), Ok(Chdir(<<"dir0">>)), Ok(Chdir(<<"..">>)), Ok(Unlink(<<"dir0">>))>>

exectest == <<Ok(Exec(<<<<"echo">>, <<"ALL">>, <<"TESTS">>, <<"PASSED">>>>))>>

\* A write is as long as the pipe, so that the writer has to wait.
pipe1 == <<Ok(Pipe),
           Ok(Fork(<<Close("p0"), Ok(Write("p1", <<0, 1>>)), Ok(Write("p1", <<2, 3>>))>>)),
           Close("p1"), ReadAll("p0", 4, {<<0, 1, 2, 3>>}), Close("p0"), Wait>>

preempt == <<Fork(<<Forever>>), Into(Fork(<<Forever>>), "pid1"), Pipe,
             Into(Fork(<<Close("p0"), Ok(Write("p1", <<"x">>)), Close("p1"), Forever>>), "pid2"),
             Close("p1"), Read("p0", 2, {<<"x">>}), Close("p0"),
             Kill("pid"), Kill("pid1"), Kill("pid2"), Wait, Wait, Wait>>

exitwait == <<Ok(Fork(<<>>)), WaitPid, Ok(Fork(<<>>)), WaitPid, Ok(Fork(<<>>)), WaitPid>>

\* Both processes write through one descriptor; no byte may be lost.
sharedfd ==
    LET writes(c) == <<Ok(Write("fd", <<c>>)), Ok(Write("fd", <<c>>))>>
        mixed == {s \in [1..4 -> {"c", "p"}] : Cardinality({k \in 1..4 : s[k] = "c"}) = 2}
    IN  <<Unlink(<<"sharedfd">>), Ok(Creat(<<"sharedfd">>, "rw")), Fork(writes("c"))>> \o writes("p")
        \o <<Wait, Close("fd"), Ok(Open(<<"sharedfd">>, "r")), ReadAll("fd", 1, mixed), Close("fd"), Unlink(<<"sharedfd">>)>>

\* Three processes; the first two files are looked at and removed.
fourfiles ==
    LET names == <<"f0", "f1", "f2">>
    IN  Each(names, LAMBDA n : <<Unlink(<<n>>),
                                 Ok(Fork(<<Ok(Creat(<<n>>, "rw")), Ok(Write("fd", <<n>>)), Ok(Write("fd", <<n>>))>>))>>)
        \o <<Wait, Wait, Wait>>
        \o Each(SubSeq(names, 1, 2), LAMBDA n : <<Open(<<n>>, "r"), ReadAll("fd", 2, {<<n, n>>}), Close("fd"), Unlink(<<n>>)>>)

\* Two processes, N = 4.  The last loop takes its names from i alone and removes
\* p0 and q1 only.
createdelete ==
    LET make(a, b, c, d) == <<Ok(Creat(<<a>>, "rw")), Close("fd"), Ok(Creat(<<b>>, "rw")), Close("fd"),
                              Ok(Creat(<<c>>, "rw")), Close("fd"), Ok(Unlink(<<b>>)), Ok(Creat(<<d>>, "rw")), Close("fd")>>
        exist(n) == <<Ok(Open(<<n>>, "r")), Close("fd")>>
    IN  <<Ok(Fork(make("p0", "p1", "p2", "p3"))), Ok(Fork(make("q0", "q1", "q2", "q3"))), Wait, Wait>>
        \o exist("p0") \o exist("q0") \o <<Fails(Open(<<"p1">>, "r")), Fails(Open(<<"q1">>, "r"))>>
        \o exist("p2") \o exist("q2") \o exist("p3") \o exist("q3")
        \o Each(<<"p0", "q1", "r2", "s3">>, LAMBDA n : <<Unlink(<<n>>), Unlink(<<n>>)>>)

unlinkread == <<Ok(Creat(<<"unlinkread">>, "rw")), Write("fd", <<"hello">>), Close("fd"),
                Ok(Open(<<"unlinkread">>, "rw")), Ok(Unlink(<<"unlinkread">>)),
                Into(Creat(<<"unlinkread">>, "rw"), "fd1"), Write("fd1", <<"yyy">>), Close("fd1"),
                Read("fd", 5, {<<"hello">>}), Ok(Write("fd", <<"hello", "hello">>)), Close("fd"), Unlink(<<"unlinkread">>)>>

linktest == <<Unlink(<<"lf1">>), Unlink(<<"lf2">>), Ok(Creat(<<"lf1">>, "rw")), Ok(Write("fd", <<"hello">>)), Close("fd"),
              Ok(Link(<<"lf1">>, <<"lf2">>)), Unlink(<<"lf1">>), Fails(Open(<<"lf1">>, "r")),
              Ok(Open(<<"lf2">>, "r")), Read("fd", 5, {<<"hello">>}), Close("fd"),
              Fails(Link(<<"lf2">>, <<"lf2">>)), Unlink(<<"lf2">>), Fails(Link(<<"lf2">>, <<"lf1">>)),
              Fails(Link(<<".">>, <<"lf1">>))>>

\* For the numbers 0, 1, 4 and 6 of the files: those at which parent, child,
\* both or none of them links instead of creating.
concreate ==
    LET names == <<"C0", "C1", "C4", "C6">>
        link(n) == <<Link(<<"C0">>, <<n>>)>>
        create(n) == <<Ok(Creat(<<n>>, "rw")), Close("fd")>>
        round(n, parent, child) == <<Unlink(<<n>>), Fork(child)>> \o parent \o <<Wait>>
        opens(n) == FlattenSeq([k \in 1..2 |-> <<Open(<<n>>, "r"), Close("fd")>>])
        unlinks(n) == <<Unlink(<<n>>), Unlink(<<n>>)>>
        undo(n, parent, child) == <<Ok(Fork(child))>> \o parent \o <<Wait>>
    IN  round("C0", create("C0"), create("C0")) \o round("C1", link("C1"), link("C1"))
        \o round("C4", link("C4"), create("C4")) \o round("C6", create("C6"), link("C6"))
        \o <<Open(<<".">>, "r"), ReadNames("fd", {"C0", "C1", "C4", "C6"}), Close("fd")>>
        \o undo("C0", unlinks("C0"), opens("C0")) \o undo("C1", opens("C1"), unlinks("C1"))
        \o undo("C4", opens("C4"), unlinks("C4")) \o undo("C6", unlinks("C6"), opens("C6"))

\* Any sequence of the three operations for the pseudo-random ones.
linkunlink ==
    LET ops == Either({<<Creat(<<"x">>, "rw"), Close("fd")>>, <<Link(<<"cat">>, <<"x">>)>>, <<Unlink(<<"x">>)>>})
    IN  <<Unlink(<<"x">>), Ok(Fork(<<ops, ops>>)), ops, ops, Wait>>

bigdir == LET names == <<"x00", "x01", "x02">>
          IN  <<Unlink(<<"bd">>), Ok(Creat(<<"bd">>, "r")), Close("fd")>>
              \o Each(names, LAMBDA n : <<Ok(Link(<<"bd">>, <<n>>))>>)
              \o <<Unlink(<<"bd">>)>> \o Each(names, LAMBDA n : <<Ok(Unlink(<<n>>))>>)

\* What subdir asks for at the end must not exist or must be refused, until all is removed.
subdirEnd ==
    LET dd == "dd"
        ff == "ff"
        xx == "xx"
        ffff == "ffff"
    IN  <<Fails(Open(<<dd, dd, ff>>, "r")), Fails(Creat(<<dd, ff, ff>>, "rw")), Fails(Creat(<<dd, xx, ff>>, "rw")),
          Fails(Creat(<<dd>>, "r")), Fails(Open(<<dd>>, "rw")), Fails(Open(<<dd>>, "w")),
          Fails(Link(<<dd, ff, ff>>, <<dd, dd, xx>>)), Fails(Link(<<dd, xx, ff>>, <<dd, dd, xx>>)),
          Fails(Link(<<dd, ff>>, <<dd, dd, ffff>>)), Fails(Mkdir(<<dd, ff, ff>>)), Fails(Mkdir(<<dd, xx, ff>>)),
          Fails(Mkdir(<<dd, dd, ffff>>)), Fails(Unlink(<<dd, xx, ff>>)), Fails(Unlink(<<dd, ff, ff>>)),
          Fails(Chdir(<<dd, ff>>)), Fails(Chdir(<<dd, xx>>)),
          Ok(Unlink(<<dd, dd, ffff>>)), Ok(Unlink(<<dd, ff>>)), Fails(Unlink(<<dd>>)), Ok(Unlink(<<dd, dd>>)), Ok(Unlink(<<dd>>))>>

subdir ==
    LET dd == "dd"
        ff == "ff"
        ffff == "ffff"
    IN  <<Unlink(<<ff>>), Ok(Mkdir(<<dd>>)), Ok(Creat(<<dd, ff>>, "rw")), Write("fd", <<"f">>), Close("fd"),
          Fails(Unlink(<<dd>>)), Ok(Mkdir(<<"/", dd, dd>>)),
          Ok(Creat(<<dd, dd, ff>>, "rw")), Write("fd", <<"F">>), Close("fd"),
          Ok(Open(<<dd, dd, "..", ff>>, "r")), Read("fd", 2, {<<"f">>}), Close("fd"),
          Ok(Link(<<dd, dd, ff>>, <<dd, dd, ffff>>)), Ok(Unlink(<<dd, dd, ff>>)), Fails(Open(<<dd, dd, ff>>, "r")),
          Ok(Chdir(<<dd>>)), Ok(Chdir(<<dd, "..", "..", dd>>)), Ok(Chdir(<<dd, "..", "..", "..", dd>>)), Ok(Chdir(<<".", "..">>)),
          Ok(Open(<<dd, dd, ffff>>, "r")), Read("fd", 2, {<<"F">>}), Close("fd")>>
          \o subdirEnd

bigwrite == LET round(b) == <<Ok(Creat(<<"bigwrite">>, "rw")), Ok(Write("fd", b)), Ok(Write("fd", b)), Close("fd"), Unlink(<<"bigwrite">>)>>
            IN  <<Unlink(<<"bigwrite">>)>> \o round(<<0>>) \o round(<<0, 0>>)

bigfile == <<Unlink(<<"bigfile">>), Ok(Creat(<<"bigfile">>, "rw")), Ok(Write("fd", <<0, 0>>)), Ok(Write("fd", <<1, 1>>)), Close("fd"),
             Ok(Open(<<"bigfile">>, "r")), ReadAll("fd", 1, {<<0, 0, 1, 1>>}), Close("fd"), Unlink(<<"bigfile">>)>>

fourteen ==
    LET n14 == "12345678901234"
        n15 == "123456789012345"
    IN  <<Ok(Mkdir(<<n14>>)), Ok(Mkdir(<<n14, n15>>)), Ok(Creat(<<n15, n15, n15>>, "r")), Close("fd"),
          Ok(Open(<<n14, n14, n14>>, "r")), Close("fd"), Fails(Mkdir(<<n14, n14>>)), Fails(Mkdir(<<n15, n14>>))>>

rmdot == <<Ok(Mkdir(<<"dots">>)), Ok(Chdir(<<"dots">>)), Fails(Unlink(<<".">>)), Fails(Unlink(<<"..">>)), Ok(Chdir(<<"/">>)),
           Fails(Unlink(<<"dots", ".">>)), Fails(Unlink(<<"dots", "..">>)), Ok(Unlink(<<"dots">>))>>

dirfile == <<Ok(Creat(<<"dirfile">>, "r")), Close("fd"), Fails(Chdir(<<"dirfile">>)), Fails(Open(<<"dirfile", "xx">>, "r")),
             Fails(Creat(<<"dirfile", "xx">>, "r")), Fails(Mkdir(<<"dirfile", "xx">>)), Fails(Unlink(<<"dirfile", "xx">>)),
             Fails(Link(<<"README">>, <<"dirfile", "xx">>)), Ok(Unlink(<<"dirfile">>)),
             Fails(Open(<<".">>, "rw")), Open(<<".">>, "r"), Fails(Write("fd", <<"x">>)), Close("fd")>>

\* Two rounds; the empty path names no file.
iref == LET round == <<Ok(Mkdir(<<"irefd">>)), Ok(Chdir(<<"irefd">>)), Mkdir(<<>>), Link(<<"README">>, <<>>),
                       Creat(<<>>, "r"), Close("fd"), Creat(<<"xx">>, "r"), Close("fd"), Unlink(<<"xx">>)>>
        IN  round \o round \o <<Chdir(<<"/">>)>>

\* fork() until the table is full, wait() for every child, and for no more.
RECURSIVE forks(_, _)
forks(n, N) == IF n = N THEN <<Complain>>
               ELSE <<OrElse(Fork(<<>>), [k \in 1..n |-> Ok(Wait)] \o <<Fails(Wait)>>)>> \o forks(n + 1, N)
forktest == forks(0, 6)

\* BIG = 4 pages.  The second child that takes them runs out of memory.
sbrktest ==
    <<Ok(Sbrk(1)), Ok(Fork(<<Ok(Sbrk(1)), Ok(Sbrk(1))>>)), Ok(Sbrk(1)), Ok(Sbrk(1)), Wait,
      Ok(Sbrk(1)), Store(99), Ok(Sbrk(-1)), Ok(Sbrk(1)), Load({0}), Ok(Sbrk(-4)),
      Ok(Fork(<<Fault, Complain>>)), Wait,
      Ok(Pipe), Into(Fork(<<Sbrk(4), Write("p1", <<"x">>), Forever>>), "pid1"), Read("p0", 1, {}),
      Into(Fork(<<Sbrk(4), Write("p1", <<"x">>), Forever>>), "pid2"), Read("p0", 1, {}),
      Ok(Sbrk(1)), Kill("pid1"), Wait, Kill("pid2"), Wait, Sbrk(-1)>>

\* The call with a bad address fails; the process may be killed meanwhile.
validatetest == <<Fork(<<Fails(Call("badarg"))>>), Sleep, Sleep, Kill("pid"), Wait, Fails(Call("badarg"))>>

bigargtest == <<Unlink(<<"bigarg-ok">>),
                Ok(Fork(<<[Exec(<<<<"echo">>, <<"bigargs">>>>) EXCEPT !.big = TRUE], Creat(<<"bigarg-ok">>, "r"), Close("fd")>>)),
                Wait, Ok(Open(<<"bigarg-ok">>, "r")), Close("fd"), Unlink(<<"bigarg-ok">>)>>

uio == <<Ok(Fork(<<Fault, Complain>>)), Wait>>

Test == [iputtest |-> iputtest, exitiputtest |-> exitiputtest, openiputtest |-> openiputtest, opentest |-> opentest,
         writetest |-> writetest, writetest1 |-> writetest1, createtest |-> createtest, dirtest |-> dirtest,
         exectest |-> exectest, pipe1 |-> pipe1, preempt |-> preempt, exitwait |-> exitwait, sharedfd |-> sharedfd,
         fourfiles |-> fourfiles, createdelete |-> createdelete, unlinkread |-> unlinkread, linktest |-> linktest,
         concreate |-> concreate, linkunlink |-> linkunlink, bigdir |-> bigdir, subdir |-> subdir, bigwrite |-> bigwrite,
         bigfile |-> bigfile, fourteen |-> fourteen, rmdot |-> rmdot, dirfile |-> dirfile, iref |-> iref,
         forktest |-> forktest, sbrktest |-> sbrktest, validatetest |-> validatetest, bigargtest |-> bigargtest, uio |-> uio]

\* main() refuses to run twice on one disk.
usertests(test) == <<Fails(Open(<<"usertests.ran">>, "r")), Creat(<<"usertests.ran">>, "r"), Close("fd")>> \o Test[test]
=============================================================================
