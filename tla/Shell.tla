------------------------------- MODULE Shell --------------------------------
(***************************************************************************)
(* sh.c, init.c and the small programs as programs of User.  A command     *)
(* line is a sequence of words; a word is the sequence of names of a path, *)
(* with an empty last name for a trailing slash.                           *)
(***************************************************************************)
EXTENDS Calls

W(name) == <<name>>
Is(s, set) == s # <<>> /\ s[1] \in {<<c>> : c \in set}
Symbols == {"<", "|", ">", "&", ";", "(", ")", ">>"}
IsWord(s) == s # <<>> /\ ~Is(s, Symbols)

-----------------------------------------------------------------------------
(* Parsing: a parser takes words and returns a command and the words that   *)
(* are left; a command of type "panic" is a line the shell refuses.         *)

MAXARGS == 10
Parsed(cmd, rest) == [cmd |-> cmd, rest |-> rest]
Refused == Parsed([type |-> "panic"], <<>>)
Bad(r) == r.cmd.type = "panic"

execcmd(argv) == [type |-> "exec", argv |-> argv]
redircmd(cmd, sign, file) == [type |-> "redir", cmd |-> cmd, file |-> file,
                              fd |-> IF sign = <<"<">> THEN "0" ELSE "1", create |-> sign # <<"<">>]
pipecmd(left, right) == [type |-> "pipe", left |-> left, right |-> right]
listcmd(left, right) == [type |-> "list", left |-> left, right |-> right]
backcmd(cmd) == [type |-> "back", cmd |-> cmd]

\* A redirection wraps the command parsed so far: the last one is made first.
RECURSIVE parseredirs(_, _)
parseredirs(cmd, s) == IF ~Is(s, {"<", ">", ">>"}) THEN Parsed(cmd, s)
                       ELSE IF ~IsWord(Tail(s)) THEN Refused
                       ELSE parseredirs(redircmd(cmd, s[1], s[2]), Tail(Tail(s)))

\* The arguments may stand between redirections; wrap is the command without
\* its arguments, which the innermost execcmd gets in the end.
RECURSIVE WithArgs(_, _)
WithArgs(cmd, argv) == IF cmd.type = "exec" THEN execcmd(argv) ELSE [cmd EXCEPT !.cmd = WithArgs(cmd.cmd, argv)]
RECURSIVE Arguments(_, _, _)
Arguments(cmd, argv, s) ==
    IF s = <<>> \/ Is(s, {"|", ")", "&", ";"}) THEN Parsed(WithArgs(cmd, argv), s)
    ELSE IF ~IsWord(s) \/ Len(argv) + 1 >= MAXARGS THEN Refused
    ELSE LET r == parseredirs(cmd, Tail(s))
         IN  IF Bad(r) THEN Refused ELSE Arguments(r.cmd, Append(argv, s[1]), r.rest)

RECURSIVE Backs(_, _)
Backs(cmd, s) == IF Is(s, {"&"}) THEN Backs(backcmd(cmd), Tail(s)) ELSE Parsed(cmd, s)

RECURSIVE parseline(_)
parseexec(s) ==
    IF Is(s, {"("})
    THEN LET r == parseline(Tail(s))
         IN  IF Bad(r) \/ ~Is(r.rest, {")"}) THEN Refused ELSE parseredirs(r.cmd, Tail(r.rest))
    ELSE LET r == parseredirs(execcmd(<<>>), s)
         IN  IF Bad(r) THEN Refused ELSE Arguments(r.cmd, <<>>, r.rest)
RECURSIVE parsepipe(_)
parsepipe(s) ==
    LET left == parseexec(s)
    IN  IF Bad(left) \/ ~Is(left.rest, {"|"}) THEN left
        ELSE LET right == parsepipe(Tail(left.rest))
             IN  IF Bad(right) THEN Refused ELSE Parsed(pipecmd(left.cmd, right.cmd), right.rest)
parseline(s) ==
    LET first == parsepipe(s)
        back == Backs(first.cmd, first.rest)
        more == parseline(Tail(back.rest))
    IN  CASE Bad(first) -> Refused
          [] ~Bad(first) /\ ~Is(back.rest, {";"}) -> back
          [] OTHER -> IF Bad(more) THEN Refused ELSE Parsed(listcmd(back.cmd, more.cmd), more.rest)
\* Nothing may be left over.
parsecmd(s) == LET r == parseline(s) IN IF Bad(r) \/ r.rest # <<>> THEN [type |-> "panic"] ELSE r.cmd

-----------------------------------------------------------------------------
(* Running *)

\* Mutant of PipeParent: the shell keeps the writing end while it waits.
PipeParentKeeps == <<Close("p0"), Wait, Wait>>
PipeParent == <<Close("p0"), Close("p1"), Wait, Wait>>

PipeLeft == <<Close("1"), Dup("p1"), Close("p0"), Close("p1")>>
PipeRight == <<Close("0"), Dup("p0"), Close("p0"), Close("p1")>>

\* runcmd() never returns; a failed fork or pipe ends the process.
RECURSIVE runcmd(_)
runcmd(cmd) ==
    CASE cmd.type = "panic" -> <<>>
      [] cmd.type = "exec" -> IF cmd.argv = <<>> THEN <<>> ELSE <<OrExit(Exec(cmd.argv))>>
      [] cmd.type = "redir" -> <<Close(cmd.fd), OrExit(IF cmd.create THEN Creat(cmd.file, "w") ELSE Open(cmd.file, "r"))>> \o runcmd(cmd.cmd)
      [] cmd.type = "list" -> <<OrExit(Fork(runcmd(cmd.left))), Wait>> \o runcmd(cmd.right)
      [] cmd.type = "pipe" -> <<OrExit(Pipe), OrExit(Fork(PipeLeft \o runcmd(cmd.left))),
                                OrExit(Fork(PipeRight \o runcmd(cmd.right)))>> \o PipeParent
      [] cmd.type = "back" -> <<OrExit(Fork(runcmd(cmd.cmd)))>>

\* A line is run by a child, cd by the shell itself.
Line(s) == IF Is(s, {"cd"}) /\ Len(s) = 2 THEN <<Chdir(s[2])>>
           ELSE <<OrExit(Fork(runcmd(parsecmd(s)))), Wait>>

\* The shell makes sure that three descriptors are open: with three, a fourth is
\* opened and closed.
sh == <<Open(W("console"), "rw"), Close("fd"), Loop(<<GetCmd>>)>>

\* init: the console, three descriptors, and a shell whenever there is none;
\* any other child that ends was given to init.
init == LET shells == Loop(<<OrExit(Fork(<<OrExit(Exec(<<W("sh")>>))>>)), [WaitPid EXCEPT !.fail = "again"]>>)
            serve == <<Dup("0"), Dup("0"), shells>>
        IN  <<OrElse(Open(W("console"), "rw"), <<Mknod(W("console")), Open(W("console"), "rw")>> \o serve)>> \o serve

-----------------------------------------------------------------------------
(* The small programs, from their arguments *)

cat(args) == IF args = <<>> THEN <<CopyAll("0", "1", 2)>>
             ELSE Each(args, LAMBDA a : <<OrExit(Open(a, "r")), CopyAll("fd", "1", 2), Close("fd")>>)
echo(args) == Each(args, LAMBDA a : <<Write("1", a)>>)
rm(args) == Each(args, LAMBDA a : <<OrExit(Unlink(a))>>)
mkdir(args) == Each(args, LAMBDA a : <<OrExit(Mkdir(a))>>)
ln(args) == IF Len(args) # 2 THEN <<>> ELSE <<Link(args[1], args[2])>>
RECURSIVE touch(_)
touch(args) == IF args = <<>> THEN <<>>
               ELSE LET rest == <<Close("fd")>> \o touch(Tail(args))
                    IN  <<OrElse(Open(args[1], "r"), <<Creat(args[1], "r")>> \o rest)>> \o rest
zombie == <<OrElse(Fork(<<>>), <<>>), Sleep>>

\* cp: a directory is only listed; a destination that ends in a slash gets the
\* last name of the source.
Target(src, dest) == IF Last(dest) = "" THEN Front(dest) \o <<Last(src)>> ELSE dest
ls(path) == <<OrExit(Into(Open(path, "r"), "fd1")), ReadAll("fd1", 1, {}), Close("fd1")>>
cp(args) == IF Len(args) # 2 THEN <<>>
            ELSE <<OrExit(Open(args[1], "r")),
                   OrElse(Fstat("fd"), <<OrExit(Into(Creat(Target(args[1], args[2]), "w"), "fd1")),
                                         CopyAll("fd", "fd1", 2), Close("fd"), Close("fd1")>>)>>
                 \o ls(args[1])

\* Two of the four processes: each stops forking when it has a child.
stressfs == LET work(n) == <<Creat(W(n), "rw"), Write("fd", <<"a">>), Write("fd", <<"a">>), Close("fd"),
                             Open(W(n), "r"), Read("fd", 1, {}), Read("fd", 1, {}), Close("fd"), Wait>>
            IN  <<Fork(<<Fork(work("stressfs2"))>> \o work("stressfs1"))>> \o work("stressfs0")

-----------------------------------------------------------------------------
(* What commands mean, without processes and descriptors: from the files   *)
(* before and the standard input to the files after and the output.        *)

Over(old, new) == new \o SubSeq(old, Len(new) + 1, Len(old))
Contents(fs, path) == IF path \in DOMAIN fs THEN fs[path] ELSE <<>>
With(fs, path, data) == (path :> data) @@ fs
RECURSIVE Removed(_, _)
Removed(fs, paths) == IF paths = <<>> \/ paths[1] \notin DOMAIN fs THEN fs
                      ELSE Removed([x \in DOMAIN fs \ {paths[1]} |-> fs[x]], Tail(paths))

ExecMeaning(argv, in, fs) ==
    LET name == argv[1][1]
        args == Tail(argv)
        says(out) == [out |-> out, fs |-> fs]
        leaves(files) == [out |-> <<>>, fs |-> files]
    IN  CASE name = "echo" -> says(FlattenSeq(args))
          [] name = "cat" -> says(IF args = <<>> THEN in ELSE FlattenSeq([k \in DOMAIN args |-> Contents(fs, args[k])]))
          [] name = "cp" -> leaves(LET to == Target(args[1], args[2])
                                   IN  IF args[1] \in DOMAIN fs THEN With(fs, to, Over(Contents(fs, to), fs[args[1]])) ELSE fs)
          [] name = "ln" -> leaves(With(fs, args[2], fs[args[1]]))
          [] name = "rm" -> leaves(Removed(fs, args))
          [] name = "touch" -> leaves(FoldLeft(LAMBDA files, a : With(files, a, Contents(files, a)), fs, args))
          [] OTHER -> leaves(fs)

RECURSIVE Meaning(_, _, _)
Meaning(cmd, in, fs) ==
    CASE cmd.type = "panic" -> [out |-> <<>>, fs |-> fs]
      [] cmd.type = "exec" -> IF cmd.argv = <<>> THEN [out |-> <<>>, fs |-> fs] ELSE ExecMeaning(cmd.argv, in, fs)
      [] cmd.type = "redir" ->
           IF ~cmd.create THEN IF cmd.file \in DOMAIN fs THEN Meaning(cmd.cmd, fs[cmd.file], fs) ELSE [out |-> <<>>, fs |-> fs]
           ELSE LET m == Meaning(cmd.cmd, in, With(fs, cmd.file, Contents(fs, cmd.file)))
                IN  [out |-> <<>>, fs |-> With(m.fs, cmd.file, Over(m.fs[cmd.file], m.out))]
      [] cmd.type = "pipe" -> LET m == Meaning(cmd.left, in, fs) IN Meaning(cmd.right, m.out, m.fs)
      [] cmd.type = "list" -> LET m == Meaning(cmd.left, in, fs)
                                  n == Meaning(cmd.right, in, m.fs)
                              IN  [out |-> m.out \o n.out, fs |-> n.fs]
      [] cmd.type = "back" -> Meaning(cmd.cmd, in, fs)

\* A plain session has no background command, no cd, and none of the test programs.
Plain(lines) == \A k \in DOMAIN lines : Range(lines[k]) \cap {<<"&">>, <<"cd">>, <<"usertests">>} = {}
Then(m, n) == [out |-> m.out \o n.out, fs |-> n.fs]
Meanings(lines, files) == FoldLeft(LAMBDA m, s : Then(m, Meaning(parsecmd(s), <<>>, m.fs)), [out |-> <<>>, fs |-> files], lines)
=============================================================================
