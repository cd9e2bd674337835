------------------------------- MODULE Calls --------------------------------
(***************************************************************************)
(* What programs are made of in User: system calls, each with the results  *)
(* the program goes on with and what it does on any other: complain and    *)
(* end ("oops"), end ("exit"), make the call again ("again"), or go on     *)
(* with other code ("jump").                                               *)
(***************************************************************************)
EXTENDS Integers, Sequences, FiniteSets, TLC, SequencesExt

Call(op) == [op |-> op, want |-> "any", fail |-> "oops", into |-> "", alt |-> <<>>]

Ok(ins) == [ins EXCEPT !.want = "ok"]
Fails(ins) == [ins EXCEPT !.want = "fail"]
Into(ins, r) == [ins EXCEPT !.into = r]
OrExit(ins) == [ins EXCEPT !.want = "ok", !.fail = "exit"]
OrElse(ins, code) == [ins EXCEPT !.want = "ok", !.fail = "jump", !.alt = code]

Open(path, mode) == Into(Call("open"), "fd") @@ [path |-> path, mode |-> mode, create |-> FALSE]
Creat(path, mode) == Into(Call("open"), "fd") @@ [path |-> path, mode |-> mode, create |-> TRUE]
Mkdir(path) == Call("mkdir") @@ [path |-> path]
Mknod(path) == Call("mknod") @@ [path |-> path]
Chdir(path) == Call("chdir") @@ [path |-> path]
Unlink(path) == Call("unlink") @@ [path |-> path]
Link(old, new) == Call("link") @@ [old |-> old, path |-> new]
Close(r) == Call("close") @@ [fd |-> r]
Dup(r) == Call("dup") @@ [fd |-> r]
Fstat(r) == Call("fstat") @@ [fd |-> r]
Pipe == Call("pipe")

\* A message that something went wrong is a call that always counts as failed;
\* other output is left out.
\* read() of n bytes that must be one of accept (any, if empty), the loop
\* while(read() > 0), and that loop over a directory that must hold each of names once.
Read(r, n, accept) == Call("read") @@ [fd |-> r, n |-> n, accept |-> accept]
ReadAll(r, n, accept) == Call("readloop") @@ [fd |-> r, n |-> n, accept |-> accept, names |-> {}]
ReadNames(r, names) == Call("readloop") @@ [fd |-> r, n |-> 1, accept |-> {}, names |-> names]
Write(r, data) == Call("write") @@ [fd |-> r, data |-> data]
CopyAll(r, to, n) == [Call("copy") EXCEPT !.fail = "exit"] @@ [fd |-> r, to |-> to, n |-> n]

Fork(child) == Into(Call("fork"), "pid") @@ [child |-> child]
Wait == Call("wait")
WaitPid == [Call("wait") EXCEPT !.want = "pid"]
Kill(r) == Call("kill") @@ [fd |-> r]
Sleep == Call("sleep")
Complain == Fails(Sleep)
Exec(argv) == Call("exec") @@ [path |-> argv[1], argv |-> argv, big |-> FALSE]
Forever == Call("spin")
Fault == Call("fault")
Sbrk(n) == Call("sbrk") @@ [n |-> n]
Store(v) == Call("store") @@ [v |-> v]
Load(accept) == Call("load") @@ [accept |-> accept]
Loop(body) == Call("loop") @@ [body |-> body]
Either(codes) == Call("either") @@ [codes |-> codes]
GetCmd == Call("getcmd")

Each(s, Code(_)) == FlattenSeq([k \in 1..Len(s) |-> Code(s[k])])
=============================================================================
