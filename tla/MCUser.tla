------------------------------- MODULE MCUser -------------------------------
(* Sessions of User for TLC: every test of usertests, and lines of the shell. *)
EXTENDS User

L(words) == [k \in DOMAIN words |-> <<words[k]>>]

MCTests == {<< <<<<"usertests">>, <<t>>>> >> : t \in DOMAIN Test}
MCLines == {
    << L(<<"echo", "a", "b", ">", "f">>), L(<<"cat", "f", "|", "cat">>) >>,
    << L(<<"(", "echo", "a", ";", "echo", "b", ")", ">", "f", ";", "cat", "<", "f">>) >>,
    << L(<<"cat", "README", "|", "echo", "a">>) >>,
    << L(<<"cat", "<", "README", "|", "cat", "|", "cat", ">", "g">>) >>,
    << L(<<"echo", "a", "b", "c", ">", "f", ";", "echo", "x", ">", "f">>), L(<<"cat", "f">>) >>,
    << L(<<"echo", "a", "&", ";", "echo", "b">>) >>,
    << L(<<"(", "cat", "README", "|", "cat", ")", "&", ";", "echo", "b">>) >>,
    << L(<<"cp", "README", "g">>), L(<<"cat", "g">>) >>,
    << L(<<"mkdir", "d">>), <<<<"cp">>, <<"README">>, <<"d", "">>>>, <<<<"cat">>, <<"d", "README">>>>, L(<<"cp", "d", "x">>) >>,
    << L(<<"mkdir", "d">>), L(<<"cd", "d">>), <<<<"/", "echo">>, <<"a">>, <<">">>, <<"f">>>>, L(<<"cd", "nowhere">>) >>,
    << L(<<"ln", "README", "g">>), L(<<"rm", "README">>), L(<<"cat", "g">>) >>,
    << L(<<"touch", "g", "h">>), L(<<"touch", "g">>), L(<<"rm", "g", "k", "h">>) >>,
    << L(<<"zombie">>) >>, << L(<<"stressfs">>) >>, << L(<<"forktest">>) >>,
    << L(<<"echo", "a", "&", "echo", "b">>), L(<<"(", "echo", "a">>), L(<<"echo", ">">>), L(<<"|", "echo", "a">>) >>,
    << L(<<"cat", "<", "nofile">>), L(<<"nosuch">>), L(<<"echo", "a">>) >> }
MCSessions == MCTests \cup MCLines
Programs == {"usertests", "echo", "cat", "cp", "mkdir", "ln", "rm", "touch", "zombie", "stressfs", "forktest"}
MCImage(s) == LET words == UNION {{w[Len(w)] : w \in Range(s[k])} : k \in DOMAIN s}
              IN  <<"README", "sh">> \o SetToSeq(Programs \cap (words \cup (IF "usertests" \in words THEN {"echo", "cat"} ELSE {})))
=============================================================================
