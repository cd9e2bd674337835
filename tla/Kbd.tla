-------------------------------- MODULE Kbd --------------------------------
(* kbd.c: the keyboard driver.  Keys are pressed, repeated and released; the *)
(* controller queues their scan codes, and kbdgetc() takes them one by one.  *)
EXTENDS Naturals, Sequences, FiniteSets
CONSTANT MaxCodes       \* what the controller holds
VARIABLES codes,        \* the scan codes that wait at KBDATAP
          shift,        \* kbdgetc()'s bits
          down,         \* history: the keys that are held
          lastDown,     \* history: for SHIFT and CTL, whether the last of their keys to move went down
          caps,         \* history: CAPSLOCK was struck an odd number of times
          owed,         \* history: the characters the waiting codes stand for
          wrong         \* history: kbdgetc() returned something else

kbdVars == <<codes, shift, down, lastDown, caps, owed, wrong>>

\* The keys: scan code, and whether the keyboard sends 0xE0 before it.
Key == [lshift |-> <<42, FALSE>>, rshift |-> <<54, FALSE>>, lctl |-> <<29, FALSE>>, rctl |-> <<29, TRUE>>,
        caps |-> <<58, FALSE>>, a |-> <<30, FALSE>>, up |-> <<72, TRUE>>]
E0 == 224
shiftcode(data) == CASE data \in {29, 157} -> {"CTL"} [] data \in {42, 54} -> {"SHIFT"} [] OTHER -> {}
togglecode(data) == IF data = 58 THEN {"CAPSLOCK"} ELSE {}
\* normalmap, shiftmap and ctlmap at the keys above; 0 is no character.
charcode(bits, data) == CASE data = 30 -> IF "CTL" \in bits THEN "^A" ELSE IF "SHIFT" \in bits THEN "A" ELSE "a"
                          [] data = 200 -> "UP"
                          [] OTHER -> "0"
Capital(c) == CASE c = "a" -> "A" [] c = "A" -> "a" [] OTHER -> c
Toggled(s, t) == (s \ t) \cup (t \ s)

\* One call of kbdgetc() with a code in the controller: the bits and the result.
ReleasedRaw(s, data) == s \ (shiftcode(data) \cup {"E0ESC"})
Released(s, data) == s \ (shiftcode(IF "E0ESC" \in s THEN data ELSE data - 128) \cup {"E0ESC"})
PressedSticky(s, d) == LET bits == Toggled(s \cup shiftcode(d), togglecode(d))
                       IN  [shift |-> bits, c |-> IF "CAPSLOCK" \in bits THEN Capital(charcode(bits, d)) ELSE charcode(bits, d)]
Pressed(s, d) ==
    LET data == IF "E0ESC" \in s THEN d + 128 ELSE d
        bits == Toggled((s \ {"E0ESC"}) \cup shiftcode(data), togglecode(data))
        c    == charcode(bits, data)
    IN  [shift |-> bits, c |-> IF "CAPSLOCK" \in bits THEN Capital(c) ELSE c]
kbdgetc == LET data == Head(codes) IN
           IF data = E0 THEN [shift |-> shift \cup {"E0ESC"}, c |-> "0"]
           ELSE IF data >= 128 THEN [shift |-> Released(shift, data), c |-> "0"]
           ELSE Pressed(shift, data)

\* consoleintr() calls kbdgetc() until the controller is empty; a 0 is no character for it.
kbdintr == /\ codes # <<>>
           /\ codes' = Tail(codes) /\ shift' = kbdgetc.shift
           /\ IF kbdgetc.c = "0" THEN UNCHANGED <<owed, wrong>>
              ELSE /\ wrong' = (wrong \/ owed = <<>> \/ kbdgetc.c # Head(owed))
                   /\ owed' = IF owed = <<>> THEN owed ELSE Tail(owed)
           /\ UNCHANGED <<down, lastDown, caps>>

Send(k, up) == /\ codes' = codes \o (IF Key[k][2] THEN <<E0>> ELSE <<>>) \o <<Key[k][1] + (IF up THEN 128 ELSE 0)>>
               /\ Len(codes') <= MaxCodes
               /\ lastDown' = [m \in {"SHIFT", "CTL"} |->
                                  IF k \in (IF m = "SHIFT" THEN {"lshift", "rshift"} ELSE {"lctl", "rctl"}) THEN ~up ELSE lastDown[m]]
               /\ UNCHANGED <<shift, wrong>>
\* What the user means by the key, with the other keys as they are.
Meant(k) == CASE k = "up" -> <<"UP">>
              [] k = "a" -> <<IF lastDown["CTL"] THEN "^A" ELSE IF lastDown["SHIFT"] # caps THEN "A" ELSE "a">>
              [] OTHER -> <<>>
\* A key goes down, or repeats while it is held.
keydown(k) == /\ Send(k, FALSE) /\ down' = down \cup {k}
            /\ caps' = (caps # (k = "caps")) /\ owed' = owed \o Meant(k)
keyup(k) == /\ k \in down /\ Send(k, TRUE) /\ down' = down \ {k}
              /\ UNCHANGED <<caps, owed>>

KbdInit == /\ codes = <<>> /\ shift = {} /\ down = {} /\ caps = FALSE /\ owed = <<>> /\ wrong = FALSE
           /\ lastDown = [m \in {"SHIFT", "CTL"} |-> FALSE]
KbdNext == (\E k \in DOMAIN Key : keydown(k) \/ keyup(k)) \/ kbdintr
KbdSpec == KbdInit /\ [][KbdNext]_kbdVars

\* When the codes are read, the driver's bits are those of the keys: SHIFT and
\* CTL are on when the last of their keys to move went down (letting go of one
\* of two keys held ends both), CAPSLOCK as often as it was struck, and no half
\* of a two-code key is left.
BitsFollowKeys ==
    codes = <<>> => /\ \A m \in {"SHIFT", "CTL"} : (m \in shift) = lastDown[m]
                    /\ ("CAPSLOCK" \in shift) = caps
                    /\ "E0ESC" \notin shift

\* Every character is the one its key meant when it was struck, however the
\* codes of several keys queue up, and none is lost.
KeysMean == ~wrong /\ (codes = <<>> => owed = <<>>)

\* The driver is in step with the keyboard, in its bits and its characters.
KeyboardInv == BitsFollowKeys /\ KeysMean
=============================================================================
