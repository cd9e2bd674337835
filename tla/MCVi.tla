-------------------------------- MODULE MCVi --------------------------------
(* Instance of Vi and ViHistory for TLC. *)
EXTENDS ViHistory

\* An empty text, one line, two lines, a line that an insertion makes longer
\* than the screen.
MCTexts == {<<>>, <<"a", "nl">>, <<"a", "nl", "a", "nl">>, <<"a", "sp", "a", "a">>}
MCPatterns == {<<"a", "a">>}

\* A failed save excuses a loss of text and touches nothing else, and ; does not
\* look at what / searched for, nor n at what f did: states with a failed save
\* or with both searches are checked but not explored further.
Explored == ~saveFailed /\ (lastFindChar = NUL \/ lastFindString = <<>>)
=============================================================================
