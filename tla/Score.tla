------------------------------- MODULE Score -------------------------------
(***************************************************************************)
(* The scores that both programs give to a board (chess/board.h).          *)
(***************************************************************************)
EXTENDS Integers

NONE      == 0
STALLMATE == -2
CHECKMATE == 100

\* The results of OneRound::expand.
Scores    == {NONE, STALLMATE, -STALLMATE, CHECKMATE, -CHECKMATE}
============================================================================
