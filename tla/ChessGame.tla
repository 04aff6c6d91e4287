----------------------------- MODULE ChessGame -----------------------------
(***************************************************************************)
(* The game that the depth-first search plays on real boards: the boards a *)
(* round reaches by the moves that module OneRound lets through, as the    *)
(* parameters that module MateSearch takes.                                *)
(***************************************************************************)
EXTENDS OneRound

CONSTANT BlackFirst    \* the flag --first: the maximising side is black
ASSUME BlackFirstAssumption == BlackFirst \in BOOLEAN

\* The round of a board with the maximising side to move.
roundOf(p) == newRound(p, BlackFirst, 0, noMove)

\* The round in which the maximising side has just made the last move of q.
\* Its lists are those of the board before that move.
roundAfter(q) ==
  LET r == roundOf(undo(q, q.lastMove))
  IN  [r EXCEPT !.maxStepState = q, !.isMinChecked = isChecking(r, q)]

maxBoards(p) == {makeMove(p, m) : m \in maxMoves(roundOf(p))}
minBoards(q) == {makeMove(q, m) : m \in minMoves(roundAfter(q))}

maxChecked(p) == roundOf(p).isMaxChecked
minChecked(q) == roundAfter(q).isMinChecked

\* The move from p to q takes back the one that led to the step prev.  The
\* test reads no other field of the round.
circularStep(prev, p, q) ==
  isCircularMove([curBoard |-> p, parentMove |-> prev.lastMove], q.lastMove)

\* Board::hash covers positions_ and nothing else.
hash(b) == b.positions
============================================================================
