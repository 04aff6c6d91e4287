------------------------------- MODULE Round -------------------------------
(***************************************************************************)
(* One line of play as class OneRound walks it (chess/one_round.cc,        *)
(* one_round.h): the maximising side moves on curBoard_, the minimising    *)
(* side answers on maxStepState_, and the answer becomes the curBoard_ of  *)
(* a new round.  The move tests of module OneRound are compared with the   *)
(* full-board test Board::isChecked.                                       *)
(*                                                                         *)
(* The heuristic only orders the moves of the maximising side; the model   *)
(* leaves the choice of the next move open, so it covers every order.      *)
(***************************************************************************)
EXTENDS OneRound

CONSTANTS
  Roots,      \* the [board, blackFirst] pairs a search starts from
  MaxLevel    \* bound: the number of rounds in a line of play

\* A loaded board has no last move and one king of each colour, on its cached
\* square (FinishedKingsCached in module BoardFile).
ASSUME RootsAssumption ==
  \A r \in Roots : /\ r.board \in Boards /\ r.blackFirst \in BOOLEAN
                   /\ r.board.lastMove = noMove /\ KingsCached(r.board)
\* The side that does not move is not in check, which expand takes for granted
\* and CHECKs in debug builds only.
ASSUME LegalRootsAssumption ==
  \A r \in Roots : ~isChecked(r.board, ~r.blackFirst)
ASSUME MaxLevelAssumption == MaxLevel \in Nat \ {0}

VARIABLES
  round,      \* the OneRound object being expanded
  phase       \* "max": in expandMaxStep; "min": in expandMinStep

vars == <<round, phase>>

----------------------------------------------------------------------------
Init ==
  /\ \E root \in Roots : round = newRound(root.board, root.blackFirst, 0, noMove)
  /\ phase = "max"

\* One iteration of expandMaxStep up to the call of expandMinStep.
MaxMove(m) ==
  /\ phase = "max"
  /\ ~isCircularMove(round, m)
  /\ LET next == makeMove(round.curBoard, m)
     IN  round' = [round EXCEPT !.maxStepState = next,
                                !.isMinChecked = isChecking(round, next)]
  /\ phase' = "min"

\* A child round two levels below its parent.
MinMoveSkipsLevel(m) ==
  /\ phase = "min"
  /\ round.level + 1 < MaxLevel
  /\ round' = newRound(makeMove(round.maxStepState, m), round.blackFirst,
                       round.level + 2, round.maxStepState.lastMove)
  /\ phase' = "max"

\* makeOneMinMove and the round it creates in handleMinStepBoard.
MinMove(m) ==
  /\ phase = "min"
  /\ round.level + 1 < MaxLevel
  /\ round' = newRound(makeMove(round.maxStepState, m), round.blackFirst,
                       round.level + 1, round.maxStepState.lastMove)
  /\ phase' = "max"

Next ==
  \/ \E m \in maxMoves(round) : MaxMove(m)
  \/ \E m \in minMoves(round) : MinMove(m)

Spec == Init /\ [][Next]_vars

----------------------------------------------------------------------------
\* The board on which the side to move chooses, and that side.
board       == IF phase = "max" THEN round.curBoard ELSE round.maxStepState
blackToMove == IF phase = "max" THEN round.blackFirst ELSE ~round.blackFirst

candidates == UNION {getMoves(board, s) : s \in PiecesOf(board, blackToMove)}

offered == IF phase = "max" THEN maxMoves(round) ELSE minMoves(round)

\* Rounds hold boards, lists of pieces and flags of the declared types.
TypeOK ==
  /\ phase \in {"max", "min"}
  /\ round.curBoard \in Boards /\ round.maxStepState \in Boards
  /\ round.maxStepPieces \subseteq Pieces /\ round.minStepPieces \subseteq Pieces
  /\ round.isMaxChecked \in BOOLEAN /\ round.isMinChecked \in BOOLEAN
  /\ round.level \in 0 .. (MaxLevel - 1) /\ round.parentMove \in Moves

\* Along every line of play both kings stay on the board, once each, on the
\* squares that blackKing_ and whiteKing_ cache: no move that the shortcut
\* tests of canMove let through ever allows a king to be taken.
KingsStayCached == KingsCached(board)

\* canMove lets through exactly the generated moves after which the mover's
\* own king is not attacked, as a scan of the whole board finds: the piece
\* lists, stale as they are in the minimising step, hide no attacker.
LegalityExact ==
  offered = {m \in candidates : ~isChecked(makeMove(board, m), blackToMove)}

\* Board::hash covers the squares only, and the cached scores of a board are
\* used wherever its squares come up again.  Apart from captures en passant,
\* the squares do decide the moves: whatever the last move and however stale
\* the lists, the moves are those of a new round of the side to move on the
\* same squares without a last move.
SquaresDecideMoves ==
  LET fresh == newRound([board EXCEPT !.lastMove = noMove], blackToMove, 0, noMove)
  IN  {m \in offered : m.special # PAWN_EN_PASSANT} = maxMoves(fresh)

\* The flags isMaxChecked_ and isMinChecked_ that steer canMove agree with
\* the full-board test.
CheckFlagExact ==
  (IF phase = "max" THEN round.isMaxChecked ELSE round.isMinChecked)
    <=> isChecked(board, blackToMove)

\* TryMove's destructor puts the auxiliary board back exactly: the pieces,
\* the cached kings and the last move, for every kind of move.
UndoRestores == \A m \in candidates : undo(apply(board, m), m) = board

\* No generated move aborts the process in one of the CHECKs of Move::apply.
ApplyChecksPass == \A m \in candidates : applyChecks(board, m)

\* A piece attacks an enemy-held square exactly when it has a move that takes
\* there: canAttack and getMoves of every piece class agree.
AttacksAreCaptures ==
  \A s \in PiecesOf(board, blackToMove), t \in PiecesOf(board, ~blackToMove) :
     canAttack(board, getPieceTypeAtPosition(board, s), s, t)
       <=> \E m \in getMoves(board, s) : m.to = t

\* A white pawn on the board could take en passant.
WhiteEnPassant ==
  \E m \in candidates : m.special = PAWN_EN_PASSANT /\ m.fromType = W_PAWN

\* The positions that the two searches reach in one move: the breadth-first
\* one through Piece::getNextStates, the depth-first one through canMove and
\* Board::makeMove(move).
bfsPositions ==
  UNION {{nb.positions : nb \in getNextStates(board, s)} :
           s \in PiecesOf(board, blackToMove)}
dfsPositions == {makeMove(board, m).positions : m \in offered}

\* Piece::getNextStates yields the positions that the depth-first search
\* visits, whenever no white pawn can take en passant.
NextStatesAgree == WhiteEnPassant \/ bfsPositions = dfsPositions

\* Piece::getNextStates yields the positions that the depth-first search
\* visits, without exception: "all possible new states after the piece take
\* one possible move".
NextStatesComplete == bfsPositions = dfsPositions

\* With the flag set, a king and a rook on their home squares with nothing
\* between them, no check and no attacked square on the way may castle.
CastlingOffered ==
  \A black \in BOOLEAN :
    LET row == IF black THEN 7 ELSE 0
        b   == board
    IN  /\ AllowCastling
        /\ black = blackToMove
        /\ kingPosition(b, black) = <<row, 4>>
        /\ getPieceTypeAtPosition(b, <<row, 7>>) = (IF black THEN B_ROOK ELSE W_ROOK)
        /\ \A c \in {5, 6} : isEmpty(b, <<row, c>>)
        /\ \A c \in {4, 5, 6} : ~\E s \in PiecesOf(b, ~black) :
             canAttack(b, getPieceTypeAtPosition(b, s), s, <<row, c>>)
        => \E m \in offered : m.special = KING_CASTLING

\* What a step does to the pieces.  The mover's side loses none: the moved
\* piece is gone from its square and stands on its target, all others are as
\* they were (no move castles).  The other side gets none, and loses one
\* exactly when the move captures, en passant included.
CaptureStep ==
  LET b  == board
      nb == IF phase = "max" THEN round'.maxStepState ELSE round'.curBoard
      m  == nb.lastMove
      changed(black) == {s \in PiecesOf(b, black) :
                 getPieceTypeAtPosition(nb, s) # getPieceTypeAtPosition(b, s)}
  IN  /\ changed(blackToMove) = {m.from}
      /\ PiecesOf(nb, blackToMove)
           = (PiecesOf(b, blackToMove) \ {m.from}) \cup {m.to}
      /\ PiecesOf(nb, ~blackToMove) \subseteq PiecesOf(b, ~blackToMove)
      /\ changed(~blackToMove) = IF m.special = PAWN_EN_PASSANT THEN {enPassantPos(m)}
                                 ELSE {s \in {m.to} : m.toType # EMPTY}

CaptureAccounting == [][CaptureStep]_vars
============================================================================
