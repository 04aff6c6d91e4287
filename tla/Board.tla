------------------------------- MODULE Board -------------------------------
(***************************************************************************)
(* The board and the moves that change it (chess/board.h, chess/move.h,    *)
(* chess/move.cc).                                                         *)
(*                                                                         *)
(* A board is a record of the fields of class Board that the move          *)
(* generators read:                                                        *)
(*    positions   positions_, the type on each square                      *)
(*    blackKing   blackKing_, the cached square of the black king          *)
(*    whiteKing   whiteKing_, the cached square of the white king          *)
(*    lastMove    lastMove_, the move that produced the board              *)
(* (score_ belongs to the breadth-first evaluation and is not kept here.)  *)
(*                                                                         *)
(* A move is a record of the fields of class Move.  The operators below    *)
(* are functions from a board to the board that the C++ method leaves.     *)
(***************************************************************************)
EXTENDS Piece

NORMAL_MOVE      == 0
QUEEN_PROMOTION  == 1
KNIGHT_PROMOTION == 2
PAWN_EN_PASSANT  == 3
KING_CASTLING    == 4
SpecialTypes     == NORMAL_MOVE .. KING_CASTLING

Moves == [special : SpecialTypes, from : Positions, to : Positions,
          fromType : Types, toType : Types]

Boards == [positions : [Squares -> Types], blackKing : Positions,
           whiteKing : Positions, lastMove : Moves]

\* Move(): the move of a board that no move produced.
noMove == [special |-> NORMAL_MOVE, from |-> invalidPosition,
           to |-> invalidPosition, fromType |-> EMPTY, toType |-> EMPTY]

----------------------------------------------------------------------------
getPieceTypeAtPosition(b, pos) == b.positions[pos]

isEmpty(b, pos) == getPieceTypeAtPosition(b, pos) = EMPTY

\* A board update that forgets to refresh the cached king square.
setStaleKing(b, type, pos) == [b EXCEPT !.positions[pos] = type]

\* setInternal, then setKingPositionIfNeeded.
set(b, type, pos) ==
  [b EXCEPT !.positions[pos] = type,
            !.blackKing = IF type = B_KING THEN pos ELSE @,
            !.whiteKing = IF type = W_KING THEN pos ELSE @]

\* Board(false): clear() and no pieces.
clearBoard ==
  [positions |-> [s \in Squares |-> EMPTY], blackKing |-> invalidPosition,
   whiteKing |-> invalidPosition, lastMove |-> noMove]

kingPosition(b, black) == IF black THEN b.blackKing ELSE b.whiteKing

\* The cached king squares are the only squares that hold the kings.
KingsCached(b) ==
  /\ {s \in Squares : getPieceTypeAtPosition(b, s) = B_KING} = {b.blackKing}
  /\ {s \in Squares : getPieceTypeAtPosition(b, s) = W_KING} = {b.whiteKing}

----------------------------------------------------------------------------
\* Move(board, special, from, to): captures the types found on the board.
newMove(b, special, from, to) ==
  [special |-> special, from |-> from, to |-> to,
   fromType |-> getPieceTypeAtPosition(b, from),
   toType   |-> getPieceTypeAtPosition(b, to)]

\* The type the moved piece has after the move.
newType(m) ==
  CASE m.special = QUEEN_PROMOTION  -> getSameQueenType(m.fromType)
    [] m.special = KNIGHT_PROMOTION -> getSameKnightType(m.fromType)
    [] OTHER                        -> m.fromType

\* The square of the pawn that an en passant move takes, and the pawn's type.
enPassantPos(m) ==
  IF m.fromType = B_PAWN THEN <<m.to[1] + 1, m.to[2]>>
                         ELSE <<m.to[1] - 1, m.to[2]>>

enPassantPawn(m) == IF m.fromType = B_PAWN THEN W_PAWN ELSE B_PAWN

\* The rook's squares before and after a castling move.
getCastlingRookPos(m) ==
  IF m.to[2] = 2 THEN <<<<m.from[1], 0>>, <<m.from[1], 3>>>>
                 ELSE <<<<m.from[1], 7>>, <<m.from[1], 5>>>>

\* An en passant capture that takes the pawn from the wrong side of the target.
setupEnPassantMirrored(b, m) ==
  set(b, EMPTY, <<2 * m.to[1] - enPassantPos(m)[1], m.to[2]>>)

setupEnPassant(b, m) == set(b, EMPTY, enPassantPos(m))
undoEnPassant(b, m)  == set(b, enPassantPawn(m), enPassantPos(m))

\* Moves whatever stands on square a to square b.
shift(b, from, to) ==
  set(set(b, EMPTY, from), getPieceTypeAtPosition(b, from), to)

setupCastling(b, m) ==
  shift(b, getCastlingRookPos(m)[1], getCastlingRookPos(m)[2])

undoCastling(b, m) ==
  shift(b, getCastlingRookPos(m)[2], getCastlingRookPos(m)[1])

\* Move::apply changes the pieces and the cached kings, not lastMove.
apply(b, m) ==
  LET lifted  == set(b, EMPTY, m.from)
      cleared == CASE m.special = PAWN_EN_PASSANT -> setupEnPassant(lifted, m)
                   [] m.special = KING_CASTLING   -> setupCastling(lifted, m)
                   [] OTHER                       -> lifted
  IN  set(cleared, newType(m), m.to)

\* Move::undo without the step that puts the pawn taken en passant back.
undoForgetsPawn(b, m) ==
  LET back == set(set(b, m.toType, m.to), m.fromType, m.from)
  IN  IF m.special = KING_CASTLING THEN undoCastling(back, m) ELSE back

\* Move::undo, the reverse of apply.
undo(b, m) ==
  LET back == set(set(b, m.toType, m.to), m.fromType, m.from)
  IN  CASE m.special = PAWN_EN_PASSANT -> undoEnPassant(back, m)
        [] m.special = KING_CASTLING   -> undoCastling(back, m)
        [] OTHER                       -> back

\* The CHECKs of apply and setupEnPassant: the process aborts when one fails.
applyChecks(b, m) ==
  CASE m.special = PAWN_EN_PASSANT ->
         /\ m.fromType \in {B_PAWN, W_PAWN}
         /\ getPieceTypeAtPosition(b, enPassantPos(m)) = enPassantPawn(m)
    [] m.special = NORMAL_MOVE -> m.fromType # EMPTY
    [] OTHER -> TRUE

\* Board::makeMove(move): a copy of the board with the move applied.
makeMove(b, m) == [apply(b, m) EXCEPT !.lastMove = m]
============================================================================
