------------------------------- MODULE Piece -------------------------------
(***************************************************************************)
(* Piece types, colours and board coordinates (chess/piece.h).             *)
(*                                                                         *)
(* A Piece::Type keeps the integer value of the C++ enumeration, because   *)
(* the colour predicates compare that value with 8.  A Position is the     *)
(* pair <<row, column>>; the pair <<-1, -1>> is Board::invalidPosition().  *)
(***************************************************************************)
EXTENDS Integers

BOARD_SIZE == 8
Coord      == 0 .. (BOARD_SIZE - 1)
Squares    == Coord \X Coord

EMPTY    == 0
W_PAWN   == 1
W_ROOK   == 2
W_KNIGHT == 3
W_KING   == 4
W_QUEEN  == 5
W_BISHOP == 6
B_PAWN   == W_PAWN + 8
B_ROOK   == W_ROOK + 8
B_KNIGHT == W_KNIGHT + 8
B_KING   == W_KING + 8
B_QUEEN  == W_QUEEN + 8
B_BISHOP == W_BISHOP + 8

WhiteTypes == W_PAWN .. W_BISHOP
BlackTypes == B_PAWN .. B_BISHOP
PieceTypes == WhiteTypes \cup BlackTypes
Types      == {EMPTY} \cup PieceTypes

isBlack(type) == type > 8

isSameColor(type1, type2) ==
  /\ type1 # EMPTY
  /\ type2 # EMPTY
  /\ isBlack(type1) = isBlack(type2)

isKing(type) == type \in {W_KING, B_KING}

getSameQueenType(type)  == IF isBlack(type) THEN B_QUEEN ELSE W_QUEEN
getSameKnightType(type) == IF isBlack(type) THEN B_KNIGHT ELSE W_KNIGHT

\* The king of the side that moves when `black' says so; used as a colour tag.
kingOf(black) == IF black THEN B_KING ELSE W_KING

----------------------------------------------------------------------------
invalidPosition == <<-1, -1>>

isValidPosition(pos) ==
  /\ pos[1] >= 0 /\ pos[1] < BOARD_SIZE
  /\ pos[2] >= 0 /\ pos[2] < BOARD_SIZE

Positions == Squares \cup {invalidPosition}

\* The square reached from pos by n steps of the DeltaMove step.
Along(pos, step, n) == <<pos[1] + n * step[1], pos[2] + n * step[2]>>

Abs(n) == IF n < 0 THEN -n ELSE n
============================================================================
