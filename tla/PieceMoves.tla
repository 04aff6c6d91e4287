----------------------------- MODULE PieceMoves -----------------------------
(***************************************************************************)
(* What each piece attacks and where it can go: canAttack and getMoves of  *)
(* the piece classes (chess/king.cc, queen.cc, rook.cc, bishop.cc,         *)
(* knight.cc, wpawn.cc, bpawn.cc, piece.cc), the full-board check test     *)
(* Board::isChecked and the successor generator Piece::getNextStates that  *)
(* the breadth-first evaluation uses (chess/board.cc, piece.cc).           *)
(*                                                                         *)
(* The C++ generators return vectors.  The order of the moves only decides *)
(* the order in which a search tries them, so they are sets here.          *)
(***************************************************************************)
EXTENDS Board

CONSTANT AllowCastling    \* the flag --allow_castling
ASSUME AllowCastlingAssumption == AllowCastling \in BOOLEAN

Straight == {<<0, 1>>, <<0, -1>>, <<1, 0>>, <<-1, 0>>}
Diagonal == {<<-1, -1>>, <<-1, 1>>, <<1, -1>>, <<1, 1>>}

KingSteps   == Straight \cup Diagonal
KnightSteps == {<<-1, -2>>, <<-1, 2>>, <<1, -2>>, <<1, 2>>,
                <<-2, -1>>, <<-2, 1>>, <<2, -1>>, <<2, 1>>}

----------------------------------------------------------------------------
\* Nothing stands strictly between src and the square n steps further.
ClearTo(b, src, step, n) ==
  /\ isValidPosition(Along(src, step, n))
  /\ \A k \in 1 .. (n - 1) : isEmpty(b, Along(src, step, k))

checkCanAttackLine(b, src, tgt, step) ==
  \E n \in 1 .. (BOARD_SIZE - 1) :
     Along(src, step, n) = tgt /\ ClearTo(b, src, step, n)

Sign(n) == IF n > 0 THEN 1 ELSE -1

RookAttack(b, src, tgt) ==
  LET dr == tgt[1] - src[1]
      dc == tgt[2] - src[2]
  IN  CASE dr = 0 -> checkCanAttackLine(b, src, tgt, <<0, Sign(dc)>>)
        [] dr # 0 /\ dc = 0 ->
             checkCanAttackLine(b, src, tgt, <<Sign(dr), 0>>)
        [] OTHER -> FALSE

BishopAttack(b, src, tgt) ==
  LET dr == tgt[1] - src[1]
      dc == tgt[2] - src[2]
  IN  CASE dr = dc -> checkCanAttackLine(b, src, tgt, <<Sign(dr), Sign(dr)>>)
        [] dr # dc /\ dr + dc = 0 ->
             checkCanAttackLine(b, src, tgt, <<Sign(dr), -Sign(dr)>>)
        [] OTHER -> FALSE

\* Queen::canAttack tries the row and the column before the diagonals.
QueenAttack(b, src, tgt) ==
  IF tgt[1] = src[1] \/ tgt[2] = src[2] THEN RookAttack(b, src, tgt)
                                        ELSE BishopAttack(b, src, tgt)

\* A knight that attacks in one of its two orientations only.
KnightAttackHalf(src, tgt) == (tgt[1] - src[1]) * (tgt[2] - src[2]) = 2

KnightAttack(src, tgt) ==
  (tgt[1] - src[1]) * (tgt[2] - src[2]) \in {2, -2}

KingAttack(src, tgt) ==
  /\ tgt # src
  /\ tgt[1] - src[1] \in -1 .. 1
  /\ tgt[2] - src[2] \in -1 .. 1

WPawnAttack(src, tgt) == tgt[1] = src[1] + 1 /\ src[2] - tgt[2] \in {1, -1}
BPawnAttack(src, tgt) == tgt[1] = src[1] - 1 /\ src[2] - tgt[2] \in {1, -1}

\* The virtual method: a piece of the given type on src attacks tgt.
canAttack(b, type, src, tgt) ==
  CASE type \in {W_ROOK, B_ROOK}     -> RookAttack(b, src, tgt)
    [] type \in {W_BISHOP, B_BISHOP} -> BishopAttack(b, src, tgt)
    [] type \in {W_QUEEN, B_QUEEN}   -> QueenAttack(b, src, tgt)
    [] type \in {W_KNIGHT, B_KNIGHT} -> KnightAttack(src, tgt)
    [] type \in {W_KING, B_KING}     -> KingAttack(src, tgt)
    [] type = W_PAWN                 -> WPawnAttack(src, tgt)
    [] type = B_PAWN                 -> BPawnAttack(src, tgt)

----------------------------------------------------------------------------
canPlace(b, type, pos) ==
  isValidPosition(pos) /\ ~isSameColor(type, getPieceTypeAtPosition(b, pos))

NormalMoves(b, src, targets) ==
  {newMove(b, NORMAL_MOVE, src, tgt) : tgt \in targets}

\* The squares addMovesFromLine collects in each of the directions steps.
LineTargets(b, src, steps) ==
  LET type == getPieceTypeAtPosition(b, src)
      hits == {sn \in steps \X (1 .. (BOARD_SIZE - 1)) :
                 ClearTo(b, src, sn[1], sn[2])}
  IN  {tgt \in {Along(src, sn[1], sn[2]) : sn \in hits} :
         canPlace(b, type, tgt)}

StepTargets(b, src, steps) ==
  {tgt \in {Along(src, step, 1) : step \in steps} :
     canPlace(b, getPieceTypeAtPosition(b, src), tgt)}

\* The castling test as its comment-free C++ reads: the loops start at the
\* king's own square.
canCastle(b, src, smaller) ==
  LET type  == getPieceTypeAtPosition(b, src)
      orig  == IF type = B_KING THEN <<7, 4>> ELSE <<0, 4>>
      rType == getPieceTypeAtPosition(b,
                 <<src[1], src[2] + (IF smaller THEN -4 ELSE 3)>>)
  IN  /\ src = orig
      /\ ~(rType # B_ROOK /\ rType # B_ROOK /\ isSameColor(rType, type))
      /\ IF smaller THEN \A i \in 0 .. 3 : isEmpty(b, <<src[1], src[2] - i>>)
                    ELSE \A i \in 0 .. 2 : isEmpty(b, <<src[1], src[2] + i>>)

KingMoves(b, src) ==
  NormalMoves(b, src, StepTargets(b, src, KingSteps)) \cup
  IF AllowCastling
    THEN {newMove(b, KING_CASTLING, src,
                  <<src[1], src[2] + (IF smaller THEN -2 ELSE 2)>>) :
            smaller \in {s \in BOOLEAN : canCastle(b, src, s)}}
    ELSE {}

\* addMove of the two pawn classes: on the last row a pawn becomes a queen or
\* a knight.
addMove(b, src, tgt, lastRow) ==
  IF tgt[1] # lastRow
    THEN {newMove(b, NORMAL_MOVE, src, tgt)}
    ELSE {newMove(b, special, src, tgt) :
            special \in {QUEEN_PROMOTION, KNIGHT_PROMOTION}}

\* An en passant test that does not look how far the pawn went.
leftHome(last, other, otherHome, epRow) ==
  last.fromType = other /\ last.from[1] = otherHome

\* The last move took a pawn of type other from its home row to epRow.
doubleStepped(last, other, otherHome, epRow) ==
  last.fromType = other /\ last.from[1] = otherHome /\ last.to[1] = epRow

\* getMoves of the pawn classes, which differ in the direction dir, the home
\* row, the last row and the row epRow on which a pawn can take an opposing
\* pawn of type other that has just left otherHome by two squares.  (The C++
\* reads the square of a capture before canPlace rejects it; what an outside
\* square holds is never used.)
PawnMoves(b, src, dir, home, lastRow, epRow, other, otherHome) ==
  LET type  == getPieceTypeAtPosition(b, src)
      one   == <<src[1] + dir, src[2]>>
      two   == <<src[1] + 2 * dir, src[2]>>
      sides == {<<src[1] + dir, src[2] - 1>>, <<src[1] + dir, src[2] + 1>>}
  IN  (UNION {addMove(b, src, tgt, lastRow) :
                tgt \in {t \in {one} : canPlace(b, type, t) /\ isEmpty(b, t)}})
      \cup NormalMoves(b, src,
             {t \in {two} : src[1] = home /\ isEmpty(b, one) /\ isEmpty(b, t)})
      \cup (UNION {addMove(b, src, tgt, lastRow) :
               tgt \in {t \in sides : canPlace(b, type, t) /\ ~isEmpty(b, t)}})
      \cup {newMove(b, PAWN_EN_PASSANT, src, tgt) :
               tgt \in {t \in sides :
                          /\ src[1] = epRow
                          /\ doubleStepped(b.lastMove, other, otherHome, epRow)
                          /\ b.lastMove.from[2] = t[2]}}

WPawnMoves(b, src) == PawnMoves(b, src, 1, 1, 7, 4, B_PAWN, 6)
BPawnMoves(b, src) == PawnMoves(b, src, -1, 6, 0, 3, W_PAWN, 1)

\* The moves of the piece on src, whether or not they expose its king.
getMoves(b, src) ==
  LET type == getPieceTypeAtPosition(b, src)
      line(steps) == NormalMoves(b, src, LineTargets(b, src, steps))
  IN  CASE type \in {W_ROOK, B_ROOK}     -> line(Straight)
        [] type \in {W_BISHOP, B_BISHOP} -> line(Diagonal)
        [] type \in {W_QUEEN, B_QUEEN}   -> line(Straight \cup Diagonal)
        [] type \in {W_KNIGHT, B_KNIGHT} ->
             NormalMoves(b, src, StepTargets(b, src, KnightSteps))
        [] type \in {W_KING, B_KING}     -> KingMoves(b, src)
        [] type = W_PAWN                 -> WPawnMoves(b, src)
        [] type = B_PAWN                 -> BPawnMoves(b, src)

----------------------------------------------------------------------------
\* The occupied squares of one side.
PiecesOf(b, black) ==
  {s \in Squares : isSameColor(kingOf(black), getPieceTypeAtPosition(b, s))}

\* Board::isChecked: some opponent piece attacks the cached king square.
isChecked(b, black) ==
  \E s \in PiecesOf(b, ~black) :
     canAttack(b, getPieceTypeAtPosition(b, s), s, kingPosition(b, black))

\* A reconstruction that lets only white pawns take en passant.
isEnpassantMoveWhite(b, from, to) ==
  /\ getPieceTypeAtPosition(b, from) = W_PAWN
  /\ to[2] # from[2]
  /\ isEmpty(b, to)

\* Board::isEnpassantMove: its first test lets only black pawns through.
isEnpassantMove(b, from, to) ==
  /\ getPieceTypeAtPosition(b, from) = B_PAWN
  /\ to[2] # from[2]
  /\ isEmpty(b, to)

\* Board::isCastlingMove: no type is both kings, so the test never succeeds.
isCastlingMove(b, from, to) ==
  /\ ~(\/ getPieceTypeAtPosition(b, from) # W_KING
       \/ getPieceTypeAtPosition(b, from) # B_KING)
  /\ Abs(to[2] - from[2]) > 1

isPromotion(b, from, to) ==
  \/ getPieceTypeAtPosition(b, from) = B_PAWN /\ to[1] = 0
  \/ getPieceTypeAtPosition(b, from) = W_PAWN /\ to[1] = BOARD_SIZE - 1

\* The special type that Board::makeMove(pos, newPos, ...) reconstructs.
specialOf(b, from, to) ==
  CASE isPromotion(b, from, to) -> QUEEN_PROMOTION
    [] ~isPromotion(b, from, to) /\ isEnpassantMove(b, from, to) ->
         PAWN_EN_PASSANT
    [] ~isPromotion(b, from, to) /\ ~isEnpassantMove(b, from, to)
         /\ isCastlingMove(b, from, to) -> KING_CASTLING
    [] OTHER -> NORMAL_MOVE

makeMoveTo(b, from, to) ==
  makeMove(b, newMove(b, specialOf(b, from, to), from, to))

\* Piece::getNextStates: the boards after each move that does not leave the
\* mover's king in check; a promotion is replaced by its two variants.
getNextStates(b, src) ==
  LET black == isBlack(getPieceTypeAtPosition(b, src))
      next(to) == makeMoveTo(b, src, to)
      variants(to) ==
        IF isPromotion(b, src, to)
          THEN {set(next(to), getSameQueenType(next(to).lastMove.fromType), to),
                set(next(to), getSameKnightType(next(to).lastMove.fromType), to)}
          ELSE {next(to)}
  IN  UNION {variants(to) :
               to \in {t \in {m.to : m \in getMoves(b, src)} :
                         ~isChecked(next(t), black)}}
============================================================================
