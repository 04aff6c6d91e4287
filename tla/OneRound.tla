------------------------------ MODULE OneRound ------------------------------
(***************************************************************************)
(* The move tests of class OneRound (chess/one_round.cc, one_round.h).     *)
(*                                                                         *)
(* A round does not test a move by scanning the board.  It keeps two piece *)
(* lists taken from curBoard_, which go stale as soon as the maximising    *)
(* side has moved, and canMove decides legality from those lists, from the *)
(* last move and from the line through the king.  A round is a record of   *)
(* the fields of the class that these tests read; the move parentMove is   *)
(* the last move of parent_->maxStepState_.                                *)
(***************************************************************************)
EXTENDS PieceMoves

Pieces == [type : PieceTypes, pos : Squares]

----------------------------------------------------------------------------
\* The pieces of one side, as objects of the piece bank.
pieceList(b, black) ==
  {[type |-> getPieceTypeAtPosition(b, s), pos |-> s] : s \in PiecesOf(b, black)}

\* checkChecked without the look whether a listed piece is still there.
checkCheckedStale(r, b, maxSide) ==
  LET king   == kingPosition(b, maxSide = r.blackFirst)
      pieces == IF maxSide THEN r.minStepPieces ELSE r.maxStepPieces
  IN  \E p \in pieces : canAttack(b, p.type, p.pos, king)

\* Is the king of the maximising (or minimising) side attacked by a piece of
\* the other side's list that is still where the list says?
checkChecked(r, b, maxSide) ==
  LET king   == kingPosition(b, maxSide = r.blackFirst)
      pieces == IF maxSide THEN r.minStepPieces ELSE r.maxStepPieces
  IN  \E p \in pieces : /\ getPieceTypeAtPosition(b, p.pos) = p.type
                        /\ canAttack(b, p.type, p.pos, king)

\* isChecking without the special treatment of the piece that has just moved.
isCheckingListOnly(r, next) == checkChecked(r, next, FALSE)

\* Does the board next, on which the maximising side has just moved, check
\* the other king?  The moved piece is in no list, so it is asked first.
isChecking(r, next) ==
  LET king == kingPosition(r.curBoard, ~r.blackFirst)
      to   == next.lastMove.to
  IN  \/ canAttack(next, getPieceTypeAtPosition(next, to), to, king)
      \/ checkChecked(r, next, FALSE)

canAttackLine(type, step) ==
  LET area == step[1] * step[2]
  IN  CASE type \in {W_QUEEN, B_QUEEN}   -> TRUE
        [] type \in {W_ROOK, B_ROOK}     -> area = 0
        [] type \in {W_BISHOP, B_BISHOP} -> area \in {1, -1}
        [] OTHER -> FALSE

\* The last part of canMove: walking from the king towards the square the
\* piece came from, the first thing met must not be a line attacker.
noIndirectAttack(tried, m, king) ==
  LET dr   == m.from[1] - king[1]
      dc   == m.from[2] - king[2]
      unit(d) == IF d = 0 THEN 0 ELSE Sign(d)
      step == <<unit(dr), unit(dc)>>
      at(n) == Along(king, step, n)
      stops == {n \in 1 .. (BOARD_SIZE - 1) :
                  /\ isValidPosition(at(n))
                  /\ at(n) = m.to \/ (~isEmpty(tried, at(n)) /\ at(n) # m.from)}
  IN  \/ dr # dc /\ dr + dc # 0 /\ dr * dc # 0
      \/ \A n \in stops :
           (\A k \in stops : n <= k) =>
             LET first == getPieceTypeAtPosition(tried, at(n))
             IN  \/ at(n) = m.to
                 \/ isSameColor(m.fromType, first)
                 \/ ~canAttackLine(first, step)

\* Does the piece moved last by the other side attack the king on the board
\* tried?  It is not in the lists either.
lastMovedAttacks(b, tried, m, king) ==
  LET last == b.lastMove.to
  IN  /\ isValidPosition(last)
      /\ last # m.to
      /\ ~isEmpty(tried, last)
      /\ canAttack(tried, getPieceTypeAtPosition(tried, last), last, king)

\* The rook of a castling move made last; note the target square m.to.
castledRookAttacks(b, tried, m) ==
  LET rook == getCastlingRookPos(b.lastMove)[2]
  IN  /\ b.lastMove.special = KING_CASTLING
      /\ rook # m.to
      /\ canAttack(tried, getPieceTypeAtPosition(tried, rook), rook, m.to)

\* canMove without the look at the piece that the other side moved last.
canMoveForgetsLast(r, m, checked, b) ==
  LET tried == apply(b, m)
      king  == kingPosition(tried, isBlack(m.fromType))
  IN  IF checked \/ isKing(m.fromType)
        THEN ~checkChecked(r, tried, isBlack(m.fromType) = r.blackFirst)
        ELSE noIndirectAttack(tried, m, king)

\* OneRound::canMove for a move m generated on the auxiliary board b, which
\* TryMove changes for the time of the test.
canMove(r, m, checked, b) ==
  LET tried == apply(b, m)
      king  == kingPosition(tried, isBlack(m.fromType))
  IN  /\ ~(checked /\ m.special = KING_CASTLING)
      /\ ~lastMovedAttacks(b, tried, m, king)
      /\ ~castledRookAttacks(b, tried, m)
      /\ IF checked \/ isKing(m.fromType)
           THEN ~checkChecked(r, tried, isBlack(m.fromType) = r.blackFirst)
           ELSE noIndirectAttack(tried, m, king)

\* The moves of the maximising side, in the order-free form of
\* generateAndSortMaxMoves.
maxMoves(r) ==
  {m \in UNION {getMoves(r.curBoard, p.pos) : p \in r.maxStepPieces} :
     canMove(r, m, r.isMaxChecked, r.curBoard)}

\* The listed pieces of the minimising side that the maximising move left on
\* the board.
minStepSurvivors(r) ==
  {p \in r.minStepPieces :
     getPieceTypeAtPosition(r.maxStepState, p.pos) = p.type}

minMoves(r) ==
  {m \in UNION {getMoves(r.maxStepState, p.pos) : p \in minStepSurvivors(r)} :
     canMove(r, m, r.isMinChecked, r.maxStepState)}

\* A maximising move that takes back the previous one is not tried.
isCircularMove(r, m) ==
  /\ isValidPosition(r.parentMove.from)
  /\ r.parentMove.from = m.to
  /\ r.parentMove.to = m.from
  /\ m.toType = EMPTY
  /\ r.parentMove.toType = EMPTY
  /\ r.curBoard.lastMove.fromType \notin {B_PAWN, W_PAWN}

\* The constructor and init(), then the first line of expand().
newRound(b, blackFirst, level, parentMove) ==
  LET r == [curBoard |-> b, blackFirst |-> blackFirst, level |-> level,
            parentMove |-> parentMove,
            maxStepPieces |-> pieceList(b, blackFirst),
            minStepPieces |-> pieceList(b, ~blackFirst),
            isMaxChecked |-> FALSE,
            maxStepState |-> clearBoard, isMinChecked |-> FALSE]
  IN  [r EXCEPT !.isMaxChecked = checkChecked(r, b, TRUE)]
============================================================================
