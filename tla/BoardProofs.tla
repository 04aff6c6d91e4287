---------------------------- MODULE BoardProofs ----------------------------
(***************************************************************************)
(* Facts about boards, generated moves and attacks, for every board: what  *)
(* the move generators of the piece classes promise, what Move::apply does *)
(* to a board and that Move::undo takes it back.                           *)
(***************************************************************************)
EXTENDS OneRound, TLAPS

Pawns == {W_PAWN, B_PAWN}

\* The piece types of one side.
SideTypes(black) == IF black THEN BlackTypes ELSE WhiteTypes

\* No king stands on a square other than the cached one.
KingsUnique(b) ==
  /\ \A s \in Squares : b.positions[s] = B_KING => s = b.blackKing
  /\ \A s \in Squares : b.positions[s] = W_KING => s = b.whiteKing

\* A pawn that has just moved by two squares stands where it went, behind an
\* empty square: it can be taken en passant.
EnPassantOK(b) ==
  LET m == b.lastMove
  IN  /\ doubleStepped(m, W_PAWN, 1, 3) =>
           /\ m.special = NORMAL_MOVE /\ m.toType = EMPTY
           /\ m.from \in Squares /\ m.to = <<3, m.from[2]>>
           /\ b.positions[<<3, m.from[2]>>] = W_PAWN
           /\ b.positions[<<2, m.from[2]>>] = EMPTY
           /\ b.positions[<<1, m.from[2]>>] = EMPTY
      /\ doubleStepped(m, B_PAWN, 6, 4) =>
           /\ m.special = NORMAL_MOVE /\ m.toType = EMPTY
           /\ m.from \in Squares /\ m.to = <<4, m.from[2]>>
           /\ b.positions[<<4, m.from[2]>>] = B_PAWN
           /\ b.positions[<<5, m.from[2]>>] = EMPTY
           /\ b.positions[<<6, m.from[2]>>] = EMPTY

\* What a generated move of a piece on the board b is like.
MoveOK(b, m) ==
  /\ m \in Moves /\ m.special # KING_CASTLING
  /\ m.from \in Squares /\ m.to \in Squares /\ m.to # m.from
  /\ m.fromType = b.positions[m.from] /\ m.fromType \in PieceTypes
  /\ m.toType = b.positions[m.to] /\ ~isSameColor(m.fromType, m.toType)
  /\ m.special # NORMAL_MOVE => m.fromType \in Pawns
  /\ m.special = PAWN_EN_PASSANT =>
       /\ m.toType = EMPTY
       /\ enPassantPos(m) \in Squares
       /\ b.positions[enPassantPos(m)] = enPassantPawn(m)
  /\ doubleStepped(m, W_PAWN, 1, 3) =>
       /\ m.special = NORMAL_MOVE /\ m.to = <<3, m.from[2]>> /\ m.toType = EMPTY
       /\ b.positions[<<2, m.from[2]>>] = EMPTY
  /\ doubleStepped(m, B_PAWN, 6, 4) =>
       /\ m.special = NORMAL_MOVE /\ m.to = <<4, m.from[2]>> /\ m.toType = EMPTY
       /\ b.positions[<<5, m.from[2]>>] = EMPTY

BoardOK(b) ==
  /\ b \in Boards /\ KingsUnique(b) /\ EnPassantOK(b)
  /\ b.lastMove.special # KING_CASTLING

----------------------------------------------------------------------------
(***************************************************************************)
(* Squares, types and boards.                                              *)
(***************************************************************************)

\* A pair of integers is a square exactly when isValidPosition says so.
LEMMA SquareFacts ==
  /\ \A s \in Squares : /\ s[1] \in 0 .. 7 /\ s[2] \in 0 .. 7 /\ s = <<s[1], s[2]>>
                        /\ isValidPosition(s)
  /\ \A i, j \in Int : isValidPosition(<<i, j>>) => <<i, j>> \in Squares
  /\ \A i, j \in 0 .. 7 : <<i, j>> \in Squares
  /\ invalidPosition \notin Squares /\ ~isValidPosition(invalidPosition)
<1>1. Squares = (0 .. 7) \X (0 .. 7)
  BY DEF Squares, Coord, BOARD_SIZE
<1>2. ASSUME NEW s \in Squares
      PROVE  /\ s[1] \in 0 .. 7 /\ s[2] \in 0 .. 7 /\ s = <<s[1], s[2]>>
             /\ isValidPosition(s)
  BY <1>1 DEF isValidPosition, BOARD_SIZE
<1>3. \A i, j \in 0 .. 7 : <<i, j>> \in Squares
  BY <1>1
<1>4. ASSUME NEW i \in Int, NEW j \in Int, isValidPosition(<<i, j>>)
      PROVE  <<i, j>> \in Squares
  <2>1. i \in 0 .. 7 /\ j \in 0 .. 7
    BY <1>4 DEF isValidPosition, BOARD_SIZE
  <2> QED
    BY <1>3, <2>1
<1>5. ~isValidPosition(invalidPosition)
  BY DEF isValidPosition, invalidPosition
<1> QED
  BY <1>2, <1>3, <1>4, <1>5

\* A pair of coordinates is a square.
LEMMA SquareIn ==
  ASSUME NEW i \in 0 .. 7, NEW j \in 0 .. 7
  PROVE  <<i, j>> \in Squares
BY DEF Squares, Coord, BOARD_SIZE

\* The numbers behind the piece types, for the arithmetic of the solver.
LEMMA TypeFacts ==
  /\ WhiteTypes = 1 .. 6 /\ BlackTypes = 9 .. 14 /\ EMPTY = 0
  /\ PieceTypes = 1 .. 6 \cup 9 .. 14 /\ Types = {0} \cup PieceTypes
  /\ W_PAWN = 1 /\ W_ROOK = 2 /\ W_KNIGHT = 3 /\ W_KING = 4 /\ W_QUEEN = 5
  /\ W_BISHOP = 6 /\ B_PAWN = 9 /\ B_ROOK = 10 /\ B_KNIGHT = 11 /\ B_KING = 12
  /\ B_QUEEN = 13 /\ B_BISHOP = 14
BY DEF WhiteTypes, BlackTypes, PieceTypes, Types, EMPTY, W_PAWN, W_ROOK, W_KNIGHT,
       W_KING, W_QUEEN, W_BISHOP, B_PAWN, B_ROOK, B_KNIGHT, B_KING, B_QUEEN, B_BISHOP

\* The numbers behind the special types of moves.
LEMMA SpecialFacts ==
  /\ NORMAL_MOVE = 0 /\ QUEEN_PROMOTION = 1 /\ KNIGHT_PROMOTION = 2
  /\ PAWN_EN_PASSANT = 3 /\ KING_CASTLING = 4 /\ SpecialTypes = 0 .. 4
BY DEF NORMAL_MOVE, QUEEN_PROMOTION, KNIGHT_PROMOTION, PAWN_EN_PASSANT, KING_CASTLING,
       SpecialTypes

\* The fields of a board.
LEMMA BoardFields ==
  ASSUME NEW b \in Boards
  PROVE  /\ b.positions \in [Squares -> Types] /\ b.blackKing \in Positions
         /\ b.whiteKing \in Positions /\ b.lastMove \in Moves
         /\ \A s \in Squares : b.positions[s] \in Types
BY DEF Boards

\* Boards that agree on their fields are equal.
LEMMA SameBoard ==
  ASSUME NEW b \in Boards, NEW c \in Boards,
         \A s \in Squares : b.positions[s] = c.positions[s],
         b.blackKing = c.blackKing, b.whiteKing = c.whiteKing,
         b.lastMove = c.lastMove
  PROVE  b = c
<1>1. b.positions = c.positions
  BY BoardFields
<1> QED
  BY <1>1 DEF Boards

\* The colour test.
LEMMA ColorFacts ==
  /\ \A t, u \in Types : isSameColor(t, u) <=>
       \/ t \in WhiteTypes /\ u \in WhiteTypes
       \/ t \in BlackTypes /\ u \in BlackTypes
  /\ \A t \in Types : isBlack(t) <=> t \in BlackTypes
BY TypeFacts DEF isSameColor, isBlack

\* The squares of one side, by the types on them.
LEMMA PiecesOfFacts ==
  ASSUME NEW b \in Boards, NEW black \in BOOLEAN
  PROVE  PiecesOf(b, black) = {s \in Squares : b.positions[s] \in SideTypes(black)}
<1>1. kingOf(black) \in Types /\ (IF black THEN kingOf(black) \in BlackTypes
                                           ELSE kingOf(black) \in WhiteTypes)
  BY TypeFacts DEF kingOf
<1>2. \A s \in Squares : b.positions[s] \in Types
  BY BoardFields
<1>3. \A t \in WhiteTypes : t \notin BlackTypes
  BY TypeFacts
<1>4. ASSUME NEW s \in Squares
      PROVE  isSameColor(kingOf(black), b.positions[s])
               <=> b.positions[s] \in SideTypes(black)
  BY <1>1, <1>2, <1>3, ColorFacts DEF SideTypes
<1> QED
  BY <1>4 DEF PiecesOf, getPieceTypeAtPosition

----------------------------------------------------------------------------
(***************************************************************************)
(* The generated moves.                                                    *)
(***************************************************************************)

\* The fields of a move made by the constructor of Move.
LEMMA NewMoveFacts ==
  ASSUME NEW b \in Boards, NEW sp \in SpecialTypes, NEW src \in Squares,
         NEW tgt \in Squares, NEW m, m = newMove(b, sp, src, tgt)
  PROVE  /\ m \in Moves /\ m.special = sp /\ m.from = src /\ m.to = tgt
         /\ m.fromType = b.positions[src] /\ m.toType = b.positions[tgt]
<1>1. b.positions[src] \in Types /\ b.positions[tgt] \in Types
  BY BoardFields
<1> QED
  BY <1>1 DEF newMove, Moves, Positions, getPieceTypeAtPosition

\* A square where a piece can be placed is another square of the board.
LEMMA PlaceFacts ==
  ASSUME NEW b \in Boards, NEW src \in Squares, b.positions[src] \in PieceTypes,
         NEW i \in Int, NEW j \in Int, canPlace(b, b.positions[src], <<i, j>>)
  PROVE  /\ <<i, j>> \in Squares /\ <<i, j>> # src
         /\ ~isSameColor(b.positions[src], b.positions[<<i, j>>])
<1>1. <<i, j>> \in Squares /\ ~isSameColor(b.positions[src], b.positions[<<i, j>>])
  BY SquareFacts DEF canPlace, getPieceTypeAtPosition
<1>2. isSameColor(b.positions[src], b.positions[src])
  BY TypeFacts, BoardFields, ColorFacts
<1> QED
  BY <1>1, <1>2

\* A step of a piece that is no pawn.
Steps == KingSteps \cup KnightSteps

\* A walk from a square leads to a pair of integers.
LEMMA AlongFacts ==
  ASSUME NEW src \in Squares, NEW step \in Steps, NEW n \in Int
  PROVE  \E i, j \in Int : Along(src, step, n) = <<i, j>>
<1>1. src[1] \in Int /\ src[2] \in Int
  BY SquareFacts
<1>2. step[1] \in Int /\ step[2] \in Int
  BY DEF Steps, KingSteps, KnightSteps, Straight, Diagonal
<1> QED
  BY <1>1, <1>2 DEF Along

\* The moves to a set of squares on which the piece can be placed.
LEMMA NormalMovesOK ==
  ASSUME NEW b \in Boards, NEW src \in Squares,
         b.positions[src] \in PieceTypes \ Pawns, NEW targets,
         \A t \in targets : \E i, j \in Int :
           t = <<i, j>> /\ canPlace(b, b.positions[src], <<i, j>>),
         NEW m \in NormalMoves(b, src, targets)
  PROVE  MoveOK(b, m) /\ m.from = src
<1>1. PICK t \in targets : m = newMove(b, NORMAL_MOVE, src, t)
  BY DEF NormalMoves
<1>2. t \in Squares /\ t # src /\ ~isSameColor(b.positions[src], b.positions[t])
  <2>1. PICK i \in Int, j \in Int :
          t = <<i, j>> /\ canPlace(b, b.positions[src], <<i, j>>)
    OBVIOUS
  <2> QED
    BY <2>1, PlaceFacts
<1>3. /\ m \in Moves /\ m.special = NORMAL_MOVE /\ m.from = src /\ m.to = t
      /\ m.fromType = b.positions[src] /\ m.toType = b.positions[t]
  BY <1>1, <1>2, NewMoveFacts, SpecialFacts
<1>4. m.fromType \notin Pawns
  BY <1>3
<1> QED
  BY <1>2, <1>3, <1>4, SpecialFacts DEF MoveOK, doubleStepped, Pawns

\* The targets of lines and steps pass canPlace.
LEMMA TargetsPlace ==
  ASSUME NEW b, NEW src \in Squares, NEW steps \in SUBSET Steps,
         NEW t \in LineTargets(b, src, steps) \cup StepTargets(b, src, steps)
  PROVE  \E i, j \in Int : t = <<i, j>> /\ canPlace(b, b.positions[src], <<i, j>>)
<1>1. /\ canPlace(b, b.positions[src], t)
      /\ \E step \in steps, n \in Int : t = Along(src, step, n)
  <2>1. CASE t \in LineTargets(b, src, steps)
    <3>1. PICK sn \in steps \X (1 .. 7) :
            t = Along(src, sn[1], sn[2]) /\ canPlace(b, b.positions[src], t)
      BY <2>1 DEF LineTargets, getPieceTypeAtPosition, BOARD_SIZE
    <3>2. sn[1] \in steps /\ sn[2] \in Int
      OBVIOUS
    <3> QED
      BY <3>1, <3>2
  <2>2. CASE t \in StepTargets(b, src, steps)
    BY <2>2 DEF StepTargets, getPieceTypeAtPosition
  <2> QED
    BY <2>1, <2>2
<1>2. PICK step \in steps, n \in Int : t = Along(src, step, n)
  BY <1>1
<1>3. PICK i \in Int, j \in Int : Along(src, step, n) = <<i, j>>
  BY AlongFacts
<1> QED
  BY <1>1, <1>2, <1>3

\* canCastle wants the king's own square to be empty.
LEMMA NoCastling ==
  ASSUME NEW b \in Boards, NEW src \in Squares, b.positions[src] \in PieceTypes,
         NEW smaller \in BOOLEAN
  PROVE  ~canCastle(b, src, smaller)
<1>1. <<src[1], src[2] - 0>> = src /\ <<src[1], src[2] + 0>> = src
  <2>1. src = <<src[1], src[2]>> /\ src[2] \in 0 .. 7
    BY SquareFacts
  <2>2. src[2] - 0 = src[2] /\ src[2] + 0 = src[2]
    BY <2>1
  <2> QED
    BY <2>1, <2>2
<1>2. ~isEmpty(b, src)
  BY TypeFacts DEF isEmpty, getPieceTypeAtPosition
<1>3. 0 \in 0 .. 3 /\ 0 \in 0 .. 2
  OBVIOUS
<1> QED
  BY <1>1, <1>2, <1>3 DEF canCastle

\* The steps of all pieces are among those that the lemmas speak of.
LEMMA PieceStepFacts ==
  /\ Straight \subseteq Steps /\ Diagonal \subseteq Steps
  /\ Straight \cup Diagonal \subseteq Steps /\ KnightSteps \subseteq Steps
  /\ KingSteps \subseteq Steps
BY DEF Steps, KingSteps

\* The moves of a piece by its type.
LEMMA GetMovesFacts ==
  ASSUME NEW b \in Boards, NEW src \in Squares, NEW type \in PieceTypes,
         b.positions[src] = type
  PROVE  /\ type \in {W_ROOK, B_ROOK} =>
              getMoves(b, src) = NormalMoves(b, src, LineTargets(b, src, Straight))
         /\ type \in {W_BISHOP, B_BISHOP} =>
              getMoves(b, src) = NormalMoves(b, src, LineTargets(b, src, Diagonal))
         /\ type \in {W_QUEEN, B_QUEEN} =>
              getMoves(b, src) = NormalMoves(b, src, LineTargets(b, src, Straight \cup Diagonal))
         /\ type \in {W_KNIGHT, B_KNIGHT} =>
              getMoves(b, src) = NormalMoves(b, src, StepTargets(b, src, KnightSteps))
         /\ type \in {W_KING, B_KING} =>
              getMoves(b, src) = NormalMoves(b, src, StepTargets(b, src, KingSteps))
         /\ type = W_PAWN => getMoves(b, src) = WPawnMoves(b, src)
         /\ type = B_PAWN => getMoves(b, src) = BPawnMoves(b, src)
<1>1. ASSUME type \in {W_KING, B_KING}
      PROVE  KingMoves(b, src) = NormalMoves(b, src, StepTargets(b, src, KingSteps))
  BY <1>1, NoCastling DEF KingMoves
<1>2. type = getPieceTypeAtPosition(b, src)
  BY DEF getPieceTypeAtPosition
<1>3. CASE type \in {W_ROOK, B_ROOK}
  BY <1>2, <1>3, TypeFacts DEF getMoves
<1>4. CASE type \in {W_BISHOP, B_BISHOP}
  BY <1>2, <1>4, TypeFacts DEF getMoves
<1>5. CASE type \in {W_QUEEN, B_QUEEN}
  BY <1>2, <1>5, TypeFacts DEF getMoves
<1>6. CASE type \in {W_KNIGHT, B_KNIGHT}
  BY <1>2, <1>6, TypeFacts DEF getMoves
<1>7. CASE type \in {W_KING, B_KING}
  BY <1>1, <1>2, <1>7, TypeFacts DEF getMoves
<1>8. CASE type = W_PAWN
  BY <1>2, <1>8, TypeFacts DEF getMoves
<1>9. CASE type = B_PAWN
  BY <1>2, <1>9, TypeFacts DEF getMoves
<1> QED
  BY <1>3, <1>4, <1>5, <1>6, <1>7, <1>8, <1>9, TypeFacts

\* The four kinds of pawn moves.
PawnMove(b, src, dir, home, lastRow, epRow, other, otherHome, m) ==
  LET one   == <<src[1] + dir, src[2]>>
      two   == <<src[1] + 2 * dir, src[2]>>
      sides == {<<src[1] + dir, src[2] - 1>>, <<src[1] + dir, src[2] + 1>>}
      kinds == IF src[1] + dir # lastRow THEN {NORMAL_MOVE}
                                         ELSE {QUEEN_PROMOTION, KNIGHT_PROMOTION}
      place(t) == canPlace(b, b.positions[src], t)
  IN  \/ /\ place(one) /\ b.positions[one] = EMPTY
         /\ \E sp \in kinds : m = newMove(b, sp, src, one)
      \/ /\ src[1] = home /\ b.positions[one] = EMPTY /\ b.positions[two] = EMPTY
         /\ m = newMove(b, NORMAL_MOVE, src, two)
      \/ \E t \in sides : /\ place(t) /\ b.positions[t] # EMPTY
                          /\ \E sp \in kinds : m = newMove(b, sp, src, t)
      \/ /\ src[1] = epRow /\ doubleStepped(b.lastMove, other, otherHome, epRow)
         /\ \E t \in sides : /\ b.lastMove.from[2] = t[2]
                             /\ m = newMove(b, PAWN_EN_PASSANT, src, t)

\* PawnMoves generates exactly these kinds.
LEMMA PawnMoveKinds ==
  ASSUME NEW b, NEW src, NEW dir, NEW home, NEW lastRow, NEW epRow, NEW other,
         NEW otherHome, NEW m
  PROVE  m \in PawnMoves(b, src, dir, home, lastRow, epRow, other, otherHome)
           <=> PawnMove(b, src, dir, home, lastRow, epRow, other, otherHome, m)
<1> DEFINE type  == getPieceTypeAtPosition(b, src)
           one   == <<src[1] + dir, src[2]>>
           two   == <<src[1] + 2 * dir, src[2]>>
           side1 == <<src[1] + dir, src[2] - 1>>
           side2 == <<src[1] + dir, src[2] + 1>>
           A == UNION {addMove(b, src, tgt, lastRow) :
                  tgt \in {t \in {one} : canPlace(b, type, t) /\ isEmpty(b, t)}}
           B == NormalMoves(b, src,
                  {t \in {two} : src[1] = home /\ isEmpty(b, one) /\ isEmpty(b, t)})
           C == UNION {addMove(b, src, tgt, lastRow) :
                  tgt \in {t \in {side1, side2} :
                             canPlace(b, type, t) /\ ~isEmpty(b, t)}}
           D == {newMove(b, PAWN_EN_PASSANT, src, tgt) :
                  tgt \in {t \in {side1, side2} :
                             /\ src[1] = epRow
                             /\ doubleStepped(b.lastMove, other, otherHome, epRow)
                             /\ b.lastMove.from[2] = t[2]}}
           kinds == IF src[1] + dir # lastRow THEN {NORMAL_MOVE}
                                              ELSE {QUEEN_PROMOTION, KNIGHT_PROMOTION}
<1>1. PawnMoves(b, src, dir, home, lastRow, epRow, other, otherHome)
        = A \cup B \cup C \cup D
  BY DEF PawnMoves
<1>2. \A t \in {one, side1, side2} :
        addMove(b, src, t, lastRow) = {newMove(b, sp, src, t) : sp \in kinds}
  <2>1. ASSUME NEW t, t[1] = src[1] + dir
        PROVE  addMove(b, src, t, lastRow) = {newMove(b, sp, src, t) : sp \in kinds}
    <3>1. CASE src[1] + dir # lastRow
      BY <2>1, <3>1 DEF addMove
    <3>2. CASE src[1] + dir = lastRow
      BY <2>1, <3>2 DEF addMove
    <3> QED
      BY <3>1, <3>2
  <2>2. one[1] = src[1] + dir /\ side1[1] = src[1] + dir /\ side2[1] = src[1] + dir
    OBVIOUS
  <2> HIDE DEF one, side1, side2, kinds
  <2> QED
    BY <2>1, <2>2
<1>3. m \in A <=> /\ canPlace(b, b.positions[src], one) /\ b.positions[one] = EMPTY
                  /\ \E sp \in kinds : m = newMove(b, sp, src, one)
  BY <1>2 DEF isEmpty, getPieceTypeAtPosition
<1>4. m \in B <=> /\ src[1] = home /\ b.positions[one] = EMPTY
                  /\ b.positions[two] = EMPTY
                  /\ m = newMove(b, NORMAL_MOVE, src, two)
  BY DEF NormalMoves, isEmpty, getPieceTypeAtPosition
<1>5. m \in C <=> \E t \in {side1, side2} :
                    /\ canPlace(b, b.positions[src], t) /\ b.positions[t] # EMPTY
                    /\ \E sp \in kinds : m = newMove(b, sp, src, t)
  BY <1>2 DEF isEmpty, getPieceTypeAtPosition
<1>6. m \in D <=> /\ src[1] = epRow
                  /\ doubleStepped(b.lastMove, other, otherHome, epRow)
                  /\ \E t \in {side1, side2} :
                       /\ b.lastMove.from[2] = t[2]
                       /\ m = newMove(b, PAWN_EN_PASSANT, src, t)
  OBVIOUS
<1> HIDE DEF A, B, C, D
<1> QED
  BY <1>1, <1>3, <1>4, <1>5, <1>6 DEF PawnMove

\* A pawn that moves by two squares from home passes an empty square.
StepOK(b, src, tgt, sp) ==
  /\ b.positions[src] = W_PAWN /\ src[1] = 1 /\ tgt[1] = 3 =>
       /\ sp = NORMAL_MOVE /\ tgt = <<3, src[2]>> /\ b.positions[tgt] = EMPTY
       /\ b.positions[<<2, src[2]>>] = EMPTY
  /\ b.positions[src] = B_PAWN /\ src[1] = 6 /\ tgt[1] = 4 =>
       /\ sp = NORMAL_MOVE /\ tgt = <<4, src[2]>> /\ b.positions[tgt] = EMPTY
       /\ b.positions[<<5, src[2]>>] = EMPTY

\* A pawn move other than a capture en passant.
LEMMA PlainPawnMove ==
  ASSUME NEW b \in Boards, NEW src \in Squares, NEW tgt \in Squares, tgt # src,
         b.positions[src] \in Pawns, ~isSameColor(b.positions[src], b.positions[tgt]),
         NEW sp \in {NORMAL_MOVE, QUEEN_PROMOTION, KNIGHT_PROMOTION},
         NEW m, m = newMove(b, sp, src, tgt), StepOK(b, src, tgt, sp)
  PROVE  MoveOK(b, m) /\ m.from = src
<1>1. sp \in SpecialTypes /\ sp # PAWN_EN_PASSANT /\ sp # KING_CASTLING
  BY SpecialFacts
<1>2. /\ m \in Moves /\ m.special = sp /\ m.from = src /\ m.to = tgt
      /\ m.fromType = b.positions[src] /\ m.toType = b.positions[tgt]
  BY <1>1, NewMoveFacts
<1>3. b.positions[src] \in PieceTypes
  BY TypeFacts DEF Pawns
<1> QED
  BY <1>1, <1>2, <1>3 DEF MoveOK, doubleStepped, StepOK

\* A capture en passant.
LEMMA EnPassantMove ==
  ASSUME NEW b \in Boards, NEW src \in Squares, NEW tgt \in Squares,
         b.positions[src] \in Pawns, b.positions[tgt] = EMPTY,
         NEW m, m = newMove(b, PAWN_EN_PASSANT, src, tgt),
         enPassantPos(m) \in Squares,
         b.positions[enPassantPos(m)] = enPassantPawn(m),
         src[1] # 1, src[1] # 6
  PROVE  MoveOK(b, m) /\ m.from = src
<1>1. /\ m \in Moves /\ m.special = PAWN_EN_PASSANT /\ m.from = src /\ m.to = tgt
      /\ m.fromType = b.positions[src] /\ m.toType = b.positions[tgt]
  BY SpecialFacts, NewMoveFacts
<1>2. /\ b.positions[src] \in PieceTypes /\ b.positions[src] # EMPTY
      /\ ~isSameColor(b.positions[src], EMPTY)
  BY TypeFacts DEF Pawns, isSameColor
<1> QED
  BY <1>1, <1>2, SpecialFacts DEF MoveOK, doubleStepped

\* An empty square has no colour.
LEMMA NotSameAsEmpty ==
  ASSUME NEW t
  PROVE  ~isSameColor(t, EMPTY)
BY DEF isSameColor

\* The generated moves of a white pawn.
LEMMA WPawnMoveOK ==
  ASSUME NEW b \in Boards, EnPassantOK(b), NEW src \in Squares,
         b.positions[src] = W_PAWN, NEW m,
         PawnMove(b, src, 1, 1, 7, 4, B_PAWN, 6, m)
  PROVE  MoveOK(b, m) /\ m.from = src
<1> DEFINE one   == <<src[1] + 1, src[2]>>
           two   == <<src[1] + 2 * 1, src[2]>>
           sides == {<<src[1] + 1, src[2] - 1>>, <<src[1] + 1, src[2] + 1>>}
           kinds == IF src[1] + 1 # 7 THEN {NORMAL_MOVE}
                                      ELSE {QUEEN_PROMOTION, KNIGHT_PROMOTION}
<1>1. /\ src[1] \in 0 .. 7 /\ src[2] \in 0 .. 7 /\ b.positions[src] \in Pawns
      /\ b.positions[src] \in PieceTypes
      /\ kinds \subseteq {NORMAL_MOVE, QUEEN_PROMOTION, KNIGHT_PROMOTION}
      /\ W_PAWN # B_PAWN
  BY SquareFacts, TypeFacts DEF Pawns
<1>2. CASE /\ canPlace(b, b.positions[src], one) /\ b.positions[one] = EMPTY
           /\ \E sp \in kinds : m = newMove(b, sp, src, one)
  <2>1. one \in Squares /\ one # src /\ ~isSameColor(b.positions[src], b.positions[one])
    BY <1>1, <1>2, PlaceFacts
  <2>2. PICK sp \in kinds : m = newMove(b, sp, src, one)
    BY <1>2
  <2>3. StepOK(b, src, one, sp)
    BY <1>1 DEF StepOK
  <2> HIDE DEF one, kinds
  <2> QED
    BY ONLY <1>1, <2>1, <2>2, <2>3, PlainPawnMove
<1>3. CASE /\ src[1] = 1 /\ b.positions[one] = EMPTY /\ b.positions[two] = EMPTY
           /\ m = newMove(b, NORMAL_MOVE, src, two)
  <2>1. two = <<3, src[2]>> /\ one = <<2, src[2]>>
    BY <1>1, <1>3
  <2>2. two # src
    <3>1. two[1] = 3
      BY <1>1, <1>3
    <3> HIDE DEF two
    <3> QED
      BY <1>3, <3>1
  <2>3. <<3, src[2]>> \in Squares
    <3>1. 3 \in 0 .. 7 /\ src[2] \in 0 .. 7
      BY <1>1
    <3> QED
      BY ONLY <3>1, SquareIn
  <2>4. ~isSameColor(b.positions[src], b.positions[two])
    BY <1>3, NotSameAsEmpty
  <2>5. StepOK(b, src, two, NORMAL_MOVE)
    BY <1>1, <1>3, <2>1 DEF StepOK
  <2> HIDE DEF one, two
  <2> QED
    BY <1>1, <1>3, <2>1, <2>2, <2>3, <2>4, <2>5, PlainPawnMove
<1>4. CASE \E t \in sides : /\ canPlace(b, b.positions[src], t) /\ b.positions[t] # EMPTY
                            /\ \E sp \in kinds : m = newMove(b, sp, src, t)
  <2>1. PICK t \in sides : /\ canPlace(b, b.positions[src], t) /\ b.positions[t] # EMPTY
                           /\ \E sp \in kinds : m = newMove(b, sp, src, t)
    BY <1>4
  <2>2. PICK sp \in kinds : m = newMove(b, sp, src, t)
    BY <2>1
  <2>3. PICK i \in Int, j \in Int : t = <<i, j>> /\ i = src[1] + 1
    BY <1>1
  <2>4. t \in Squares /\ t # src /\ ~isSameColor(b.positions[src], b.positions[t])
    BY <1>1, <2>1, <2>3, PlaceFacts
  <2>5. StepOK(b, src, t, sp)
    BY <1>1, <2>3 DEF StepOK
  <2> HIDE DEF sides, kinds
  <2> QED
    BY ONLY <1>1, <2>2, <2>4, <2>5, PlainPawnMove
<1>5. CASE /\ src[1] = 4 /\ doubleStepped(b.lastMove, B_PAWN, 6, 4)
           /\ \E t \in sides : /\ b.lastMove.from[2] = t[2]
                               /\ m = newMove(b, PAWN_EN_PASSANT, src, t)
  <2>1. PICK t \in sides : /\ b.lastMove.from[2] = t[2]
                           /\ m = newMove(b, PAWN_EN_PASSANT, src, t)
    BY <1>5
  <2> DEFINE c == b.lastMove.from[2]
  <2>2. /\ c \in 0 .. 7 /\ b.positions[<<4, c>>] = B_PAWN /\ b.positions[<<5, c>>] = EMPTY
    BY <1>5, SquareFacts DEF EnPassantOK
  <2>3. t = <<5, c>>
    BY <1>1, <1>5, <2>1
  <2>4. t \in Squares /\ <<4, c>> \in Squares
    <3>1. 4 \in 0 .. 7 /\ 5 \in 0 .. 7
      OBVIOUS
    <3> HIDE DEF c
    <3> QED
      BY <2>2, <2>3, <3>1, SquareIn
  <2>5. m.fromType = W_PAWN /\ m.to = t
    BY <2>1, <2>4, NewMoveFacts, SpecialFacts
  <2>6. enPassantPos(m) = <<4, c>> /\ enPassantPawn(m) = B_PAWN
    BY <1>1, <2>2, <2>3, <2>5 DEF enPassantPos, enPassantPawn
  <2> HIDE DEF c
  <2> QED
    BY <1>1, <1>5, <2>1, <2>2, <2>3, <2>4, <2>6, EnPassantMove
<1> QED
  BY <1>2, <1>3, <1>4, <1>5 DEF PawnMove

\* The generated moves of a black pawn.
LEMMA BPawnMoveOK ==
  ASSUME NEW b \in Boards, EnPassantOK(b), NEW src \in Squares,
         b.positions[src] = B_PAWN, NEW m,
         PawnMove(b, src, -1, 6, 0, 3, W_PAWN, 1, m)
  PROVE  MoveOK(b, m) /\ m.from = src
<1> DEFINE one   == <<src[1] + (-1), src[2]>>
           two   == <<src[1] + 2 * (-1), src[2]>>
           sides == {<<src[1] + (-1), src[2] - 1>>, <<src[1] + (-1), src[2] + 1>>}
           kinds == IF src[1] + (-1) # 0 THEN {NORMAL_MOVE}
                                      ELSE {QUEEN_PROMOTION, KNIGHT_PROMOTION}
<1>1. /\ src[1] \in 0 .. 7 /\ src[2] \in 0 .. 7 /\ b.positions[src] \in Pawns
      /\ b.positions[src] \in PieceTypes
      /\ kinds \subseteq {NORMAL_MOVE, QUEEN_PROMOTION, KNIGHT_PROMOTION}
      /\ W_PAWN # B_PAWN
  BY SquareFacts, TypeFacts DEF Pawns
<1>2. CASE /\ canPlace(b, b.positions[src], one) /\ b.positions[one] = EMPTY
           /\ \E sp \in kinds : m = newMove(b, sp, src, one)
  <2>1. one \in Squares /\ one # src /\ ~isSameColor(b.positions[src], b.positions[one])
    BY <1>1, <1>2, PlaceFacts
  <2>2. PICK sp \in kinds : m = newMove(b, sp, src, one)
    BY <1>2
  <2>3. StepOK(b, src, one, sp)
    BY <1>1 DEF StepOK
  <2> HIDE DEF one, kinds
  <2> QED
    BY ONLY <1>1, <2>1, <2>2, <2>3, PlainPawnMove
<1>3. CASE /\ src[1] = 6 /\ b.positions[one] = EMPTY /\ b.positions[two] = EMPTY
           /\ m = newMove(b, NORMAL_MOVE, src, two)
  <2>1. two = <<4, src[2]>> /\ one = <<5, src[2]>>
    BY <1>1, <1>3
  <2>2. two # src
    <3>1. two[1] = 4
      BY <1>1, <1>3
    <3> HIDE DEF two
    <3> QED
      BY <1>3, <3>1
  <2>3. <<4, src[2]>> \in Squares
    <3>1. 4 \in 0 .. 7 /\ src[2] \in 0 .. 7
      BY <1>1
    <3> QED
      BY ONLY <3>1, SquareIn
  <2>4. ~isSameColor(b.positions[src], b.positions[two])
    BY <1>3, NotSameAsEmpty
  <2>5. StepOK(b, src, two, NORMAL_MOVE)
    BY <1>1, <1>3, <2>1 DEF StepOK
  <2> HIDE DEF one, two
  <2> QED
    BY <1>1, <1>3, <2>1, <2>2, <2>3, <2>4, <2>5, PlainPawnMove
<1>4. CASE \E t \in sides : /\ canPlace(b, b.positions[src], t) /\ b.positions[t] # EMPTY
                            /\ \E sp \in kinds : m = newMove(b, sp, src, t)
  <2>1. PICK t \in sides : /\ canPlace(b, b.positions[src], t) /\ b.positions[t] # EMPTY
                           /\ \E sp \in kinds : m = newMove(b, sp, src, t)
    BY <1>4
  <2>2. PICK sp \in kinds : m = newMove(b, sp, src, t)
    BY <2>1
  <2>3. PICK i \in Int, j \in Int : t = <<i, j>> /\ i = src[1] + (-1)
    BY <1>1
  <2>4. t \in Squares /\ t # src /\ ~isSameColor(b.positions[src], b.positions[t])
    BY <1>1, <2>1, <2>3, PlaceFacts
  <2>5. StepOK(b, src, t, sp)
    BY <1>1, <2>3 DEF StepOK
  <2> HIDE DEF sides, kinds
  <2> QED
    BY ONLY <1>1, <2>2, <2>4, <2>5, PlainPawnMove
<1>5. CASE /\ src[1] = 3 /\ doubleStepped(b.lastMove, W_PAWN, 1, 3)
           /\ \E t \in sides : /\ b.lastMove.from[2] = t[2]
                               /\ m = newMove(b, PAWN_EN_PASSANT, src, t)
  <2>1. PICK t \in sides : /\ b.lastMove.from[2] = t[2]
                           /\ m = newMove(b, PAWN_EN_PASSANT, src, t)
    BY <1>5
  <2> DEFINE c == b.lastMove.from[2]
  <2>2. /\ c \in 0 .. 7 /\ b.positions[<<3, c>>] = W_PAWN /\ b.positions[<<2, c>>] = EMPTY
    BY <1>5, SquareFacts DEF EnPassantOK
  <2>3. t = <<2, c>>
    BY <1>1, <1>5, <2>1
  <2>4. t \in Squares /\ <<3, c>> \in Squares
    <3>1. 3 \in 0 .. 7 /\ 2 \in 0 .. 7
      OBVIOUS
    <3> HIDE DEF c
    <3> QED
      BY <2>2, <2>3, <3>1, SquareIn
  <2>5. m.fromType = B_PAWN /\ m.to = t
    BY <2>1, <2>4, NewMoveFacts, SpecialFacts
  <2>6. enPassantPos(m) = <<3, c>> /\ enPassantPawn(m) = W_PAWN
    BY <1>1, <2>2, <2>3, <2>5 DEF enPassantPos, enPassantPawn
  <2> HIDE DEF c
  <2> QED
    BY <1>1, <1>5, <2>1, <2>2, <2>3, <2>4, <2>6, EnPassantMove
<1> QED
  BY <1>2, <1>3, <1>4, <1>5 DEF PawnMove

\* Every generated move is such a move, of the piece it was generated for.
LEMMA GeneratedMoves ==
  ASSUME NEW b \in Boards, EnPassantOK(b), NEW src \in Squares,
         b.positions[src] \in PieceTypes, NEW m \in getMoves(b, src)
  PROVE  MoveOK(b, m) /\ m.from = src
<1> DEFINE type == b.positions[src]
<1>1. CASE type = W_PAWN
  BY <1>1, GetMovesFacts, PawnMoveKinds, WPawnMoveOK DEF WPawnMoves
<1>2. CASE type = B_PAWN
  BY <1>2, GetMovesFacts, PawnMoveKinds, BPawnMoveOK DEF BPawnMoves
<1>3. CASE type \notin Pawns
  <2>1. \E steps \in SUBSET Steps :
          \/ m \in NormalMoves(b, src, LineTargets(b, src, steps))
          \/ m \in NormalMoves(b, src, StepTargets(b, src, steps))
    <3>1. \/ type \in {W_ROOK, B_ROOK} \/ type \in {W_BISHOP, B_BISHOP}
          \/ type \in {W_QUEEN, B_QUEEN} \/ type \in {W_KNIGHT, B_KNIGHT}
          \/ type \in {W_KING, B_KING}
      BY <1>3, TypeFacts DEF Pawns
    <3> QED
      BY <3>1, GetMovesFacts, PieceStepFacts
  <2>2. PICK targets : /\ m \in NormalMoves(b, src, targets)
                       /\ \E steps \in SUBSET Steps :
                            \/ targets = LineTargets(b, src, steps)
                            \/ targets = StepTargets(b, src, steps)
    BY <2>1
  <2>3. \A t \in targets : \E i, j \in Int : t = <<i, j>> /\ canPlace(b, type, <<i, j>>)
    <3>1. PICK steps \in SUBSET Steps : \/ targets = LineTargets(b, src, steps)
                                       \/ targets = StepTargets(b, src, steps)
      BY <2>2
    <3> QED
      BY <3>1, TargetsPlace
  <2> QED
    BY <1>3, <2>2, <2>3, NormalMovesOK
<1> QED
  BY <1>1, <1>2, <1>3 DEF Pawns

----------------------------------------------------------------------------
(***************************************************************************)
(* Applying a move and taking it back.                                     *)
(***************************************************************************)

\* The board c is b with a piece put on a square.
IsSet(b, type, pos, c) ==
  /\ c \in Boards /\ c.lastMove = b.lastMove
  /\ \A s \in Squares : c.positions[s] = IF s = pos THEN type ELSE b.positions[s]
  /\ c.blackKing = IF type = B_KING THEN pos ELSE b.blackKing
  /\ c.whiteKing = IF type = W_KING THEN pos ELSE b.whiteKing

\* What Board::set does.
LEMMA SetFacts ==
  ASSUME NEW b \in Boards, NEW type \in Types, NEW pos \in Squares
  PROVE  IsSet(b, type, pos, set(b, type, pos))
<1>1. /\ set(b, type, pos) \in Boards
      /\ set(b, type, pos).lastMove = b.lastMove
      /\ set(b, type, pos).positions = [b.positions EXCEPT ![pos] = type]
      /\ set(b, type, pos).blackKing = (IF type = B_KING THEN pos ELSE b.blackKing)
      /\ set(b, type, pos).whiteKing = (IF type = W_KING THEN pos ELSE b.whiteKing)
  BY DEF set, Boards, Positions
<1>2. \A s \in Squares :
        [b.positions EXCEPT ![pos] = type][s] = IF s = pos THEN type ELSE b.positions[s]
  BY BoardFields
<1> QED
  BY ONLY <1>1, <1>2 DEF IsSet

\* The moved piece keeps its colour, and becomes or stops being no king.
LEMMA NewTypeFacts ==
  ASSUME NEW b \in Boards, NEW m, MoveOK(b, m)
  PROVE  /\ newType(m) \in PieceTypes /\ isSameColor(newType(m), m.fromType)
         /\ newType(m) = B_KING <=> m.fromType = B_KING
         /\ newType(m) = W_KING <=> m.fromType = W_KING
         /\ m.special \in {NORMAL_MOVE, PAWN_EN_PASSANT} => newType(m) = m.fromType
<1>1. /\ m.fromType \in PieceTypes /\ m.special \in SpecialTypes
      /\ m.special # KING_CASTLING
      /\ m.special # NORMAL_MOVE => m.fromType \in Pawns
  BY DEF MoveOK, Moves
<1>2. CASE m.special \in {NORMAL_MOVE, PAWN_EN_PASSANT}
  <2>1. newType(m) = m.fromType
    BY <1>2, SpecialFacts DEF newType
  <2> QED
    BY <1>1, <2>1, TypeFacts DEF isSameColor
<1>3. CASE m.special = QUEEN_PROMOTION
  <2>1. newType(m) = getSameQueenType(m.fromType) /\ m.fromType \in Pawns
    BY <1>1, <1>3, SpecialFacts DEF newType
  <2> QED
    BY <1>3, <2>1, TypeFacts, SpecialFacts DEF isSameColor, getSameQueenType, isBlack, Pawns
<1>4. CASE m.special = KNIGHT_PROMOTION
  <2>1. newType(m) = getSameKnightType(m.fromType) /\ m.fromType \in Pawns
    BY <1>1, <1>4, SpecialFacts DEF newType
  <2> QED
    BY <1>4, <2>1, TypeFacts, SpecialFacts DEF isSameColor, getSameKnightType, isBlack, Pawns
<1> QED
  BY <1>1, <1>2, <1>3, <1>4, SpecialFacts

\* The square of a pawn taken en passant is neither of the squares of the move.
LEMMA TakenFacts ==
  ASSUME NEW b \in Boards, NEW m, MoveOK(b, m), m.special = PAWN_EN_PASSANT
  PROVE  /\ enPassantPos(m) \in Squares /\ enPassantPos(m) # m.from
         /\ enPassantPos(m) # m.to /\ b.positions[enPassantPos(m)] = enPassantPawn(m)
         /\ b.positions[m.to] = EMPTY /\ m.toType = EMPTY
         /\ m.fromType \in Pawns /\ enPassantPawn(m) \in Pawns
         /\ enPassantPawn(m) # m.fromType
<1>1. /\ m.fromType \in Pawns /\ m.toType = EMPTY /\ b.positions[m.to] = EMPTY
      /\ b.positions[m.from] = m.fromType
      /\ enPassantPos(m) \in Squares /\ b.positions[enPassantPos(m)] = enPassantPawn(m)
  BY SpecialFacts DEF MoveOK
<1>2. /\ enPassantPawn(m) \in Pawns /\ enPassantPawn(m) # m.fromType
      /\ enPassantPawn(m) # EMPTY
  BY <1>1, TypeFacts DEF enPassantPawn, Pawns
<1> QED
  BY <1>1, <1>2

\* What stands on square s after the move m on the board b.
TypeAfter(b, m, s) ==
  IF s = m.to THEN newType(m)
  ELSE IF s = m.from \/ (m.special = PAWN_EN_PASSANT /\ s = enPassantPos(m))
         THEN EMPTY ELSE b.positions[s]

\* What Move::apply does to the squares and to the cached kings.
LEMMA ApplyFacts ==
  ASSUME NEW b \in Boards, NEW m, MoveOK(b, m)
  PROVE  /\ apply(b, m) \in Boards
         /\ \A s \in Squares : apply(b, m).positions[s] = TypeAfter(b, m, s)
         /\ apply(b, m).blackKing = IF m.fromType = B_KING THEN m.to ELSE b.blackKing
         /\ apply(b, m).whiteKing = IF m.fromType = W_KING THEN m.to ELSE b.whiteKing
         /\ apply(b, m).lastMove = b.lastMove
<1>1. /\ m.from \in Squares /\ m.to \in Squares /\ m.special \in SpecialTypes
      /\ m.special # KING_CASTLING /\ EMPTY \in Types /\ newType(m) \in Types
      /\ EMPTY # B_KING /\ EMPTY # W_KING
  BY NewTypeFacts, TypeFacts DEF MoveOK, Moves
<1> DEFINE lifted == set(b, EMPTY, m.from)
<1>2. /\ lifted \in Boards /\ lifted.lastMove = b.lastMove
      /\ \A s \in Squares : lifted.positions[s] = IF s = m.from THEN EMPTY ELSE b.positions[s]
      /\ lifted.blackKing = b.blackKing /\ lifted.whiteKing = b.whiteKing
  <2>1. IsSet(b, EMPTY, m.from, lifted)
    BY <1>1, SetFacts
  <2> HIDE DEF lifted
  <2> QED
    BY <1>1, <2>1 DEF IsSet
<1> DEFINE cleared == IF m.special = PAWN_EN_PASSANT THEN setupEnPassant(lifted, m)
                                                     ELSE lifted
<1>3. apply(b, m) = set(cleared, newType(m), m.to)
  BY <1>1, SpecialFacts DEF apply
<1> HIDE DEF lifted
<1>4. /\ cleared \in Boards /\ cleared.lastMove = b.lastMove
      /\ \A s \in Squares : cleared.positions[s] =
           IF s = m.from \/ (m.special = PAWN_EN_PASSANT /\ s = enPassantPos(m))
             THEN EMPTY ELSE b.positions[s]
      /\ cleared.blackKing = b.blackKing /\ cleared.whiteKing = b.whiteKing
  <2>1. CASE m.special = PAWN_EN_PASSANT
    <3>1. enPassantPos(m) \in Squares
      BY <2>1, TakenFacts
    <3>2. cleared = set(lifted, EMPTY, enPassantPos(m))
      BY <2>1 DEF setupEnPassant
    <3>3. /\ cleared \in Boards /\ cleared.lastMove = lifted.lastMove
          /\ \A s \in Squares : cleared.positions[s] =
               IF s = enPassantPos(m) THEN EMPTY ELSE lifted.positions[s]
          /\ cleared.blackKing = lifted.blackKing /\ cleared.whiteKing = lifted.whiteKing
      <4>1. IsSet(lifted, EMPTY, enPassantPos(m), cleared)
        BY <1>1, <1>2, <3>1, <3>2, SetFacts
      <4> QED
        BY <1>1, <4>1 DEF IsSet
    <3> HIDE DEF cleared
    <3> QED
      BY <1>2, <2>1, <3>3
  <2>2. CASE m.special # PAWN_EN_PASSANT
    <3>1. cleared = lifted
      BY <2>2
    <3> QED
      BY <1>2, <2>2, <3>1
  <2> QED
    BY <2>1, <2>2
<1> HIDE DEF cleared
<1>5. IsSet(cleared, newType(m), m.to, apply(b, m))
  BY <1>1, <1>3, <1>4, SetFacts
<1>6. \A s \in Squares : apply(b, m).positions[s] = TypeAfter(b, m, s)
  BY <1>4, <1>5 DEF TypeAfter, IsSet
<1> QED
  BY <1>4, <1>5, <1>6, NewTypeFacts DEF IsSet

\* Board::makeMove is apply on a copy, with the move as its last move.
LEMMA MakeMoveFacts ==
  ASSUME NEW b \in Boards, NEW m, MoveOK(b, m)
  PROVE  /\ makeMove(b, m) \in Boards /\ makeMove(b, m).lastMove = m
         /\ makeMove(b, m).positions = apply(b, m).positions
         /\ makeMove(b, m).blackKing = apply(b, m).blackKing
         /\ makeMove(b, m).whiteKing = apply(b, m).whiteKing
         /\ \A s \in Squares : makeMove(b, m).positions[s] = TypeAfter(b, m, s)
<1>1. apply(b, m) \in Boards /\ m \in Moves
  BY ApplyFacts DEF MoveOK
<1>2. /\ makeMove(b, m) \in Boards /\ makeMove(b, m).lastMove = m
      /\ makeMove(b, m).positions = apply(b, m).positions
      /\ makeMove(b, m).blackKing = apply(b, m).blackKing
      /\ makeMove(b, m).whiteKing = apply(b, m).whiteKing
  BY <1>1 DEF makeMove, Boards
<1> QED
  BY <1>2, ApplyFacts

\* Move::undo inverts Move::apply, on the board itself and on the copy that
\* remembers the move.
LEMMA UndoInverts ==
  ASSUME NEW b \in Boards, KingsUnique(b), NEW m, MoveOK(b, m),
         NEW c \in Boards, c.positions = apply(b, m).positions,
         c.blackKing = apply(b, m).blackKing, c.whiteKing = apply(b, m).whiteKing
  PROVE  /\ undo(c, m) \in Boards /\ undo(c, m).lastMove = c.lastMove
         /\ \A s \in Squares : undo(c, m).positions[s] = b.positions[s]
         /\ undo(c, m).blackKing = b.blackKing /\ undo(c, m).whiteKing = b.whiteKing
<1>1. /\ m.from \in Squares /\ m.to \in Squares /\ m.to # m.from
      /\ m.fromType = b.positions[m.from] /\ m.toType = b.positions[m.to]
      /\ m.fromType \in Types /\ m.toType \in Types
      /\ m.special \in SpecialTypes /\ m.special # KING_CASTLING
  BY DEF MoveOK, Moves
<1>2. /\ \A s \in Squares : c.positions[s] = TypeAfter(b, m, s)
      /\ c.blackKing = IF m.fromType = B_KING THEN m.to ELSE b.blackKing
      /\ c.whiteKing = IF m.fromType = W_KING THEN m.to ELSE b.whiteKing
  BY ApplyFacts
<1> DEFINE put  == set(c, m.toType, m.to)
           back == set(put, m.fromType, m.from)
<1>3. IsSet(c, m.toType, m.to, put)
  BY <1>1, SetFacts
<1>4. IsSet(put, m.fromType, m.from, back)
  <2>1. put \in Boards
    BY <1>3 DEF IsSet
  <2> HIDE DEF put
  <2> QED
    BY <1>1, <2>1, SetFacts
<1>5. undo(c, m) = IF m.special = PAWN_EN_PASSANT THEN undoEnPassant(back, m) ELSE back
  BY <1>1, SpecialFacts DEF undo
<1> HIDE DEF put, back
<1>6. /\ back \in Boards /\ back.lastMove = c.lastMove
      /\ \A s \in Squares : back.positions[s] =
           IF m.special = PAWN_EN_PASSANT /\ s = enPassantPos(m) THEN EMPTY
                                                                 ELSE b.positions[s]
  <2>1. ASSUME NEW s \in Squares
        PROVE  back.positions[s] =
                 IF m.special = PAWN_EN_PASSANT /\ s = enPassantPos(m)
                   THEN EMPTY ELSE b.positions[s]
    <3>1. back.positions[s] = IF s = m.from THEN b.positions[s]
                              ELSE IF s = m.to THEN b.positions[s]
                              ELSE TypeAfter(b, m, s)
      BY <1>1, <1>2, <1>3, <1>4 DEF IsSet
    <3>2. m.special = PAWN_EN_PASSANT =>
            enPassantPos(m) # m.from /\ enPassantPos(m) # m.to
      BY TakenFacts
    <3> QED
      BY <3>1, <3>2 DEF TypeAfter
  <2> QED
    BY <1>3, <1>4, <2>1 DEF IsSet
<1>7. back.blackKing = b.blackKing
  <2>1. m.fromType = B_KING => m.from = b.blackKing
    BY <1>1 DEF KingsUnique
  <2>2. m.toType = B_KING => m.to = b.blackKing
    BY <1>1 DEF KingsUnique
  <2> QED
    BY <1>2, <1>3, <1>4, <2>1, <2>2 DEF IsSet
<1>8. back.whiteKing = b.whiteKing
  <2>1. m.fromType = W_KING => m.from = b.whiteKing
    BY <1>1 DEF KingsUnique
  <2>2. m.toType = W_KING => m.to = b.whiteKing
    BY <1>1 DEF KingsUnique
  <2> QED
    BY <1>2, <1>3, <1>4, <2>1, <2>2 DEF IsSet
<1>9. CASE m.special = PAWN_EN_PASSANT
  <2>1. /\ enPassantPos(m) \in Squares /\ enPassantPawn(m) \in Types
        /\ b.positions[enPassantPos(m)] = enPassantPawn(m)
        /\ enPassantPawn(m) # B_KING /\ enPassantPawn(m) # W_KING
    BY <1>9, TakenFacts, TypeFacts DEF Pawns
  <2>2. IsSet(back, enPassantPawn(m), enPassantPos(m), undo(c, m))
    BY <1>5, <1>6, <1>9, <2>1, SetFacts DEF undoEnPassant
  <2> QED
    BY <1>6, <1>7, <1>8, <1>9, <2>1, <2>2 DEF IsSet
<1>10. CASE m.special # PAWN_EN_PASSANT
  BY <1>5, <1>6, <1>7, <1>8, <1>10
<1> QED
  BY <1>9, <1>10

\* TryMove leaves the auxiliary board as it was.
LEMMA UndoApply ==
  ASSUME NEW b \in Boards, KingsUnique(b), NEW m, MoveOK(b, m)
  PROVE  undo(apply(b, m), m) = b
<1>1. apply(b, m) \in Boards /\ apply(b, m).lastMove = b.lastMove
  BY ApplyFacts
<1>2. /\ undo(apply(b, m), m) \in Boards
      /\ undo(apply(b, m), m).lastMove = apply(b, m).lastMove
      /\ \A s \in Squares : undo(apply(b, m), m).positions[s] = b.positions[s]
      /\ undo(apply(b, m), m).blackKing = b.blackKing
      /\ undo(apply(b, m), m).whiteKing = b.whiteKing
  BY <1>1, UndoInverts
<1> QED
  BY <1>1, <1>2, SameBoard

\* None of the CHECKs of Move::apply fails.
LEMMA ChecksPass ==
  ASSUME NEW b \in Boards, NEW m, MoveOK(b, m)
  PROVE  applyChecks(b, m)
<1>1. CASE m.special = PAWN_EN_PASSANT
  BY <1>1, TakenFacts, SpecialFacts DEF applyChecks, getPieceTypeAtPosition, Pawns
<1>2. CASE m.special # PAWN_EN_PASSANT
  BY <1>2, TypeFacts, SpecialFacts DEF applyChecks, MoveOK
<1> QED
  BY <1>1, <1>2

\* The kings stay where the board says, and a pawn that has moved by two squares
\* can be taken en passant.
LEMMA MoveKeepsBoard ==
  ASSUME NEW b, BoardOK(b), NEW m, MoveOK(b, m)
  PROVE  BoardOK(makeMove(b, m))
<1> DEFINE nb == makeMove(b, m)
<1>1. /\ b \in Boards /\ KingsUnique(b)
      /\ m.from \in Squares /\ m.to \in Squares /\ m.to # m.from
      /\ m.fromType = b.positions[m.from]
      /\ EMPTY # B_KING /\ EMPTY # W_KING /\ B_KING # W_KING
  BY TypeFacts DEF BoardOK, MoveOK
<1>2. /\ nb \in Boards /\ nb.lastMove = m
      /\ nb.blackKing = IF m.fromType = B_KING THEN m.to ELSE b.blackKing
      /\ nb.whiteKing = IF m.fromType = W_KING THEN m.to ELSE b.whiteKing
      /\ \A s \in Squares : nb.positions[s] = TypeAfter(b, m, s)
  BY <1>1, MakeMoveFacts, ApplyFacts
<1>3. /\ newType(m) = B_KING <=> m.fromType = B_KING
      /\ newType(m) = W_KING <=> m.fromType = W_KING
      /\ m.special = NORMAL_MOVE => newType(m) = m.fromType
  BY <1>1, NewTypeFacts
<1> HIDE DEF nb
<1>4. KingsUnique(nb)
  <2>1. ASSUME NEW s \in Squares, nb.positions[s] = B_KING
        PROVE  s = nb.blackKing
    <3>1. TypeAfter(b, m, s) = B_KING
      BY <1>2, <2>1
    <3>2. CASE s = m.to
      BY <1>2, <1>3, <3>1, <3>2 DEF TypeAfter
    <3>3. CASE s # m.to
      <4>1. s # m.from /\ b.positions[s] = B_KING
        BY <1>1, <3>1, <3>3 DEF TypeAfter
      <4> QED
        BY <1>1, <1>2, <4>1 DEF KingsUnique
    <3> QED
      BY <3>2, <3>3
  <2>2. ASSUME NEW s \in Squares, nb.positions[s] = W_KING
        PROVE  s = nb.whiteKing
    <3>1. TypeAfter(b, m, s) = W_KING
      BY <1>2, <2>2
    <3>2. CASE s = m.to
      BY <1>2, <1>3, <3>1, <3>2 DEF TypeAfter
    <3>3. CASE s # m.to
      <4>1. s # m.from /\ b.positions[s] = W_KING
        BY <1>1, <3>1, <3>3 DEF TypeAfter
      <4> QED
        BY <1>1, <1>2, <4>1 DEF KingsUnique
    <3> QED
      BY <3>2, <3>3
  <2> QED
    BY <2>1, <2>2 DEF KingsUnique
<1> DEFINE col == m.from[2]
<1>5. col \in 0 .. 7 /\ m.from = <<m.from[1], col>> /\ NORMAL_MOVE # PAWN_EN_PASSANT
  BY <1>1, SquareFacts, SpecialFacts
<1>6. \A i \in 0 .. 7 : <<i, col>> \in Squares
  BY <1>5, SquareIn
<1>7. ASSUME doubleStepped(m, W_PAWN, 1, 3)
      PROVE  /\ m.special = NORMAL_MOVE /\ m.toType = EMPTY
             /\ m.to = <<3, col>> /\ nb.positions[<<3, col>>] = W_PAWN
             /\ nb.positions[<<2, col>>] = EMPTY /\ nb.positions[<<1, col>>] = EMPTY
  <2>1. /\ m.special = NORMAL_MOVE /\ m.to = <<3, col>> /\ m.toType = EMPTY
        /\ b.positions[<<2, col>>] = EMPTY
        /\ m.fromType = W_PAWN /\ m.from = <<1, col>>
    BY <1>5, <1>7 DEF MoveOK, doubleStepped
  <2>2. <<3, col>> # <<2, col>> /\ <<1, col>> # <<2, col>> /\ <<3, col>> # <<1, col>>
    OBVIOUS
  <2>3. <<3, col>> \in Squares /\ <<2, col>> \in Squares /\ <<1, col>> \in Squares
    BY <1>6
  <2> HIDE DEF col
  <2> QED
    BY <1>2, <1>3, <1>5, <2>1, <2>2, <2>3 DEF TypeAfter
<1>8. ASSUME doubleStepped(m, B_PAWN, 6, 4)
      PROVE  /\ m.special = NORMAL_MOVE /\ m.toType = EMPTY
             /\ m.to = <<4, col>> /\ nb.positions[<<4, col>>] = B_PAWN
             /\ nb.positions[<<5, col>>] = EMPTY /\ nb.positions[<<6, col>>] = EMPTY
  <2>1. /\ m.special = NORMAL_MOVE /\ m.to = <<4, col>> /\ m.toType = EMPTY
        /\ b.positions[<<5, col>>] = EMPTY
        /\ m.fromType = B_PAWN /\ m.from = <<6, col>>
    BY <1>5, <1>8 DEF MoveOK, doubleStepped
  <2>2. <<4, col>> # <<5, col>> /\ <<6, col>> # <<5, col>> /\ <<4, col>> # <<6, col>>
    OBVIOUS
  <2>3. <<4, col>> \in Squares /\ <<5, col>> \in Squares /\ <<6, col>> \in Squares
    BY <1>6
  <2> HIDE DEF col
  <2> QED
    BY <1>2, <1>3, <1>5, <2>1, <2>2, <2>3 DEF TypeAfter
<1>9. EnPassantOK(nb)
  BY <1>1, <1>2, <1>7, <1>8 DEF EnPassantOK
<1>10. m.special # KING_CASTLING
  BY DEF MoveOK
<1> QED
  BY <1>2, <1>4, <1>9, <1>10 DEF BoardOK, nb

\* A board without a last move whose kings are where it says.
LEMMA FreshBoardOK ==
  ASSUME NEW b \in Boards, KingsUnique(b), b.lastMove = noMove
  PROVE  BoardOK(b)
<1>1. /\ noMove.fromType # W_PAWN /\ noMove.fromType # B_PAWN
      /\ noMove.special # KING_CASTLING
  BY TypeFacts, SpecialFacts DEF noMove
<1> QED
  BY <1>1 DEF BoardOK, EnPassantOK, doubleStepped

\* The kings of a board whose cache is right.
LEMMA CachedAreUnique ==
  ASSUME NEW b \in Boards, KingsCached(b)
  PROVE  /\ KingsUnique(b) /\ b.blackKing \in Squares /\ b.whiteKing \in Squares
         /\ b.positions[b.blackKing] = B_KING /\ b.positions[b.whiteKing] = W_KING
<1>1. \A s : s \in {q \in Squares : getPieceTypeAtPosition(b, q) = B_KING}
               <=> s = b.blackKing
  BY DEF KingsCached
<1>2. \A s : s \in {q \in Squares : getPieceTypeAtPosition(b, q) = W_KING}
               <=> s = b.whiteKing
  BY DEF KingsCached
<1> QED
  BY <1>1, <1>2 DEF KingsUnique, getPieceTypeAtPosition

----------------------------------------------------------------------------
\* What a move takes off the board: nothing of the mover's side, and of the other
\* side the piece on its target or the pawn passed.
LEMMA MoveTakes ==
  ASSUME NEW b \in Boards, NEW m, MoveOK(b, m), NEW black \in BOOLEAN,
         m.fromType \in SideTypes(black)
  PROVE  {s \in PiecesOf(b, ~black) : TypeAfter(b, m, s) # b.positions[s]}
           = IF m.special = PAWN_EN_PASSANT THEN {enPassantPos(m)}
             ELSE {s \in {m.to} : m.toType # EMPTY}
<1> DEFINE other == SideTypes(~black)
<1>1. /\ m.from \in Squares /\ m.to \in Squares /\ m.to # m.from
      /\ m.fromType = b.positions[m.from] /\ m.toType = b.positions[m.to]
      /\ ~isSameColor(m.fromType, m.toType) /\ m.fromType \in Types
      /\ m.toType \in Types
  BY DEF MoveOK, Moves
<1>2. PiecesOf(b, ~black) = {s \in Squares : b.positions[s] \in other}
  BY PiecesOfFacts
<1>3. /\ m.fromType \notin other /\ EMPTY \notin other
      /\ m.toType \in other <=> m.toType # EMPTY
  BY <1>1, TypeFacts, ColorFacts DEF SideTypes
<1>4. newType(m) \notin other
  <2>1. isSameColor(newType(m), m.fromType) /\ newType(m) \in Types
    BY NewTypeFacts, TypeFacts
  <2> QED
    BY <1>1, <2>1, TypeFacts, ColorFacts DEF SideTypes
<1>5. CASE m.special = PAWN_EN_PASSANT
  <2>1. /\ enPassantPos(m) \in Squares /\ enPassantPos(m) # m.from
        /\ enPassantPos(m) # m.to /\ b.positions[m.to] = EMPTY
        /\ b.positions[enPassantPos(m)] = enPassantPawn(m)
        /\ m.fromType \in Pawns /\ enPassantPawn(m) \in Pawns
        /\ enPassantPawn(m) # m.fromType
    BY <1>5, TakenFacts
  <2>2. enPassantPawn(m) \in other /\ enPassantPawn(m) # EMPTY
    BY <2>1, TypeFacts DEF SideTypes, Pawns
  <2> HIDE DEF other
  <2>3. ASSUME NEW s \in Squares
        PROVE  b.positions[s] \in other /\ TypeAfter(b, m, s) # b.positions[s]
                 <=> s = enPassantPos(m)
    BY <1>1, <1>3, <1>5, <2>1, <2>2 DEF TypeAfter
  <2> QED
    BY <1>2, <1>5, <2>1, <2>3
<1>6. CASE m.special # PAWN_EN_PASSANT
  <2> HIDE DEF other
  <2>1. ASSUME NEW s \in Squares
        PROVE  b.positions[s] \in other /\ TypeAfter(b, m, s) # b.positions[s]
                 <=> s = m.to /\ m.toType # EMPTY
    BY <1>1, <1>3, <1>4, <1>6 DEF TypeAfter
  <2> QED
    BY <1>1, <1>2, <1>6, <2>1
<1> QED
  BY <1>5, <1>6

----------------------------------------------------------------------------
(***************************************************************************)
(* Attacks.                                                                *)
(***************************************************************************)

\* The types that attack along lines, and the directions in which they do.
LineTypes == {W_ROOK, B_ROOK, W_BISHOP, B_BISHOP, W_QUEEN, B_QUEEN}

LineSteps(type) == {step \in KingSteps : canAttackLine(type, step)}

LineOpen(b, src, step, n) ==
  \A k \in 1 .. (n - 1) : b.positions[Along(src, step, k)] = EMPTY

\* The directions in which each type attacks along a line.
LEMMA LineStepFacts ==
  ASSUME NEW type
  PROVE  /\ type \in {W_ROOK, B_ROOK} => LineSteps(type) = Straight
         /\ type \in {W_BISHOP, B_BISHOP} => LineSteps(type) = Diagonal
         /\ type \in {W_QUEEN, B_QUEEN} => LineSteps(type) = Straight \cup Diagonal
         /\ type \notin LineTypes => LineSteps(type) = {}
<1>1. \A step \in Straight : step[1] * step[2] = 0
  BY DEF Straight
<1>2. \A step \in Diagonal : step[1] * step[2] \in {1, -1} /\ step[1] * step[2] # 0
  BY DEF Diagonal
<1>3. CASE type \in {W_ROOK, B_ROOK}
  <2>1. \A step : canAttackLine(type, step) <=> step[1] * step[2] = 0
    BY <1>3, TypeFacts DEF canAttackLine
  <2> QED
    BY <1>1, <1>2, <1>3, <2>1, TypeFacts DEF LineSteps, KingSteps, LineTypes
<1>4. CASE type \in {W_BISHOP, B_BISHOP}
  <2>1. \A step : canAttackLine(type, step) <=> step[1] * step[2] \in {1, -1}
    BY <1>4, TypeFacts DEF canAttackLine
  <2>2. 0 \notin {1, -1}
    OBVIOUS
  <2> QED
    BY <1>1, <1>2, <1>4, <2>1, <2>2, TypeFacts DEF LineSteps, KingSteps, LineTypes
<1>5. CASE type \in {W_QUEEN, B_QUEEN}
  <2>1. \A step : canAttackLine(type, step)
    BY <1>5, TypeFacts DEF canAttackLine
  <2> QED
    BY <1>5, <2>1, TypeFacts DEF LineSteps, KingSteps, LineTypes
<1>6. CASE type \notin LineTypes
  <2>1. \A step : ~canAttackLine(type, step)
    BY <1>6 DEF canAttackLine, LineTypes
  <2> QED
    BY <1>6, <2>1 DEF LineSteps, LineTypes
<1> QED
  BY <1>3, <1>4, <1>5, <1>6 DEF LineTypes

\* Moving n steps in the direction step.
LEMMA UnitTimes ==
  ASSUME NEW n \in Int, NEW x \in {-1, 0, 1}
  PROVE  n * x = IF x = 0 THEN 0 ELSE IF x = 1 THEN n ELSE 0 - n
<1>1. CASE x = 0
  BY <1>1
<1>2. CASE x = 1
  BY <1>2
<1>3. CASE x = -1
  BY <1>3
<1> QED
  BY <1>1, <1>2, <1>3

Moved(a, x, n) == IF x = 0 THEN a ELSE IF x = 1 THEN a + n ELSE a - n

\* A walk in one of the eight directions, coordinate by coordinate.
LEMMA AlongMoves ==
  ASSUME NEW src \in Squares, NEW step \in KingSteps, NEW n \in Int
  PROVE  /\ step[1] \in {-1, 0, 1} /\ step[2] \in {-1, 0, 1}
         /\ step = <<step[1], step[2]>> /\ (step[1] # 0 \/ step[2] # 0)
         /\ Along(src, step, n) = <<Moved(src[1], step[1], n), Moved(src[2], step[2], n)>>
         /\ Moved(src[1], step[1], n) \in Int /\ Moved(src[2], step[2], n) \in Int
<1>1. /\ step[1] \in {-1, 0, 1} /\ step[2] \in {-1, 0, 1}
      /\ step = <<step[1], step[2]>> /\ (step[1] # 0 \/ step[2] # 0)
  BY DEF KingSteps, Straight, Diagonal
<1>2. src[1] \in Int /\ src[2] \in Int
  BY SquareFacts
<1>3. ASSUME NEW a \in Int, NEW x \in {-1, 0, 1}
      PROVE  a + n * x = Moved(a, x, n) /\ Moved(a, x, n) \in Int
  <2>1. n * x = IF x = 0 THEN 0 ELSE IF x = 1 THEN n ELSE 0 - n
    BY UnitTimes
  <2> DEFINE y == n * x
  <2> HIDE DEF y
  <2>2. y = IF x = 0 THEN 0 ELSE IF x = 1 THEN n ELSE 0 - n
    BY <2>1 DEF y
  <2>3. a + y = Moved(a, x, n) /\ Moved(a, x, n) \in Int
    BY <2>2 DEF Moved
  <2> QED
    BY <2>3 DEF y
<1> QED
  BY <1>1, <1>2, <1>3 DEF Along

\* checkCanAttackLine finds a square only in the direction in which it lies.
LEMMA StraightLine ==
  ASSUME NEW b, NEW src \in Squares, NEW tgt \in Squares
  PROVE  RookAttack(b, src, tgt)
           <=> \E step \in Straight : checkCanAttackLine(b, src, tgt, step)
<1> DEFINE dr == tgt[1] - src[1]
           dc == tgt[2] - src[2]
<1>1. /\ src[1] \in 0 .. 7 /\ src[2] \in 0 .. 7
      /\ tgt[1] \in 0 .. 7 /\ tgt[2] \in 0 .. 7
  BY SquareFacts
<1>2. ASSUME NEW step \in Straight, checkCanAttackLine(b, src, tgt, step)
      PROVE  \/ dr = 0 /\ step = <<0, Sign(dc)>>
             \/ dr # 0 /\ dc = 0 /\ step = <<Sign(dr), 0>>
  <2>1. PICK n \in 1 .. 7 : Along(src, step, n) = tgt
    BY <1>2 DEF checkCanAttackLine, BOARD_SIZE
  <2>2. /\ step[1] \in {-1, 0, 1} /\ step[2] \in {-1, 0, 1} /\ n \in 1 .. 7
        /\ tgt[1] = Moved(src[1], step[1], n) /\ tgt[2] = Moved(src[2], step[2], n)
    BY <2>1, AlongMoves DEF KingSteps
  <2>3. CASE step = <<0, 1>>
    BY <1>1, <2>2, <2>3 DEF Sign, Moved
  <2>4. CASE step = <<0, -1>>
    BY <1>1, <2>2, <2>4 DEF Sign, Moved
  <2>5. CASE step = <<1, 0>>
    BY <1>1, <2>2, <2>5 DEF Sign, Moved
  <2>6. CASE step = <<-1, 0>>
    BY <1>1, <2>2, <2>6 DEF Sign, Moved
  <2> QED
    BY <2>3, <2>4, <2>5, <2>6 DEF Straight
<1>3. <<0, Sign(dc)>> \in Straight /\ <<Sign(dr), 0>> \in Straight
  BY DEF Straight, Sign
<1>4. RookAttack(b, src, tgt) <=>
        \/ dr = 0 /\ checkCanAttackLine(b, src, tgt, <<0, Sign(dc)>>)
        \/ dr # 0 /\ dc = 0 /\ checkCanAttackLine(b, src, tgt, <<Sign(dr), 0>>)
  BY DEF RookAttack
<1> HIDE DEF dr, dc
<1> QED
  BY <1>2, <1>3, <1>4

\* BishopAttack looks along the one diagonal through both squares.
LEMMA DiagonalLine ==
  ASSUME NEW b, NEW src \in Squares, NEW tgt \in Squares
  PROVE  BishopAttack(b, src, tgt)
           <=> \E step \in Diagonal : checkCanAttackLine(b, src, tgt, step)
<1> DEFINE dr == tgt[1] - src[1]
           dc == tgt[2] - src[2]
<1>1. /\ src[1] \in 0 .. 7 /\ src[2] \in 0 .. 7
      /\ tgt[1] \in 0 .. 7 /\ tgt[2] \in 0 .. 7
  BY SquareFacts
<1>2. ASSUME NEW step \in Diagonal, checkCanAttackLine(b, src, tgt, step)
      PROVE  \/ dr = dc /\ step = <<Sign(dr), Sign(dr)>>
             \/ dr # dc /\ dr + dc = 0 /\ step = <<Sign(dr), -Sign(dr)>>
  <2>1. PICK n \in 1 .. 7 : Along(src, step, n) = tgt
    BY <1>2 DEF checkCanAttackLine, BOARD_SIZE
  <2>2. /\ step[1] \in {-1, 0, 1} /\ step[2] \in {-1, 0, 1} /\ n \in 1 .. 7
        /\ tgt[1] = Moved(src[1], step[1], n) /\ tgt[2] = Moved(src[2], step[2], n)
    BY <2>1, AlongMoves DEF KingSteps
  <2>3. CASE step = <<1, 1>>
    BY <1>1, <2>2, <2>3 DEF Sign, Moved
  <2>4. CASE step = <<1, -1>>
    BY <1>1, <2>2, <2>4 DEF Sign, Moved
  <2>5. CASE step = <<-1, 1>>
    <3>1. dr < 0 /\ dr # dc /\ dr + dc = 0
      BY <1>1, <2>2, <2>5 DEF Moved
    <3>2. Sign(dr) = -1
      BY <1>1, <3>1 DEF Sign
    <3> DEFINE u == Sign(dr)
    <3> HIDE DEF dr, dc, u
    <3>3. u = -1
      BY <3>2 DEF u
    <3>8. u \in Int
      BY <3>3
    <3>4. -u = 0 - u
      BY ONLY <3>8
    <3>5. 0 - u = 1
      BY ONLY <3>3
    <3>6. -u = 1
      BY ONLY <3>4, <3>5
    <3>7. step = <<u, -u>>
      BY ONLY <2>5, <3>3, <3>6
    <3> QED
      BY ONLY <3>1, <3>7 DEF u
  <2>6. CASE step = <<-1, -1>>
    BY <1>1, <2>2, <2>6 DEF Sign, Moved
  <2> QED
    BY <2>3, <2>4, <2>5, <2>6 DEF Diagonal
<1>3. <<Sign(dr), Sign(dr)>> \in Diagonal /\ <<Sign(dr), -Sign(dr)>> \in Diagonal
  <2>1. Sign(dr) = 1 \/ Sign(dr) = -1
    BY DEF Sign
  <2> HIDE DEF dr
  <2> QED
    BY <2>1 DEF Diagonal
<1>4. BishopAttack(b, src, tgt) <=>
        \/ dr = dc /\ checkCanAttackLine(b, src, tgt, <<Sign(dr), Sign(dr)>>)
        \/ dr # dc /\ dr + dc = 0
             /\ checkCanAttackLine(b, src, tgt, <<Sign(dr), -Sign(dr)>>)
  BY DEF BishopAttack
<1> HIDE DEF dr, dc
<1> QED
  BY <1>2, <1>3, <1>4

\* Rook, bishop and queen attack along an open line in one of their directions.
LEMMA LineAttack ==
  ASSUME NEW b, NEW type \in LineTypes, NEW src \in Squares, NEW tgt \in Squares
  PROVE  canAttack(b, type, src, tgt) <=>
           \E step \in LineSteps(type), n \in 1 .. 7 :
              Along(src, step, n) = tgt /\ LineOpen(b, src, step, n)
<1>1. isValidPosition(tgt)
  BY SquareFacts
<1>2. \A step : checkCanAttackLine(b, src, tgt, step) <=>
        \E n \in 1 .. 7 : Along(src, step, n) = tgt /\ LineOpen(b, src, step, n)
  BY <1>1 DEF checkCanAttackLine, ClearTo, LineOpen, isEmpty, getPieceTypeAtPosition,
              BOARD_SIZE
<1>3. CASE type \in {W_ROOK, B_ROOK}
  <2>1. canAttack(b, type, src, tgt) = RookAttack(b, src, tgt)
    BY <1>3, TypeFacts DEF canAttack
  <2>2. RookAttack(b, src, tgt)
          <=> \E step \in LineSteps(type) : checkCanAttackLine(b, src, tgt, step)
    BY <1>3, StraightLine, LineStepFacts
  <2> QED
    BY <1>2, <2>1, <2>2
<1>4. CASE type \in {W_BISHOP, B_BISHOP}
  <2>1. canAttack(b, type, src, tgt) = BishopAttack(b, src, tgt)
    BY <1>4, TypeFacts DEF canAttack
  <2>2. BishopAttack(b, src, tgt)
          <=> \E step \in LineSteps(type) : checkCanAttackLine(b, src, tgt, step)
    BY <1>4, DiagonalLine, LineStepFacts
  <2> QED
    BY <1>2, <2>1, <2>2
<1>5. CASE type \in {W_QUEEN, B_QUEEN}
  <2>1. canAttack(b, type, src, tgt) = QueenAttack(b, src, tgt)
    BY <1>5, TypeFacts DEF canAttack
  <2>2. ASSUME NEW step \in Straight, checkCanAttackLine(b, src, tgt, step)
        PROVE  tgt[1] = src[1] \/ tgt[2] = src[2]
    <3>1. PICK n \in 1 .. 7 : Along(src, step, n) = tgt
      BY <1>2, <2>2
    <3>2. tgt[1] = Moved(src[1], step[1], n) /\ tgt[2] = Moved(src[2], step[2], n)
      BY <3>1, AlongMoves DEF KingSteps
    <3>3. step[1] = 0 \/ step[2] = 0
      BY DEF Straight
    <3> QED
      BY <3>2, <3>3 DEF Moved
  <2>3. ASSUME NEW step \in Diagonal, checkCanAttackLine(b, src, tgt, step)
        PROVE  tgt[1] # src[1] /\ tgt[2] # src[2]
    <3>1. PICK n \in 1 .. 7 : Along(src, step, n) = tgt
      BY <1>2, <2>3
    <3>2. tgt[1] = Moved(src[1], step[1], n) /\ tgt[2] = Moved(src[2], step[2], n)
      BY <3>1, AlongMoves DEF KingSteps
    <3>3. step[1] # 0 /\ step[2] # 0
      BY DEF Diagonal
    <3>4. src[1] \in 0 .. 7 /\ src[2] \in 0 .. 7 /\ n \in 1 .. 7
      BY SquareFacts
    <3> QED
      BY <3>2, <3>3, <3>4 DEF Moved
  <2>4. QueenAttack(b, src, tgt)
          <=> \E step \in LineSteps(type) : checkCanAttackLine(b, src, tgt, step)
    <3>1. LineSteps(type) = Straight \cup Diagonal
      BY <1>5, LineStepFacts
    <3>2. CASE tgt[1] = src[1] \/ tgt[2] = src[2]
      <4>1. QueenAttack(b, src, tgt) = RookAttack(b, src, tgt)
        BY <3>2 DEF QueenAttack
      <4> QED
        BY <2>3, <3>1, <3>2, <4>1, StraightLine
    <3>3. CASE ~(tgt[1] = src[1] \/ tgt[2] = src[2])
      <4>1. QueenAttack(b, src, tgt) = BishopAttack(b, src, tgt)
        BY <3>3 DEF QueenAttack
      <4> QED
        BY <2>2, <3>1, <3>3, <4>1, DiagonalLine
    <3> QED
      BY <3>2, <3>3
  <2> QED
    BY <1>2, <2>1, <2>4
<1> QED
  BY <1>3, <1>4, <1>5 DEF LineTypes

\* Pieces that do not attack along lines attack whatever else is on the board.
LEMMA StepAttack ==
  ASSUME NEW b, NEW type \in PieceTypes \ LineTypes, NEW src, NEW tgt
  PROVE  /\ type \in {W_KNIGHT, B_KNIGHT} =>
              canAttack(b, type, src, tgt) = KnightAttack(src, tgt)
         /\ type \in {W_KING, B_KING} =>
              canAttack(b, type, src, tgt) = KingAttack(src, tgt)
         /\ type = W_PAWN => canAttack(b, type, src, tgt) = WPawnAttack(src, tgt)
         /\ type = B_PAWN => canAttack(b, type, src, tgt) = BPawnAttack(src, tgt)
         /\ \A c : canAttack(b, type, src, tgt) <=> canAttack(c, type, src, tgt)
<1>1. ASSUME NEW c
      PROVE  /\ type \in {W_KNIGHT, B_KNIGHT} =>
                  canAttack(c, type, src, tgt) = KnightAttack(src, tgt)
             /\ type \in {W_KING, B_KING} =>
                  canAttack(c, type, src, tgt) = KingAttack(src, tgt)
             /\ type = W_PAWN => canAttack(c, type, src, tgt) = WPawnAttack(src, tgt)
             /\ type = B_PAWN => canAttack(c, type, src, tgt) = BPawnAttack(src, tgt)
  BY TypeFacts DEF canAttack, LineTypes
<1>2. \/ type \in {W_KNIGHT, B_KNIGHT} \/ type \in {W_KING, B_KING}
      \/ type = W_PAWN \/ type = B_PAWN
  BY TypeFacts DEF LineTypes
<1> QED
  BY <1>1, <1>2

\* The squares between two squares of a line are squares.
LEMMA LineSquares ==
  ASSUME NEW src \in Squares, NEW step \in KingSteps, NEW n \in 1 .. 7,
         Along(src, step, n) \in Squares, NEW k \in 0 .. n
  PROVE  Along(src, step, k) \in Squares
<1>1. /\ src[1] \in 0 .. 7 /\ src[2] \in 0 .. 7 /\ n \in Int /\ k \in Int /\ n >= k /\ k >= 0
  BY SquareFacts
<1>2. /\ Along(src, step, n) = <<Moved(src[1], step[1], n), Moved(src[2], step[2], n)>>
      /\ Along(src, step, k) = <<Moved(src[1], step[1], k), Moved(src[2], step[2], k)>>
      /\ step[1] \in {-1, 0, 1} /\ step[2] \in {-1, 0, 1}
  BY <1>1, AlongMoves
<1>3. Moved(src[1], step[1], n) \in 0 .. 7 /\ Moved(src[2], step[2], n) \in 0 .. 7
  <2>1. Along(src, step, n)[1] \in 0 .. 7 /\ Along(src, step, n)[2] \in 0 .. 7
    BY SquareFacts
  <2> QED
    BY <1>2, <2>1
<1>4. Moved(src[1], step[1], k) \in 0 .. 7
  BY <1>1, <1>2, <1>3 DEF Moved
<1>5. Moved(src[2], step[2], k) \in 0 .. 7
  BY <1>1, <1>2, <1>3 DEF Moved
<1> QED
  BY ONLY <1>2, <1>4, <1>5, SquareIn

\* Attacks depend on which squares are empty only.
LEMMA AttackDepends ==
  ASSUME NEW b, NEW c,
         \A s \in Squares : b.positions[s] = EMPTY <=> c.positions[s] = EMPTY,
         NEW type \in PieceTypes, NEW src \in Squares, NEW tgt \in Squares
  PROVE  canAttack(b, type, src, tgt) <=> canAttack(c, type, src, tgt)
<1>1. CASE type \in LineTypes
  <2>1. ASSUME NEW step \in LineSteps(type), NEW n \in 1 .. 7, Along(src, step, n) = tgt
        PROVE  LineOpen(b, src, step, n) <=> LineOpen(c, src, step, n)
    <3>1. ASSUME NEW k \in 1 .. (n - 1)
          PROVE  Along(src, step, k) \in Squares
      <4>1. k \in 0 .. n /\ step \in KingSteps /\ Along(src, step, n) \in Squares
        BY <2>1 DEF LineSteps
      <4> QED
        BY <4>1, LineSquares
    <3> QED
      BY <3>1 DEF LineOpen
  <2> QED
    BY <1>1, <2>1, LineAttack
<1>2. CASE type \notin LineTypes
  BY <1>2, StepAttack
<1> QED
  BY <1>1, <1>2

----------------------------------------------------------------------------
\* One step from a square to another.
LEMMA StepReach ==
  ASSUME NEW src \in Squares, NEW tgt \in Squares, NEW steps \in SUBSET Steps
  PROVE  (\E step \in steps : Along(src, step, 1) = tgt)
           <=> <<tgt[1] - src[1], tgt[2] - src[2]>> \in steps
<1> DEFINE dr == tgt[1] - src[1]
           dc == tgt[2] - src[2]
<1>1. /\ src[1] \in 0 .. 7 /\ src[2] \in 0 .. 7
      /\ tgt[1] \in 0 .. 7 /\ tgt[2] \in 0 .. 7 /\ tgt = <<tgt[1], tgt[2]>>
  BY SquareFacts
<1>2. ASSUME NEW step \in Steps
      PROVE  Along(src, step, 1) = tgt <=> step = <<dr, dc>>
  <2>1. step[1] \in Int /\ step[2] \in Int /\ step = <<step[1], step[2]>>
    BY DEF Steps, KingSteps, KnightSteps, Straight, Diagonal
  <2>2. Along(src, step, 1) = <<src[1] + step[1], src[2] + step[2]>>
    BY <1>1, <2>1 DEF Along
  <2>3. /\ src[1] + step[1] = tgt[1] <=> step[1] = dr
        /\ src[2] + step[2] = tgt[2] <=> step[2] = dc
    BY <1>1, <2>1
  <2> HIDE DEF dr, dc
  <2> QED
    BY <1>1, <2>1, <2>2, <2>3
<1> HIDE DEF dr, dc
<1>3. (\E step \in steps : Along(src, step, 1) = tgt) <=> <<dr, dc>> \in steps
  BY <1>2
<1> QED
  BY <1>3 DEF dr, dc

\* The product test of Knight::canAttack is a knight's step.
LEMMA KnightReach ==
  ASSUME NEW src \in Squares, NEW tgt \in Squares
  PROVE  KnightAttack(src, tgt) <=> \E step \in KnightSteps : Along(src, step, 1) = tgt
<1> DEFINE dr == tgt[1] - src[1]
           dc == tgt[2] - src[2]
<1>1. dr \in -7 .. 7 /\ dc \in -7 .. 7
  <2>1. src[1] \in 0 .. 7 /\ src[2] \in 0 .. 7 /\ tgt[1] \in 0 .. 7 /\ tgt[2] \in 0 .. 7
    BY SquareFacts
  <2> QED
    BY <2>1
<1>2. KnightAttack(src, tgt) <=> dr * dc \in {2, -2}
  BY DEF KnightAttack
<1>3. (\E step \in KnightSteps : Along(src, step, 1) = tgt) <=> <<dr, dc>> \in KnightSteps
  BY StepReach, PieceStepFacts
<1> HIDE DEF dr, dc
<1>4. ASSUME dr * dc \in {2, -2}
      PROVE  <<dr, dc>> \in KnightSteps
  <2>1. dr \in {-2, -1, 1, 2}
    <3>1. dr \in Int /\ dc \in Int /\ dr # 0 /\ dc # 0
      BY <1>1, <1>4
    <3>2. dr \notin 3 .. 7
      BY <1>4, <3>1
    <3>3. dr \notin -7 .. -3
      BY <1>4, <3>1
    <3> QED
      BY <1>1, <3>1, <3>2, <3>3
  <2>2. CASE dr = 1
    <3>1. dc = 2 \/ dc = -2
      BY <1>1, <1>4, <2>2
    <3> QED
      BY <2>2, <3>1 DEF KnightSteps
  <2>3. CASE dr = -1
    <3>1. dc = 2 \/ dc = -2
      BY <1>1, <1>4, <2>3
    <3> QED
      BY <2>3, <3>1 DEF KnightSteps
  <2>4. CASE dr = 2
    <3>1. dc = 1 \/ dc = -1
      BY <1>1, <1>4, <2>4
    <3> QED
      BY <2>4, <3>1 DEF KnightSteps
  <2>5. CASE dr = -2
    <3>1. dc = 1 \/ dc = -1
      BY <1>1, <1>4, <2>5
    <3> QED
      BY <2>5, <3>1 DEF KnightSteps
  <2> QED
    BY <2>1, <2>2, <2>3, <2>4, <2>5
<1>5. ASSUME <<dr, dc>> \in KnightSteps
      PROVE  dr * dc \in {2, -2}
  <2>1. \A step \in KnightSteps : step[1] * step[2] \in {2, -2}
    BY DEF KnightSteps
  <2> QED
    BY <1>5, <2>1
<1> QED
  BY <1>2, <1>3, <1>4, <1>5

\* King::canAttack is a king's step.
LEMMA KingReach ==
  ASSUME NEW src \in Squares, NEW tgt \in Squares
  PROVE  KingAttack(src, tgt) <=> \E step \in KingSteps : Along(src, step, 1) = tgt
<1> DEFINE dr == tgt[1] - src[1]
           dc == tgt[2] - src[2]
<1>1. dr \in Int /\ dc \in Int /\ (tgt = src <=> dr = 0 /\ dc = 0)
  <2>1. /\ src[1] \in 0 .. 7 /\ src[2] \in 0 .. 7 /\ src = <<src[1], src[2]>>
        /\ tgt[1] \in 0 .. 7 /\ tgt[2] \in 0 .. 7 /\ tgt = <<tgt[1], tgt[2]>>
    BY SquareFacts
  <2>2. tgt[1] = src[1] /\ tgt[2] = src[2] <=> dr = 0 /\ dc = 0
    BY <2>1
  <2>3. dr \in Int /\ dc \in Int
    BY <2>1
  <2> HIDE DEF dr, dc
  <2> QED
    BY <2>1, <2>2, <2>3
<1>2. KingAttack(src, tgt) <=> tgt # src /\ dr \in -1 .. 1 /\ dc \in -1 .. 1
  BY DEF KingAttack
<1>3. (\E step \in KingSteps : Along(src, step, 1) = tgt) <=> <<dr, dc>> \in KingSteps
  BY StepReach, PieceStepFacts
<1> HIDE DEF dr, dc
<1>4. ASSUME tgt # src, dr \in -1 .. 1, dc \in -1 .. 1
      PROVE  <<dr, dc>> \in KingSteps
  <2>1. dr = -1 \/ dr = 0 \/ dr = 1
    BY <1>4
  <2>2. dc = -1 \/ dc = 0 \/ dc = 1
    BY <1>4
  <2> QED
    BY <1>1, <1>4, <2>1, <2>2 DEF KingSteps, Straight, Diagonal
<1>5. ASSUME <<dr, dc>> \in KingSteps
      PROVE  tgt # src /\ dr \in -1 .. 1 /\ dc \in -1 .. 1
  <2>1. \A step \in KingSteps : /\ step[1] \in -1 .. 1 /\ step[2] \in -1 .. 1
                                /\ step[1] # 0 \/ step[2] # 0
    BY DEF KingSteps, Straight, Diagonal
  <2> QED
    BY <1>1, <1>5, <2>1
<1> QED
  BY <1>2, <1>3, <1>4, <1>5

\* The targets of normal moves.
LEMMA NormalMovesTo ==
  ASSUME NEW b, NEW src, NEW targets, NEW t
  PROVE  (\E m \in NormalMoves(b, src, targets) : m.to = t) <=> t \in targets
<1>1. \A tgt : newMove(b, NORMAL_MOVE, src, tgt).to = tgt
  BY DEF newMove
<1> QED
  BY <1>1 DEF NormalMoves

\* The targets that pieces with lines and with steps collect.
LEMMA LineTargetsFacts ==
  ASSUME NEW b, NEW src, NEW steps, NEW t \in Squares, canPlace(b, b.positions[src], t)
  PROVE  /\ t \in LineTargets(b, src, steps) <=>
              \E step \in steps, n \in 1 .. 7 :
                 Along(src, step, n) = t /\ LineOpen(b, src, step, n)
         /\ t \in StepTargets(b, src, steps) <=> \E step \in steps : Along(src, step, 1) = t
<1>1. isValidPosition(t)
  BY SquareFacts
<1>2. ASSUME NEW step, NEW n, Along(src, step, n) = t
      PROVE  ClearTo(b, src, step, n) <=> LineOpen(b, src, step, n)
  BY <1>1, <1>2 DEF ClearTo, LineOpen, isEmpty, getPieceTypeAtPosition
<1>3. ASSUME t \in LineTargets(b, src, steps)
      PROVE  \E step \in steps, n \in 1 .. 7 :
                Along(src, step, n) = t /\ LineOpen(b, src, step, n)
  <2>1. PICK sn \in steps \X (1 .. 7) :
          t = Along(src, sn[1], sn[2]) /\ ClearTo(b, src, sn[1], sn[2])
    BY <1>3 DEF LineTargets, BOARD_SIZE
  <2>2. sn[1] \in steps /\ sn[2] \in 1 .. 7
    OBVIOUS
  <2> QED
    BY <1>2, <2>1, <2>2
<1>4. ASSUME NEW step \in steps, NEW n \in 1 .. 7,
             Along(src, step, n) = t, LineOpen(b, src, step, n)
      PROVE  t \in LineTargets(b, src, steps)
  <2> DEFINE sn == <<step, n>>
  <2>1. sn \in steps \X (1 .. (8 - 1)) /\ sn[1] = step /\ sn[2] = n
    OBVIOUS
  <2>2. ClearTo(b, src, sn[1], sn[2]) /\ t = Along(src, sn[1], sn[2])
    BY <1>2, <1>4, <2>1
  <2> HIDE DEF sn
  <2> QED
    BY <2>1, <2>2 DEF LineTargets, BOARD_SIZE, getPieceTypeAtPosition
<1>5. t \in StepTargets(b, src, steps) <=> \E step \in steps : Along(src, step, 1) = t
  BY DEF StepTargets, getPieceTypeAtPosition
<1> QED
  BY <1>3, <1>4, <1>5

\* The squares that a pawn attacks.
LEMMA PawnReach ==
  ASSUME NEW b \in Boards, NEW src \in Squares, NEW t \in Squares,
         canPlace(b, b.positions[src], t), b.positions[t] # EMPTY,
         NEW dir \in {1, -1}, NEW home, NEW lastRow, NEW epRow, NEW other, NEW otherHome
  PROVE  t[1] = src[1] + dir /\ src[2] - t[2] \in {1, -1} <=>
           \E m \in PawnMoves(b, src, dir, home, lastRow, epRow, other, otherHome) : m.to = t
<1> DEFINE one   == <<src[1] + dir, src[2]>>
           two   == <<src[1] + 2 * dir, src[2]>>
           sides == {<<src[1] + dir, src[2] - 1>>, <<src[1] + dir, src[2] + 1>>}
           kinds == IF src[1] + dir # lastRow THEN {NORMAL_MOVE}
                                              ELSE {QUEEN_PROMOTION, KNIGHT_PROMOTION}
<1>1. /\ src[1] \in 0 .. 7 /\ src[2] \in 0 .. 7
      /\ t[1] \in 0 .. 7 /\ t[2] \in 0 .. 7 /\ t = <<t[1], t[2]>>
  BY SquareFacts
<1>2. t \in sides <=> t[1] = src[1] + dir /\ src[2] - t[2] \in {1, -1}
  <2>1. src[2] - t[2] \in {1, -1} <=> t[2] = src[2] - 1 \/ t[2] = src[2] + 1
    BY <1>1
  <2> QED
    BY <1>1, <2>1
<1>3. \A sp, q : newMove(b, sp, src, q).to = q
  BY DEF newMove
<1>4. ASSUME NEW m, m.to = t,
             PawnMove(b, src, dir, home, lastRow, epRow, other, otherHome, m)
      PROVE  t \in sides
  <2>1. CASE /\ b.positions[one] = EMPTY
             /\ \E sp \in kinds : m = newMove(b, sp, src, one)
    BY <1>3, <1>4, <2>1
  <2>2. CASE b.positions[two] = EMPTY /\ m = newMove(b, NORMAL_MOVE, src, two)
    BY <1>3, <1>4, <2>2
  <2>3. CASE \E q \in sides : \E sp : m = newMove(b, sp, src, q)
    BY <1>3, <1>4, <2>3
  <2> HIDE DEF one, two, sides, kinds
  <2> QED
    BY <1>4, <2>1, <2>2, <2>3 DEF PawnMove, one, two, sides, kinds
<1>5. ASSUME t \in sides
      PROVE  \E m : m.to = t
                    /\ PawnMove(b, src, dir, home, lastRow, epRow, other, otherHome, m)
  <2>1. PICK sp \in kinds : TRUE
    OBVIOUS
  <2> DEFINE m == newMove(b, sp, src, t)
  <2>2. PawnMove(b, src, dir, home, lastRow, epRow, other, otherHome, m)
    <3>1. \E q \in sides : /\ canPlace(b, b.positions[src], q) /\ b.positions[q] # EMPTY
                           /\ \E u \in kinds : m = newMove(b, u, src, q)
      BY <1>5
    <3> QED
      BY <3>1 DEF PawnMove
  <2>3. m.to = t
    BY <1>3
  <2> QED
    BY <2>2, <2>3
<1> QED
  BY <1>2, <1>4, <1>5, PawnMoveKinds

\* canAttack and getMoves of every piece class agree: a piece attacks an enemy-held
\* square exactly when it has a move that takes there.
LEMMA AttackIsCapture ==
  ASSUME NEW b \in Boards, NEW black \in BOOLEAN, NEW s \in PiecesOf(b, black),
         NEW t \in PiecesOf(b, ~black)
  PROVE  canAttack(b, b.positions[s], s, t) <=> \E m \in getMoves(b, s) : m.to = t
<1> DEFINE type == b.positions[s]
<1>1. /\ s \in Squares /\ t \in Squares /\ type \in SideTypes(black)
      /\ b.positions[t] \in SideTypes(~black)
  BY PiecesOfFacts
<1>2. type \in PieceTypes /\ b.positions[t] # EMPTY /\ ~isSameColor(type, b.positions[t])
  BY <1>1, TypeFacts, ColorFacts DEF SideTypes
<1>3. canPlace(b, type, t)
  BY <1>1, <1>2, SquareFacts DEF canPlace, getPieceTypeAtPosition
<1> HIDE DEF type
<1>4. b.positions[s] = type
  BY DEF type
<1>5. CASE type \in LineTypes
  <2>1. getMoves(b, s) = NormalMoves(b, s, LineTargets(b, s, LineSteps(type)))
    BY <1>1, <1>2, <1>4, <1>5, GetMovesFacts, LineStepFacts DEF LineTypes
  <2>2. (\E m \in getMoves(b, s) : m.to = t) <=> t \in LineTargets(b, s, LineSteps(type))
    BY <2>1, NormalMovesTo
  <2>3. t \in LineTargets(b, s, LineSteps(type)) <=> canAttack(b, type, s, t)
    BY <1>1, <1>3, <1>4, <1>5, LineTargetsFacts, LineAttack
  <2> QED
    BY <1>4, <2>2, <2>3
<1>6. CASE type \in {W_KNIGHT, B_KNIGHT}
  <2>1. getMoves(b, s) = NormalMoves(b, s, StepTargets(b, s, KnightSteps))
    BY <1>1, <1>2, <1>4, <1>6, GetMovesFacts
  <2>2. (\E m \in getMoves(b, s) : m.to = t) <=> t \in StepTargets(b, s, KnightSteps)
    BY <2>1, NormalMovesTo
  <2>3. t \in StepTargets(b, s, KnightSteps) <=> KnightAttack(s, t)
    BY <1>1, <1>3, <1>4, LineTargetsFacts, KnightReach
  <2>4. canAttack(b, type, s, t) = KnightAttack(s, t)
    BY <1>6, TypeFacts DEF canAttack
  <2> QED
    BY <1>4, <2>2, <2>3, <2>4
<1>7. CASE type \in {W_KING, B_KING}
  <2>1. getMoves(b, s) = NormalMoves(b, s, StepTargets(b, s, KingSteps))
    BY <1>1, <1>2, <1>4, <1>7, GetMovesFacts
  <2>2. (\E m \in getMoves(b, s) : m.to = t) <=> t \in StepTargets(b, s, KingSteps)
    BY <2>1, NormalMovesTo
  <2>3. t \in StepTargets(b, s, KingSteps) <=> KingAttack(s, t)
    BY <1>1, <1>3, <1>4, LineTargetsFacts, KingReach
  <2>4. canAttack(b, type, s, t) = KingAttack(s, t)
    BY <1>7, TypeFacts DEF canAttack
  <2> QED
    BY <1>4, <2>2, <2>3, <2>4
<1>8. CASE type = W_PAWN
  <2>1. getMoves(b, s) = PawnMoves(b, s, 1, 1, 7, 4, B_PAWN, 6)
    BY <1>1, <1>2, <1>4, <1>8, GetMovesFacts DEF WPawnMoves
  <2>2. canAttack(b, type, s, t) <=> t[1] = s[1] + 1 /\ s[2] - t[2] \in {1, -1}
    BY <1>8, TypeFacts DEF canAttack, WPawnAttack
  <2>3. 1 \in {1, -1}
    OBVIOUS
  <2> QED
    BY <1>1, <1>2, <1>3, <1>4, <2>1, <2>2, <2>3, PawnReach
<1>9. CASE type = B_PAWN
  <2>1. getMoves(b, s) = PawnMoves(b, s, -1, 6, 0, 3, W_PAWN, 1)
    BY <1>1, <1>2, <1>4, <1>9, GetMovesFacts DEF BPawnMoves
  <2>2. canAttack(b, type, s, t) <=> t[1] = s[1] - 1 /\ s[2] - t[2] \in {1, -1}
    BY <1>9, TypeFacts DEF canAttack, BPawnAttack
  <2>3. -1 \in {1, -1}
    OBVIOUS
  <2>4. s[1] - 1 = s[1] + (-1)
    BY <1>1, SquareFacts
  <2> QED
    BY <1>1, <1>2, <1>3, <1>4, <2>1, <2>2, <2>3, <2>4, PawnReach
<1>10. \/ type \in LineTypes \/ type \in {W_KNIGHT, B_KNIGHT} \/ type \in {W_KING, B_KING}
       \/ type = W_PAWN \/ type = B_PAWN
  BY <1>2, TypeFacts DEF LineTypes
<1> QED
  BY <1>5, <1>6, <1>7, <1>8, <1>9, <1>10

----------------------------------------------------------------------------
(***************************************************************************)
(* Checks.                                                                 *)
(***************************************************************************)

\* Board::isChecked, by the types on the squares.
LEMMA CheckedFacts ==
  ASSUME NEW b \in Boards, NEW black \in BOOLEAN
  PROVE  isChecked(b, black) <=>
           \E s \in Squares : /\ b.positions[s] \in SideTypes(~black)
                              /\ canAttack(b, b.positions[s], s, kingPosition(b, black))
<1>1. PiecesOf(b, ~black) = {s \in Squares : b.positions[s] \in SideTypes(~black)}
  BY PiecesOfFacts
<1> QED
  BY <1>1 DEF isChecked, getPieceTypeAtPosition

\* Boards with the same empty squares, the same pieces of one side and the other
\* king in the same place.
LEMMA SameChecks ==
  ASSUME NEW b \in Boards, NEW c \in Boards, NEW black \in BOOLEAN,
         \A s \in Squares : b.positions[s] = EMPTY <=> c.positions[s] = EMPTY,
         \A s \in Squares : \/ b.positions[s] \in SideTypes(~black)
                            \/ c.positions[s] \in SideTypes(~black)
                            => b.positions[s] = c.positions[s],
         kingPosition(b, black) = kingPosition(c, black),
         kingPosition(b, black) \in Squares
  PROVE  isChecked(b, black) <=> isChecked(c, black)
<1>1. SideTypes(~black) \subseteq PieceTypes
  BY DEF SideTypes, PieceTypes
<1>2. ASSUME NEW s \in Squares, NEW type \in PieceTypes
      PROVE  canAttack(b, type, s, kingPosition(b, black))
               <=> canAttack(c, type, s, kingPosition(b, black))
  BY AttackDepends
<1> QED
  BY <1>1, <1>2, CheckedFacts

\* The king squares of a board with its kings in place.
LEMMA KingFacts ==
  ASSUME NEW b \in Boards, KingsCached(b), NEW black \in BOOLEAN
  PROVE  /\ kingPosition(b, black) \in Squares
         /\ b.positions[kingPosition(b, black)] = kingOf(black)
         /\ \A s \in Squares : b.positions[s] = kingOf(black) => s = kingPosition(b, black)
<1>1. /\ KingsUnique(b) /\ b.blackKing \in Squares /\ b.whiteKing \in Squares
      /\ b.positions[b.blackKing] = B_KING /\ b.positions[b.whiteKing] = W_KING
  BY CachedAreUnique
<1> QED
  BY <1>1 DEF KingsUnique, kingPosition, kingOf

\* What a move of one side leaves of the other.
LEMMA EnemiesAfter ==
  ASSUME NEW b \in Boards, NEW m, MoveOK(b, m), NEW black \in BOOLEAN,
         m.fromType \in SideTypes(black), NEW s \in Squares
  PROVE  /\ TypeAfter(b, m, s) \in SideTypes(~black) =>
              s # m.to /\ s # m.from /\ TypeAfter(b, m, s) = b.positions[s]
         /\ s = m.to => TypeAfter(b, m, s) \in SideTypes(black)
         /\ s = m.to => TypeAfter(b, m, s) # EMPTY
         /\ s = m.from => TypeAfter(b, m, s) = EMPTY
         /\ TypeAfter(b, m, s) # b.positions[s] =>
              \/ s = m.to \/ s = m.from
              \/ m.special = PAWN_EN_PASSANT /\ s = enPassantPos(m)
<1>1. m.to # m.from /\ m.fromType \in Types
  BY DEF MoveOK, Moves
<1>2. isSameColor(newType(m), m.fromType) /\ newType(m) \in Types
  BY NewTypeFacts, TypeFacts
<1>3. /\ newType(m) \in SideTypes(black) /\ newType(m) \notin SideTypes(~black)
      /\ newType(m) # EMPTY /\ EMPTY \notin SideTypes(~black)
  BY <1>1, <1>2, TypeFacts, ColorFacts DEF SideTypes
<1> QED
  BY <1>1, <1>3 DEF TypeAfter

\* Whether the king is attacked does not depend on the last move.
LEMMA MadeAndTried ==
  ASSUME NEW b \in Boards, NEW m, MoveOK(b, m), NEW black \in BOOLEAN,
         kingPosition(apply(b, m), black) \in Squares
  PROVE  isChecked(makeMove(b, m), black) <=> isChecked(apply(b, m), black)
<1>1. /\ makeMove(b, m) \in Boards /\ apply(b, m) \in Boards
      /\ makeMove(b, m).positions = apply(b, m).positions
      /\ makeMove(b, m).blackKing = apply(b, m).blackKing
      /\ makeMove(b, m).whiteKing = apply(b, m).whiteKing
  BY MakeMoveFacts, ApplyFacts
<1>2. kingPosition(makeMove(b, m), black) = kingPosition(apply(b, m), black)
  BY <1>1 DEF kingPosition
<1> QED
  BY <1>1, <1>2, SameChecks

\* A check test that asks the pieces of a list which are still there and those on
\* some more squares.
LEMMA CheckedByList ==
  ASSUME NEW c \in Boards, NEW black \in BOOLEAN, NEW list \in SUBSET Pieces,
         \A p \in list : p.type \in SideTypes(~black), NEW more,
         \A s \in Squares : c.positions[s] \in SideTypes(~black) =>
            s \in more \/ \E p \in list : p.pos = s /\ p.type = c.positions[s]
  PROVE  isChecked(c, black) <=>
           \/ \E p \in list : /\ getPieceTypeAtPosition(c, p.pos) = p.type
                              /\ canAttack(c, p.type, p.pos, kingPosition(c, black))
           \/ \E s \in more \cap Squares :
                 /\ c.positions[s] \in SideTypes(~black)
                 /\ canAttack(c, c.positions[s], s, kingPosition(c, black))
<1>1. \A p \in list : p.pos \in Squares
  BY DEF Pieces
<1> QED
  BY <1>1, CheckedFacts DEF getPieceTypeAtPosition

----------------------------------------------------------------------------
(***************************************************************************)
(* Lines through the king.                                                 *)
(***************************************************************************)

Opposite(step) == <<0 - step[1], 0 - step[2]>>

\* A direction and its opposite are attacked along by the same types.
LEMMA OppositeFacts ==
  ASSUME NEW step \in KingSteps
  PROVE  /\ Opposite(step) \in KingSteps
         /\ Opposite(step)[1] = 0 - step[1] /\ Opposite(step)[2] = 0 - step[2]
         /\ \A type : canAttackLine(type, Opposite(step)) <=> canAttackLine(type, step)
<1>1. Opposite(step)[1] = 0 - step[1] /\ Opposite(step)[2] = 0 - step[2]
  BY DEF Opposite
<1>2. step[1] \in {-1, 0, 1} /\ step[2] \in {-1, 0, 1} /\ (step[1] # 0 \/ step[2] # 0)
  BY DEF KingSteps, Straight, Diagonal
<1>3. Opposite(step) \in KingSteps
  <2>1. \A x \in {-1, 0, 1} : 0 - x \in {-1, 0, 1} /\ (0 - x = 0 <=> x = 0)
    OBVIOUS
  <2>2. \A x, y \in {-1, 0, 1} : x # 0 \/ y # 0 => <<x, y>> \in KingSteps
    BY DEF KingSteps, Straight, Diagonal
  <2>3. /\ 0 - step[1] \in {-1, 0, 1} /\ 0 - step[2] \in {-1, 0, 1}
        /\ 0 - step[1] # 0 \/ 0 - step[2] # 0
    BY <1>2, <2>1
  <2> QED
    BY ONLY <2>2, <2>3 DEF Opposite
<1>4. (0 - step[1]) * (0 - step[2]) = step[1] * step[2]
  <2>1. \A x, y \in {-1, 0, 1} : (0 - x) * (0 - y) = x * y
    OBVIOUS
  <2> QED
    BY <1>2, <2>1
<1>5. \A type : canAttackLine(type, Opposite(step)) <=> canAttackLine(type, step)
  <2>1. Opposite(step)[1] * Opposite(step)[2] = step[1] * step[2]
    BY <1>1, <1>4
  <2> QED
    BY <2>1 DEF canAttackLine
<1> QED
  BY <1>1, <1>3, <1>5

\* A walk back along a line.
LEMMA LineBack ==
  ASSUME NEW src \in Squares, NEW step \in KingSteps, NEW n \in 1 .. 7,
         Along(src, step, n) \in Squares, NEW k \in 0 .. n
  PROVE  /\ Along(Along(src, step, n), Opposite(step), k) = Along(src, step, n - k)
         /\ Along(src, step, 0) = src
<1> DEFINE tgt == Along(src, step, n)
<1>1. /\ n \in Int /\ k \in Int /\ n - k \in Int /\ 0 \in Int
      /\ src[1] \in Int /\ src[2] \in Int /\ src = <<src[1], src[2]>>
      /\ Opposite(step) \in KingSteps
      /\ Opposite(step)[1] = 0 - step[1] /\ Opposite(step)[2] = 0 - step[2]
  BY SquareFacts, OppositeFacts
<1>2. /\ step[1] \in {-1, 0, 1} /\ step[2] \in {-1, 0, 1}
      /\ tgt = <<Moved(src[1], step[1], n), Moved(src[2], step[2], n)>>
      /\ Along(src, step, n - k)
           = <<Moved(src[1], step[1], n - k), Moved(src[2], step[2], n - k)>>
      /\ Along(src, step, 0) = <<Moved(src[1], step[1], 0), Moved(src[2], step[2], 0)>>
  BY <1>1, AlongMoves
<1> HIDE DEF tgt
<1>3. /\ Along(tgt, Opposite(step), k)
           = <<Moved(tgt[1], 0 - step[1], k), Moved(tgt[2], 0 - step[2], k)>>
      /\ tgt[1] = Moved(src[1], step[1], n) /\ tgt[2] = Moved(src[2], step[2], n)
  <2>1. tgt \in Squares
    BY DEF tgt
  <2>2. Along(tgt, Opposite(step), k)
          = <<Moved(tgt[1], Opposite(step)[1], k), Moved(tgt[2], Opposite(step)[2], k)>>
    BY <1>1, <2>1, AlongMoves
  <2>3. tgt[1] = Moved(src[1], step[1], n) /\ tgt[2] = Moved(src[2], step[2], n)
    BY <1>2
  <2> QED
    BY <1>1, <2>2, <2>3
<1>4. ASSUME NEW a \in Int, NEW x \in {-1, 0, 1}
      PROVE  /\ Moved(Moved(a, x, n), 0 - x, k) = Moved(a, x, n - k)
             /\ Moved(a, x, 0) = a
  BY <1>1 DEF Moved
<1>5. Along(tgt, Opposite(step), k) = Along(src, step, n - k)
  BY <1>1, <1>2, <1>3, <1>4
<1>6. Along(src, step, 0) = src
  BY <1>1, <1>2, <1>4
<1> QED
  BY <1>5, <1>6 DEF tgt

\* The direction in which noIndirectAttack walks from the king.
Unit(d) == IF d = 0 THEN 0 ELSE Sign(d)
UnitStep(king, pos) == <<Unit(pos[1] - king[1]), Unit(pos[2] - king[2])>>

\* The direction that noIndirectAttack takes is that of the line, if there is one.
LEMMA UnitStepFacts ==
  ASSUME NEW king \in Squares, NEW pos \in Squares, pos # king
  PROVE  /\ UnitStep(king, pos) \in KingSteps
         /\ \A step \in KingSteps, n \in 1 .. 7 : Along(king, step, n) = pos =>
              /\ UnitStep(king, pos) = step
              /\ \/ pos[1] - king[1] = pos[2] - king[2]
                 \/ (pos[1] - king[1]) + (pos[2] - king[2]) = 0
                 \/ (pos[1] - king[1]) * (pos[2] - king[2]) = 0
<1> DEFINE dr == pos[1] - king[1]
           dc == pos[2] - king[2]
<1>1. /\ king[1] \in 0 .. 7 /\ king[2] \in 0 .. 7 /\ king = <<king[1], king[2]>>
      /\ pos[1] \in 0 .. 7 /\ pos[2] \in 0 .. 7 /\ pos = <<pos[1], pos[2]>>
  BY SquareFacts
<1>2. dr \in Int /\ dc \in Int /\ (dr # 0 \/ dc # 0)
  <2>1. pos[1] # king[1] \/ pos[2] # king[2]
    BY <1>1
  <2> QED
    BY <1>1, <2>1
<1>3. UnitStep(king, pos) = <<Unit(dr), Unit(dc)>>
  BY DEF UnitStep
<1>4. ASSUME NEW step \in KingSteps, NEW n \in 1 .. 7, Along(king, step, n) = pos
      PROVE  step = <<Unit(dr), Unit(dc)>> /\ (dr = dc \/ dr + dc = 0 \/ dr * dc = 0)
  <2>1. /\ step[1] \in {-1, 0, 1} /\ step[2] \in {-1, 0, 1} /\ step = <<step[1], step[2]>>
        /\ pos[1] = Moved(king[1], step[1], n) /\ pos[2] = Moved(king[2], step[2], n)
        /\ n \in Int /\ n > 0
    <3>1. n \in Int /\ n > 0
      OBVIOUS
    <3>2. /\ step[1] \in {-1, 0, 1} /\ step[2] \in {-1, 0, 1}
          /\ step = <<step[1], step[2]>>
          /\ Along(king, step, n) = <<Moved(king[1], step[1], n), Moved(king[2], step[2], n)>>
      BY <3>1, AlongMoves
    <3> QED
      BY ONLY <1>4, <3>1, <3>2
  <2>2. /\ step[1] = 0 => dr = 0
        /\ step[1] = 1 => dr = n
        /\ step[1] = -1 => dr = 0 - n
    BY <1>1, <2>1 DEF Moved
  <2>3. /\ step[2] = 0 => dc = 0
        /\ step[2] = 1 => dc = n
        /\ step[2] = -1 => dc = 0 - n
    BY <1>1, <2>1 DEF Moved
  <2> HIDE DEF dr, dc
  <2>4. Unit(dr) = step[1]
    BY <1>2, <2>1, <2>2 DEF Unit, Sign
  <2>5. Unit(dc) = step[2]
    BY <1>2, <2>1, <2>3 DEF Unit, Sign
  <2>6. dr = dc \/ dr + dc = 0 \/ dr = 0 \/ dc = 0
    BY <1>2, <2>1, <2>2, <2>3
  <2>7. dr = 0 \/ dc = 0 => dr * dc = 0
    BY <1>2
  <2> QED
    BY <2>1, <2>4, <2>5, <2>6, <2>7
<1>5. <<Unit(dr), Unit(dc)>> \in KingSteps
  <2> HIDE DEF dr, dc
  <2>1. \A x, y \in {-1, 0, 1} : x # 0 \/ y # 0 => <<x, y>> \in KingSteps
    BY DEF KingSteps, Straight, Diagonal
  <2>2. /\ Unit(dr) \in {-1, 0, 1} /\ Unit(dc) \in {-1, 0, 1}
        /\ Unit(dr) # 0 \/ Unit(dc) # 0
    BY <1>2 DEF Unit, Sign
  <2> QED
    BY <2>1, <2>2
<1> QED
  BY <1>3, <1>4, <1>5

----------------------------------------------------------------------------
(***************************************************************************)
(* The move test.                                                          *)
(***************************************************************************)

\* If a pawn can be taken en passant, then before it moved the king of the side
\* that can take it was not attacked.
EnPassantSafe(b, black) ==
  \/ doubleStepped(b.lastMove, W_PAWN, 1, 3)
  \/ doubleStepped(b.lastMove, B_PAWN, 6, 4)
  => ~isChecked(undo(b, b.lastMove), black)

\* A capture en passant takes the pawn that has just moved by two squares, passing
\* the square that the capture goes to.
LEMMA EnPassantCapture ==
  ASSUME NEW b, BoardOK(b), NEW src \in Squares, b.positions[src] \in PieceTypes,
         NEW m \in getMoves(b, src), m.special = PAWN_EN_PASSANT
  PROVE  LET c == b.lastMove.from[2]
         IN  \/ /\ doubleStepped(b.lastMove, B_PAWN, 6, 4) /\ m.fromType = W_PAWN
                /\ m.to = <<5, c>> /\ enPassantPos(m) = <<4, c>>
             \/ /\ doubleStepped(b.lastMove, W_PAWN, 1, 3) /\ m.fromType = B_PAWN
                /\ m.to = <<2, c>> /\ enPassantPos(m) = <<3, c>>
<1> DEFINE c == b.lastMove.from[2]
<1>1. /\ b \in Boards /\ EnPassantOK(b) /\ MoveOK(b, m) /\ m.from = src
      /\ m.fromType = b.positions[src] /\ m.fromType \in Pawns /\ W_PAWN # B_PAWN
      /\ src[1] \in 0 .. 7 /\ src[2] \in 0 .. 7
  <2>1. b \in Boards /\ EnPassantOK(b)
    BY DEF BoardOK
  <2>2. MoveOK(b, m) /\ m.from = src
    BY <2>1, GeneratedMoves
  <2> QED
    BY <2>1, <2>2, TypeFacts, SpecialFacts, SquareFacts DEF MoveOK
<1>2. \A sp, t : newMove(b, sp, src, t).special = sp /\ newMove(b, sp, src, t).to = t
  BY DEF newMove
<1>3. /\ PAWN_EN_PASSANT # NORMAL_MOVE /\ PAWN_EN_PASSANT # QUEEN_PROMOTION
      /\ PAWN_EN_PASSANT # KNIGHT_PROMOTION
  BY SpecialFacts
<1>4. ASSUME NEW dir, NEW home, NEW lastRow, NEW epRow, NEW other, NEW otherHome,
             m \in PawnMoves(b, src, dir, home, lastRow, epRow, other, otherHome)
      PROVE  /\ src[1] = epRow /\ doubleStepped(b.lastMove, other, otherHome, epRow)
             /\ m.to[1] = src[1] + dir /\ m.to[2] = c
             /\ m.to = <<m.to[1], m.to[2]>>
  <2> DEFINE sides == {<<src[1] + dir, src[2] - 1>>, <<src[1] + dir, src[2] + 1>>}
             kinds == IF src[1] + dir # lastRow THEN {NORMAL_MOVE}
                                                ELSE {QUEEN_PROMOTION, KNIGHT_PROMOTION}
  <2>1. PawnMove(b, src, dir, home, lastRow, epRow, other, otherHome, m)
    BY <1>4, PawnMoveKinds
  <2>2. \A sp \in kinds : sp # PAWN_EN_PASSANT
    BY <1>3
  <2>3. \A t \in sides : t[1] = src[1] + dir /\ t = <<t[1], t[2]>>
    OBVIOUS
  <2>4. \A sp \in kinds : \A t : m # newMove(b, sp, src, t)
    BY <1>2, <2>2
  <2>5. \A t : m # newMove(b, NORMAL_MOVE, src, t)
    BY <1>2, <1>3
  <2> HIDE DEF kinds
  <2>6. /\ src[1] = epRow /\ doubleStepped(b.lastMove, other, otherHome, epRow)
        /\ \E t \in sides : /\ b.lastMove.from[2] = t[2]
                            /\ m = newMove(b, PAWN_EN_PASSANT, src, t)
    BY <2>1, <2>4, <2>5 DEF PawnMove, kinds
  <2>7. PICK t \in sides : /\ b.lastMove.from[2] = t[2]
                           /\ m = newMove(b, PAWN_EN_PASSANT, src, t)
    BY <2>6
  <2>8. m.to = t
    BY <1>2, <2>7
  <2> HIDE DEF sides
  <2> QED
    BY <2>3, <2>6, <2>7, <2>8
<1>5. CASE m.fromType = W_PAWN
  <2>1. m \in PawnMoves(b, src, 1, 1, 7, 4, B_PAWN, 6)
    BY <1>1, <1>5, GetMovesFacts DEF WPawnMoves
  <2>2. /\ src[1] = 4 /\ doubleStepped(b.lastMove, B_PAWN, 6, 4)
        /\ m.to[1] = src[1] + 1 /\ m.to[2] = c /\ m.to = <<m.to[1], m.to[2]>>
    BY <1>4, <2>1
  <2> HIDE DEF c
  <2>3. m.to = <<5, c>>
    BY <2>2
  <2>4. enPassantPos(m) = <<4, c>>
    BY <1>1, <1>5, <2>3 DEF enPassantPos
  <2> QED
    BY <1>5, <2>2, <2>3, <2>4 DEF c
<1>6. CASE m.fromType = B_PAWN
  <2>1. m \in PawnMoves(b, src, -1, 6, 0, 3, W_PAWN, 1)
    BY <1>1, <1>6, GetMovesFacts DEF BPawnMoves
  <2>2. /\ src[1] = 3 /\ doubleStepped(b.lastMove, W_PAWN, 1, 3)
        /\ m.to[1] = src[1] + (-1) /\ m.to[2] = c /\ m.to = <<m.to[1], m.to[2]>>
    BY <1>4, <2>1
  <2> HIDE DEF c
  <2>3. m.to = <<2, c>>
    BY <2>2
  <2>4. enPassantPos(m) = <<3, c>>
    BY <1>1, <1>6, <2>3 DEF enPassantPos
  <2> QED
    BY <1>6, <2>2, <2>3, <2>4 DEF c
<1> QED
  BY <1>1, <1>5, <1>6 DEF Pawns

\* The board before a pawn moved by two squares.
LEMMA BeforeDoubleStep ==
  ASSUME NEW b, BoardOK(b), NEW pawn, NEW home, NEW row,
         \/ pawn = W_PAWN /\ home = 1 /\ row = 3
         \/ pawn = B_PAWN /\ home = 6 /\ row = 4,
         doubleStepped(b.lastMove, pawn, home, row)
  PROVE  LET c == b.lastMove.from[2]
             prev == undo(b, b.lastMove)
         IN  /\ prev \in Boards /\ c \in 0 .. 7
             /\ \A s \in Squares : prev.positions[s] =
                  IF s = <<home, c>> THEN pawn
                  ELSE IF s = <<row, c>> THEN EMPTY ELSE b.positions[s]
             /\ \A black \in BOOLEAN : kingPosition(prev, black) = kingPosition(b, black)
             /\ b.positions[<<home, c>>] = EMPTY /\ b.positions[<<row, c>>] = pawn
             /\ <<home, c>> \in Squares /\ <<row, c>> \in Squares
<1> DEFINE lm == b.lastMove
           c == lm.from[2]
           put == set(b, EMPTY, lm.to)
           back == set(put, pawn, lm.from)
<1>1. /\ b \in Boards /\ lm.special = NORMAL_MOVE /\ lm.toType = EMPTY
      /\ lm.fromType = pawn /\ lm.from \in Squares /\ lm.to = <<row, c>>
      /\ lm.from[1] = home
      /\ b.positions[<<home, c>>] = EMPTY /\ b.positions[<<row, c>>] = pawn
  BY DEF BoardOK, EnPassantOK, doubleStepped
<1>2. c \in 0 .. 7 /\ lm.from = <<home, c>> /\ home \in 0 .. 7 /\ row \in 0 .. 7
  BY <1>1, SquareFacts
<1>3. <<home, c>> \in Squares /\ <<row, c>> \in Squares
  <2> HIDE DEF c
  <2> QED
    BY ONLY <1>2, SquareIn
<1>4. /\ pawn \in Types /\ pawn # B_KING /\ pawn # W_KING
      /\ EMPTY \in Types /\ EMPTY # B_KING /\ EMPTY # W_KING
  BY TypeFacts
<1>5. undo(b, lm) = back
  BY <1>1, SpecialFacts DEF undo
<1>6. IsSet(b, EMPTY, lm.to, put)
  BY <1>1, <1>3, <1>4, SetFacts
<1>7. IsSet(put, pawn, lm.from, back)
  <2>1. put \in Boards
    BY <1>6 DEF IsSet
  <2> HIDE DEF put
  <2> QED
    BY <1>1, <1>4, <2>1, SetFacts
<1> HIDE DEF put, back, lm, c
<1>8. /\ back \in Boards /\ back.blackKing = b.blackKing /\ back.whiteKing = b.whiteKing
      /\ \A s \in Squares : back.positions[s] =
           IF s = <<home, c>> THEN pawn ELSE IF s = <<row, c>> THEN EMPTY ELSE b.positions[s]
  BY <1>1, <1>2, <1>4, <1>6, <1>7 DEF IsSet
<1>9. \A black \in BOOLEAN : kingPosition(back, black) = kingPosition(b, black)
  BY <1>8 DEF kingPosition
<1> QED
  BY <1>1, <1>2, <1>3, <1>5, <1>8, <1>9 DEF lm, c

\* A line through two squares of a column passes the square between them.
Passes(home, mid, row) ==
  /\ home \in Int /\ mid \in Int /\ row \in Int
  /\ \/ mid = home + 1 /\ row = home + 2
     \/ mid = home - 1 /\ row = home - 2

OnLine(src, step, n, pos) == \E k \in 1 .. (n - 1) : Along(src, step, k) = pos

\* A line through a pawn's home square and the square two further passes the one
\* between them.
LEMMA LineBetween ==
  ASSUME NEW src \in Squares, NEW step \in KingSteps, NEW n \in 1 .. 7,
         NEW c \in 0 .. 7, NEW home, NEW mid, NEW row, Passes(home, mid, row),
         OnLine(src, step, n, <<home, c>>), OnLine(src, step, n, <<row, c>>)
  PROVE  OnLine(src, step, n, <<mid, c>>)
<1> PICK i \in 1 .. (n - 1), k \in 1 .. (n - 1) :
      Along(src, step, i) = <<home, c>> /\ Along(src, step, k) = <<row, c>>
  BY DEF OnLine
<1>1. /\ src[1] \in 0 .. 7 /\ src[2] \in 0 .. 7
      /\ n \in 1 .. 7 /\ i \in 1 .. (n - 1) /\ k \in 1 .. (n - 1)
  BY SquareFacts
<1>2. /\ step[1] \in {-1, 0, 1} /\ step[2] \in {-1, 0, 1}
      /\ \A j \in Int : Along(src, step, j)
                          = <<Moved(src[1], step[1], j), Moved(src[2], step[2], j)>>
  BY AlongMoves
<1>3. /\ Moved(src[1], step[1], i) = home /\ Moved(src[2], step[2], i) = c
      /\ Moved(src[1], step[1], k) = row /\ Moved(src[2], step[2], k) = c
  <2>1. /\ Along(src, step, i) = <<Moved(src[1], step[1], i), Moved(src[2], step[2], i)>>
        /\ Along(src, step, k) = <<Moved(src[1], step[1], k), Moved(src[2], step[2], k)>>
    BY <1>1, <1>2
  <2> QED
    BY <2>1
<1>4. step[2] = 0 /\ step[1] # 0
  BY <1>1, <1>2, <1>3 DEF Moved, Passes
<1>5. k = i + 2 \/ k = i - 2
  BY <1>1, <1>2, <1>3, <1>4 DEF Moved, Passes
<1> DEFINE j == IF k = i + 2 THEN i + 1 ELSE i - 1
<1>6. j \in 1 .. (n - 1)
  BY <1>1, <1>5
<1>7. Moved(src[1], step[1], j) = mid /\ Moved(src[2], step[2], j) = c
  BY <1>1, <1>2, <1>3, <1>4, <1>5 DEF Moved, Passes
<1> HIDE DEF j
<1>8. Along(src, step, j) = <<mid, c>>
  BY <1>1, <1>2, <1>6, <1>7
<1> QED
  BY <1>6, <1>8 DEF OnLine

\* No attacker waits behind a pawn that is taken en passant: before the pawn moved,
\* the line would have been open.
LEMMA NothingBehindPassed ==
  ASSUME NEW b, BoardOK(b), KingsCached(b), NEW black \in BOOLEAN,
         EnPassantSafe(b, black),
         NEW src \in PiecesOf(b, black), NEW m \in getMoves(b, src),
         m.special = PAWN_EN_PASSANT,
         NEW s \in Squares, b.positions[s] \in SideTypes(~black),
         b.positions[s] \in LineTypes, NEW step \in LineSteps(b.positions[s]),
         NEW n \in 1 .. 7, Along(s, step, n) = kingPosition(b, black),
         \A k \in 1 .. (n - 1) : /\ Along(s, step, k) # m.to
                                 /\ \/ b.positions[Along(s, step, k)] = EMPTY
                                    \/ Along(s, step, k) = enPassantPos(m),
         \E k \in 1 .. (n - 1) : Along(s, step, k) = enPassantPos(m)
  PROVE  FALSE
<1> DEFINE type == b.positions[s]
           prev == undo(b, b.lastMove)
           c == b.lastMove.from[2]
<1>1. /\ b \in Boards /\ src \in Squares /\ b.positions[src] \in PieceTypes
      /\ kingPosition(b, black) \in Squares /\ type \in PieceTypes
      /\ step \in KingSteps
  <2>1. b \in Boards
    BY DEF BoardOK
  <2>2. src \in Squares /\ b.positions[src] \in SideTypes(black)
    BY <2>1, PiecesOfFacts
  <2> QED
    BY <2>1, <2>2, KingFacts DEF SideTypes, PieceTypes, LineSteps
<1>2. PICK pawn, home, mid, row :
        /\ \/ pawn = W_PAWN /\ home = 1 /\ mid = 2 /\ row = 3
           \/ pawn = B_PAWN /\ home = 6 /\ mid = 5 /\ row = 4
        /\ doubleStepped(b.lastMove, pawn, home, row)
        /\ m.to = <<mid, c>> /\ enPassantPos(m) = <<row, c>>
  <2> HIDE DEF c
  <2>1. \/ /\ doubleStepped(b.lastMove, B_PAWN, 6, 4)
           /\ m.to = <<5, c>> /\ enPassantPos(m) = <<4, c>>
        \/ /\ doubleStepped(b.lastMove, W_PAWN, 1, 3)
           /\ m.to = <<2, c>> /\ enPassantPos(m) = <<3, c>>
    BY <1>1, EnPassantCapture DEF c
  <2> QED
    BY <2>1
<1>3. /\ prev \in Boards /\ c \in 0 .. 7
      /\ \A q \in Squares : prev.positions[q] =
           IF q = <<home, c>> THEN pawn
           ELSE IF q = <<row, c>> THEN EMPTY ELSE b.positions[q]
      /\ kingPosition(prev, black) = kingPosition(b, black)
      /\ b.positions[<<home, c>>] = EMPTY /\ b.positions[<<row, c>>] = pawn
      /\ <<home, c>> \in Squares /\ <<row, c>> \in Squares
  BY <1>2, BeforeDoubleStep
<1>4. ~isChecked(prev, black)
  BY <1>2 DEF EnPassantSafe
<1> HIDE DEF prev, c, type
<1>5. \A k \in 1 .. (n - 1) : Along(s, step, k) # <<home, c>>
  <2>1. SUFFICES ASSUME OnLine(s, step, n, <<home, c>>)
                 PROVE  FALSE
    BY DEF OnLine
  <2>2. OnLine(s, step, n, <<row, c>>)
    BY <1>2 DEF OnLine
  <2>3. Passes(home, mid, row)
    BY <1>2 DEF Passes
  <2>4. step \in KingSteps /\ c \in 0 .. 7
    BY <1>1, <1>3
  <2>5. OnLine(s, step, n, <<mid, c>>)
    BY ONLY <2>1, <2>2, <2>3, <2>4, LineBetween
  <2>6. m.to = <<mid, c>>
    BY <1>2
  <2> QED
    BY <2>5, <2>6 DEF OnLine
<1>6. LineOpen(prev, s, step, n)
  <2>1. ASSUME NEW k \in 1 .. (n - 1)
        PROVE  prev.positions[Along(s, step, k)] = EMPTY
    <3>1. Along(s, step, k) \in Squares
      <4>1. k \in 0 .. n
        OBVIOUS
      <4> QED
        BY <1>1, <4>1, LineSquares
    <3>2. \/ b.positions[Along(s, step, k)] = EMPTY
          \/ Along(s, step, k) = <<row, c>>
      BY <1>2
    <3> QED
      BY <1>3, <1>5, <3>1, <3>2
  <2> QED
    BY <2>1 DEF LineOpen
<1>7. type \in LineTypes /\ type \in SideTypes(~black) /\ step \in LineSteps(type)
  BY DEF type
<1>8. prev.positions[s] = type
  <2>1. pawn \notin LineTypes /\ EMPTY \notin LineTypes
    BY <1>2, TypeFacts DEF LineTypes
  <2>2. b.positions[s] = type
    BY DEF type
  <2> QED
    BY <1>3, <1>7, <2>1, <2>2
<1>9. canAttack(prev, type, s, kingPosition(prev, black))
  BY <1>1, <1>3, <1>6, <1>7, LineAttack
<1> QED
  BY <1>3, <1>4, <1>7, <1>8, <1>9, CheckedFacts

\* The squares at which noIndirectAttack can stop on its way from the king, and
\* what it wants of the first one.
Stops(tried, m, king, step) ==
  {n \in 1 .. 7 : LET pos == Along(king, step, n)
                  IN  /\ isValidPosition(pos)
                      /\ \/ pos = m.to
                         \/ tried.positions[pos] # EMPTY /\ pos # m.from}

Harmless(tried, m, pos, step) ==
  \/ pos = m.to
  \/ isSameColor(m.fromType, tried.positions[pos])
  \/ ~canAttackLine(tried.positions[pos], step)

FirstHarmless(tried, m, king, step) ==
  \A n \in Stops(tried, m, king, step) :
     (\A k \in Stops(tried, m, king, step) : n <= k) =>
        Harmless(tried, m, Along(king, step, n), step)

Aligned(king, pos) ==
  \/ pos[1] - king[1] = pos[2] - king[2]
  \/ (pos[1] - king[1]) + (pos[2] - king[2]) = 0
  \/ (pos[1] - king[1]) * (pos[2] - king[2]) = 0

\* noIndirectAttack in these terms.
LEMMA IndirectFacts ==
  ASSUME NEW tried, NEW m, NEW king
  PROVE  noIndirectAttack(tried, m, king) <=>
           \/ ~Aligned(king, m.from)
           \/ FirstHarmless(tried, m, king, UnitStep(king, m.from))
<1> DEFINE step == UnitStep(king, m.from)
<1>1. step = <<IF m.from[1] - king[1] = 0 THEN 0 ELSE Sign(m.from[1] - king[1]),
               IF m.from[2] - king[2] = 0 THEN 0 ELSE Sign(m.from[2] - king[2])>>
  BY DEF UnitStep, Unit
<1> HIDE DEF step
<1>2. Stops(tried, m, king, step) =
        {n \in 1 .. (BOARD_SIZE - 1) :
           /\ isValidPosition(Along(king, step, n))
           /\ \/ Along(king, step, n) = m.to
              \/ ~isEmpty(tried, Along(king, step, n)) /\ Along(king, step, n) # m.from}
  BY DEF Stops, BOARD_SIZE, isEmpty, getPieceTypeAtPosition
<1> DEFINE stops == Stops(tried, m, king, step)
<1>3. noIndirectAttack(tried, m, king) <=>
        \/ ~Aligned(king, m.from)
        \/ \A n \in stops : (\A k \in stops : n <= k) =>
             \/ Along(king, step, n) = m.to
             \/ isSameColor(m.fromType, getPieceTypeAtPosition(tried, Along(king, step, n)))
             \/ ~canAttackLine(getPieceTypeAtPosition(tried, Along(king, step, n)), step)
  BY <1>1, <1>2 DEF noIndirectAttack, Aligned
<1>4. noIndirectAttack(tried, m, king) <=>
        ~Aligned(king, m.from) \/ FirstHarmless(tried, m, king, step)
  BY <1>3 DEF FirstHarmless, Harmless, getPieceTypeAtPosition
<1> QED
  BY <1>4 DEF step

\* A board on which a piece other than the king has moved.
LEMMA TriedFacts ==
  ASSUME NEW b, BoardOK(b), KingsCached(b), NEW black \in BOOLEAN,
         NEW src \in PiecesOf(b, black), NEW m \in getMoves(b, src),
         ~isKing(m.fromType)
  PROVE  /\ b \in Boards /\ MoveOK(b, m) /\ m.fromType \in SideTypes(black)
         /\ m.from \in Squares /\ m.to \in Squares
         /\ apply(b, m) \in Boards
         /\ \A s \in Squares : apply(b, m).positions[s] = TypeAfter(b, m, s)
         /\ kingPosition(apply(b, m), black) = kingPosition(b, black)
         /\ kingPosition(b, black) \in Squares /\ m.from # kingPosition(b, black)
<1>1. b \in Boards /\ EnPassantOK(b)
  BY DEF BoardOK
<1>2. src \in Squares /\ b.positions[src] \in SideTypes(black)
  BY <1>1, PiecesOfFacts
<1>3. b.positions[src] \in PieceTypes
  BY <1>2 DEF SideTypes, PieceTypes
<1>4. MoveOK(b, m) /\ m.from = src
  BY <1>1, <1>2, <1>3, GeneratedMoves
<1>5. m.fromType = b.positions[src] /\ m.from \in Squares /\ m.to \in Squares
  BY <1>4 DEF MoveOK
<1>6. /\ apply(b, m) \in Boards
      /\ \A s \in Squares : apply(b, m).positions[s] = TypeAfter(b, m, s)
      /\ apply(b, m).blackKing = b.blackKing /\ apply(b, m).whiteKing = b.whiteKing
  BY <1>1, <1>4, ApplyFacts DEF isKing
<1>7. /\ kingPosition(b, black) \in Squares
      /\ b.positions[kingPosition(b, black)] = kingOf(black)
  BY <1>1, KingFacts
<1>8. m.fromType # kingOf(black)
  BY DEF isKing, kingOf
<1> QED
  BY <1>1, <1>2, <1>4, <1>5, <1>6, <1>7, <1>8 DEF kingPosition

\* An attack on the king that a move opens comes through the square it leaves, and
\* is the first thing on the line from the king through that square.
LEMMA OpenedAttackSeen ==
  ASSUME NEW b, BoardOK(b), KingsCached(b), NEW black \in BOOLEAN,
         EnPassantSafe(b, black), ~isChecked(b, black),
         NEW src \in PiecesOf(b, black), NEW m \in getMoves(b, src),
         ~isKing(m.fromType), isChecked(apply(b, m), black)
  PROVE  ~noIndirectAttack(apply(b, m), m, kingPosition(apply(b, m), black))
<1> DEFINE tried == apply(b, m)
           K == kingPosition(b, black)
           op(step) == Opposite(step)
<1>1. /\ b \in Boards /\ MoveOK(b, m) /\ m.fromType \in SideTypes(black)
      /\ m.from \in Squares /\ m.to \in Squares /\ tried \in Boards
      /\ \A s \in Squares : tried.positions[s] = TypeAfter(b, m, s)
      /\ kingPosition(tried, black) = K /\ K \in Squares /\ m.from # K
  BY TriedFacts
<1>2. PICK s \in Squares : tried.positions[s] \in SideTypes(~black)
                           /\ canAttack(tried, tried.positions[s], s, K)
  BY <1>1, CheckedFacts
<1> DEFINE type == tried.positions[s]
<1>3. s # m.to /\ s # m.from /\ type = b.positions[s]
  BY <1>1, <1>2, EnemiesAfter
<1>4. ~canAttack(b, b.positions[s], s, K)
  BY <1>1, <1>2, <1>3, CheckedFacts
<1>5. type \in PieceTypes /\ type \in SideTypes(~black)
  BY <1>2 DEF SideTypes, PieceTypes
<1> HIDE DEF tried, K, type
<1>6. type \in LineTypes /\ canAttack(tried, type, s, K) /\ ~canAttack(b, type, s, K)
  <2>1. canAttack(tried, type, s, K) /\ ~canAttack(b, type, s, K)
    BY <1>2, <1>3, <1>4 DEF type
  <2> QED
    BY <1>5, <2>1, StepAttack
<1>7. PICK step \in LineSteps(type), n \in 1 .. 7 :
        Along(s, step, n) = K /\ LineOpen(tried, s, step, n)
  BY <1>1, <1>6, LineAttack
<1>8. ~LineOpen(b, s, step, n)
  BY <1>1, <1>6, <1>7, LineAttack
<1>9. step \in KingSteps /\ canAttackLine(type, step)
  BY DEF LineSteps
<1>10. ASSUME NEW k \in 1 .. (n - 1)
       PROVE  LET q == Along(s, step, k)
              IN  /\ q \in Squares /\ tried.positions[q] = EMPTY /\ q # m.to
                  /\ \/ b.positions[q] = EMPTY \/ q = m.from
                     \/ m.special = PAWN_EN_PASSANT /\ q = enPassantPos(m)
  <2> DEFINE q == Along(s, step, k)
  <2>1. q \in Squares
    <3>1. k \in 0 .. n /\ Along(s, step, n) \in Squares
      BY <1>1, <1>7
    <3> QED
      BY <1>9, <3>1, LineSquares
  <2>2. tried.positions[q] = EMPTY
    BY <1>7 DEF LineOpen
  <2> HIDE DEF q
  <2>3. TypeAfter(b, m, q) = EMPTY
    BY <1>1, <2>1, <2>2
  <2>4. /\ q # m.to
        /\ \/ b.positions[q] = EMPTY \/ q = m.from
           \/ m.special = PAWN_EN_PASSANT /\ q = enPassantPos(m)
    BY <1>1, <2>1, <2>3, EnemiesAfter
  <2> QED
    BY <2>1, <2>2, <2>4 DEF q
<1>11. \E k \in 1 .. (n - 1) : Along(s, step, k) = m.from
  <2>1. SUFFICES ASSUME \A k \in 1 .. (n - 1) : Along(s, step, k) # m.from
                 PROVE  FALSE
    OBVIOUS
  <2>2. PICK k \in 1 .. (n - 1) : b.positions[Along(s, step, k)] # EMPTY
    BY <1>8 DEF LineOpen
  <2>3. m.special = PAWN_EN_PASSANT /\ Along(s, step, k) = enPassantPos(m)
    BY <1>10, <2>1, <2>2
  <2>4. \A j \in 1 .. (n - 1) : /\ Along(s, step, j) # m.to
                                /\ \/ b.positions[Along(s, step, j)] = EMPTY
                                   \/ Along(s, step, j) = enPassantPos(m)
    BY <1>10, <2>1
  <2>5. /\ b.positions[s] \in SideTypes(~black) /\ b.positions[s] \in LineTypes
        /\ step \in LineSteps(b.positions[s]) /\ Along(s, step, n) = kingPosition(b, black)
    BY <1>3, <1>5, <1>6, <1>7 DEF K
  <2> QED
    BY <2>3, <2>4, <2>5, NothingBehindPassed
<1>12. PICK k0 \in 1 .. (n - 1) : Along(s, step, k0) = m.from
  BY <1>11
<1>13. \A j \in 0 .. n : Along(K, op(step), j) = Along(s, step, n - j)
  BY <1>1, <1>7, <1>9, LineBack
<1>14. Along(s, step, 0) = s
  <2>1. 0 \in 0 .. n
    OBVIOUS
  <2> QED
    BY <1>1, <1>7, <1>9, <2>1, LineBack
<1>15. /\ op(step) \in KingSteps /\ canAttackLine(type, op(step))
  BY <1>9, OppositeFacts
<1> HIDE DEF op
<1>16. UnitStep(K, m.from) = op(step) /\ Aligned(K, m.from)
  <2>1. n - k0 \in 1 .. 7 /\ n - k0 \in 0 .. n /\ n - (n - k0) = k0
    OBVIOUS
  <2>2. Along(K, op(step), n - k0) = m.from
    BY <1>12, <1>13, <2>1
  <2> QED
    BY <1>1, <1>15, <2>1, <2>2, UnitStepFacts DEF Aligned
<1> DEFINE stops == Stops(tried, m, K, op(step))
<1>17. Along(K, op(step), n) = s
  <2>1. n \in 0 .. n /\ n - n = 0
    OBVIOUS
  <2> QED
    BY <1>13, <1>14, <2>1
<1>18. n \in stops
  <2>1. isValidPosition(s)
    BY SquareFacts
  <2>2. tried.positions[s] # EMPTY
    BY <1>5, TypeFacts DEF type
  <2> QED
    BY <1>3, <1>17, <2>1, <2>2 DEF Stops
<1>19. \A k \in stops : n <= k
  <2>1. SUFFICES ASSUME NEW j \in stops, ~(n <= j)
                 PROVE  FALSE
    OBVIOUS
  <2>2. j \in 1 .. 7
    BY DEF Stops
  <2>3. n - j \in 1 .. (n - 1) /\ j \in 0 .. n
    BY <2>1, <2>2
  <2>4. Along(K, op(step), j) = Along(s, step, n - j)
    BY <1>13, <2>3
  <2>5. tried.positions[Along(s, step, n - j)] = EMPTY /\ Along(s, step, n - j) # m.to
    BY <1>10, <2>3
  <2> QED
    BY <2>1, <2>4, <2>5 DEF Stops
<1>20. ~Harmless(tried, m, s, op(step))
  <2>1. ~isSameColor(m.fromType, type)
    <3>1. m.fromType \in Types /\ type \in Types
      BY <1>1, <1>5 DEF MoveOK, Moves, Types
    <3> QED
      BY <1>1, <1>5, <3>1, TypeFacts, ColorFacts DEF SideTypes
  <2> QED
    BY <1>3, <1>15, <2>1 DEF Harmless, type
<1>21. ~FirstHarmless(tried, m, K, op(step))
  BY <1>17, <1>18, <1>19, <1>20 DEF FirstHarmless
<1>22. ~noIndirectAttack(tried, m, K)
  BY <1>16, <1>21, IndirectFacts
<1> QED
  BY <1>1, <1>22 DEF tried

\* What noIndirectAttack finds is an attack.
LEMMA SeenIsAttack ==
  ASSUME NEW b, BoardOK(b), KingsCached(b), NEW black \in BOOLEAN,
         NEW src \in PiecesOf(b, black), NEW m \in getMoves(b, src),
         ~isKing(m.fromType), ~isChecked(apply(b, m), black)
  PROVE  noIndirectAttack(apply(b, m), m, kingPosition(apply(b, m), black))
<1> DEFINE tried == apply(b, m)
           K == kingPosition(b, black)
           step == UnitStep(K, m.from)
           op == Opposite(step)
           stops == Stops(tried, m, K, step)
<1>1. /\ b \in Boards /\ MoveOK(b, m) /\ m.fromType \in SideTypes(black)
      /\ m.from \in Squares /\ m.to \in Squares /\ tried \in Boards
      /\ \A s \in Squares : tried.positions[s] = TypeAfter(b, m, s)
      /\ kingPosition(tried, black) = K /\ K \in Squares /\ m.from # K
  BY TriedFacts
<1>2. step \in KingSteps
  BY <1>1, UnitStepFacts
<1> HIDE DEF tried, K, step
<1>3. op \in KingSteps /\ \A type : canAttackLine(type, op) <=> canAttackLine(type, step)
  BY <1>2, OppositeFacts
<1>4. ASSUME NEW n \in stops, \A k \in stops : n <= k,
             ~Harmless(tried, m, Along(K, step, n), step)
      PROVE  FALSE
  <2> DEFINE e == Along(K, step, n)
             first == tried.positions[e]
  <2>1. n \in 1 .. 7 /\ isValidPosition(e)
    BY DEF Stops
  <2>2. e \in Squares
    <3>1. PICK i \in Int, j \in Int : e = <<i, j>>
      BY <1>1, <1>2, <2>1, AlongMoves
    <3> QED
      BY <2>1, <3>1, SquareFacts
  <2>3. /\ e # m.to /\ ~isSameColor(m.fromType, first) /\ canAttackLine(first, step)
    BY <1>4 DEF Harmless
  <2>4. first # EMPTY
    <3>1. e = m.to \/ first # EMPTY
      BY DEF Stops
    <3> QED
      BY <2>3, <3>1
  <2>5. first \in Types /\ m.fromType \in Types
    BY <1>1, <2>2, BoardFields DEF MoveOK, Moves
  <2> HIDE DEF e, first
  <2>6. first \in SideTypes(~black)
    BY <1>1, <2>3, <2>4, <2>5, TypeFacts, ColorFacts DEF SideTypes
  <2>7. first \in LineTypes
    <3>1. step \in LineSteps(first)
      BY <1>2, <2>3 DEF LineSteps
    <3> QED
      BY <3>1, LineStepFacts
  <2> HIDE DEF op
  <2>8. op \in LineSteps(first)
    BY <1>3, <2>3 DEF LineSteps
  <2>9. \A k \in 0 .. n : Along(e, op, k) = Along(K, step, n - k)
    BY <1>1, <1>2, <2>1, <2>2, LineBack DEF e, op
  <2>10. Along(e, op, n) = K
    <3>1. n \in 0 .. n /\ n - n = 0 /\ 0 \in 0 .. n
      BY <2>1
    <3>2. Along(K, step, 0) = K
      BY <1>1, <1>2, <2>1, <2>2, <3>1, LineBack DEF e
    <3> QED
      BY <2>9, <3>1, <3>2
  <2>11. LineOpen(tried, e, op, n)
    <3>1. ASSUME NEW k \in 1 .. (n - 1)
          PROVE  tried.positions[Along(e, op, k)] = EMPTY
      <4> DEFINE q == Along(K, step, n - k)
      <4>1. /\ n - k \in 1 .. 7 /\ n - k \in 0 .. n /\ k \in 0 .. n /\ ~(n <= n - k)
        BY <2>1
      <4>2. q \in Squares
        BY <1>1, <1>2, <2>1, <2>2, <4>1, LineSquares DEF e
      <4>3. isValidPosition(q) /\ n - k \notin stops
        BY <1>4, <4>1, <4>2, SquareFacts
      <4>4. tried.positions[q] = EMPTY \/ q = m.from
        BY <4>1, <4>3 DEF Stops
      <4>5. tried.positions[m.from] = EMPTY
        BY <1>1, EnemiesAfter
      <4>6. Along(e, op, k) = q
        BY <2>9, <4>1
      <4> QED
        BY <4>4, <4>5, <4>6
    <3> QED
      BY <3>1 DEF LineOpen
  <2>12. canAttack(tried, first, e, K)
    BY <1>1, <2>1, <2>2, <2>7, <2>8, <2>10, <2>11, LineAttack
  <2>13. ~isChecked(tried, black)
    BY DEF tried
  <2> QED
    BY <1>1, <2>2, <2>6, <2>12, <2>13, CheckedFacts DEF first
<1>5. FirstHarmless(tried, m, K, step)
  BY <1>4 DEF FirstHarmless
<1>6. noIndirectAttack(tried, m, K)
  BY <1>5, IndirectFacts DEF step
<1> QED
  BY <1>1, <1>6 DEF tried

\* The piece that the other side moved last is where that move took it.
LastMoverOK(b, black) ==
  b.lastMove.to \in Squares => b.positions[b.lastMove.to] \in SideTypes(~black)

\* A list of pieces of the other side that misses at most the one moved last.
ListOK(list, b, black) ==
  /\ list \in SUBSET Pieces
  /\ \A p \in list : p.type \in SideTypes(~black)
  /\ \A s \in PiecesOf(b, ~black) :
       \/ s = b.lastMove.to
       \/ \E p \in list : p.pos = s /\ p.type = b.positions[s]

\* The list that checkChecked reads for the king of one side.
enemyList(r, black) ==
  IF black = r.blackFirst THEN r.minStepPieces ELSE r.maxStepPieces

\* checkChecked asks the listed enemies of the king that are still in place.
LEMMA CheckListFacts ==
  ASSUME NEW r, r.blackFirst \in BOOLEAN, NEW black \in BOOLEAN, NEW b
  PROVE  checkChecked(r, b, black = r.blackFirst) <=>
           \E p \in enemyList(r, black) :
              /\ getPieceTypeAtPosition(b, p.pos) = p.type
              /\ canAttack(b, p.type, p.pos, kingPosition(b, black))
<1> DEFINE bf == r.blackFirst
           max == (black = bf)
<1>1. bf \in BOOLEAN
  OBVIOUS
<1> HIDE DEF bf
<1>2. max \in BOOLEAN /\ (max = bf) = black
  BY <1>1
<1>3. (IF max THEN r.minStepPieces ELSE r.maxStepPieces) = enemyList(r, black)
  BY DEF enemyList, bf
<1>4. checkChecked(r, b, max) <=>
        \E p \in enemyList(r, black) :
           /\ getPieceTypeAtPosition(b, p.pos) = p.type
           /\ canAttack(b, p.type, p.pos, kingPosition(b, max = bf))
  BY <1>3 DEF checkChecked, bf
<1> QED
  BY <1>2, <1>4 DEF bf

\* On a board where a move of one side was tried: the piece moved last by the other
\* side attacks only if it really does.
LEMMA LastMovedFacts ==
  ASSUME NEW b, BoardOK(b), NEW black \in BOOLEAN, LastMoverOK(b, black),
         NEW m, MoveOK(b, m), m.fromType \in SideTypes(black)
  PROVE  lastMovedAttacks(b, apply(b, m), m, kingPosition(apply(b, m), black)) <=>
           \E s \in {b.lastMove.to} \cap Squares :
              /\ apply(b, m).positions[s] \in SideTypes(~black)
              /\ canAttack(apply(b, m), apply(b, m).positions[s], s,
                           kingPosition(apply(b, m), black))
<1> DEFINE tried == apply(b, m)
           K == kingPosition(tried, black)
           last == b.lastMove.to
<1>1. b \in Boards /\ last \in Positions
  BY BoardFields DEF BoardOK, Moves
<1>2. \A s \in Squares : tried.positions[s] = TypeAfter(b, m, s)
  BY <1>1, ApplyFacts
<1> HIDE DEF tried, K
<1>3. isValidPosition(last) <=> last \in Squares
  BY <1>1, SquareFacts DEF Positions
<1>4. ASSUME last \in Squares
      PROVE  /\ last # m.to /\ tried.positions[last] # EMPTY
                  <=> tried.positions[last] \in SideTypes(~black)
  <2>1. b.positions[last] \in SideTypes(~black)
    BY <1>4 DEF LastMoverOK
  <2>2. b.positions[m.from] \in SideTypes(black) /\ m.from \in Squares
    BY DEF MoveOK
  <2>3. last # m.from /\ EMPTY \notin SideTypes(~black)
    BY <2>1, <2>2, TypeFacts DEF SideTypes
  <2>4. TypeAfter(b, m, last) \in SideTypes(~black) =>
           last # m.to /\ TypeAfter(b, m, last) = b.positions[last]
    BY <1>1, <1>4, EnemiesAfter
  <2>5. last # m.to /\ TypeAfter(b, m, last) # EMPTY =>
          TypeAfter(b, m, last) = b.positions[last]
    BY <2>3 DEF TypeAfter
  <2> QED
    BY <1>2, <1>4, <2>1, <2>3, <2>4, <2>5
<1>5. lastMovedAttacks(b, tried, m, K) <=>
        /\ last \in Squares /\ last # m.to /\ tried.positions[last] # EMPTY
        /\ canAttack(tried, tried.positions[last], last, K)
  BY <1>3 DEF lastMovedAttacks, isEmpty, getPieceTypeAtPosition
<1>6. lastMovedAttacks(b, tried, m, K) <=>
        \E s \in {last} \cap Squares :
           /\ tried.positions[s] \in SideTypes(~black)
           /\ canAttack(tried, tried.positions[s], s, K)
  BY <1>4, <1>5
<1> QED
  BY <1>6 DEF tried, K

\* The king of the mover after a generated move.
LEMMA OwnKingAfter ==
  ASSUME NEW b, BoardOK(b), KingsCached(b), NEW black \in BOOLEAN,
         NEW m, MoveOK(b, m), m.fromType \in SideTypes(black)
  PROVE  /\ kingPosition(apply(b, m), black) \in Squares
         /\ isBlack(m.fromType) = black
         /\ isKing(m.fromType) <=> m.fromType = kingOf(black)
<1>1. b \in Boards /\ m.to \in Squares /\ m.fromType \in Types
  BY DEF BoardOK, MoveOK, Moves
<1>2. b.blackKing \in Squares /\ b.whiteKing \in Squares
  BY <1>1, CachedAreUnique
<1>3. kingPosition(apply(b, m), black) \in Squares
  BY <1>1, <1>2, ApplyFacts DEF kingPosition
<1>4. isBlack(m.fromType) <=> black
  BY <1>1, TypeFacts, ColorFacts DEF SideTypes
<1>5. isBlack(m.fromType) \in BOOLEAN
  BY DEF isBlack
<1>6. isKing(m.fromType) <=> m.fromType = kingOf(black)
  BY TypeFacts DEF isKing, kingOf, SideTypes
<1> QED
  BY <1>3, <1>4, <1>5, <1>6

\* canMove decides exactly whether a generated move leaves the mover's own king
\* attacked, from a flag that says whether it is attacked now and a list that misses
\* at most the piece moved last.
LEMMA CanMoveExact ==
  ASSUME NEW b, BoardOK(b), KingsCached(b), NEW black \in BOOLEAN,
         EnPassantSafe(b, black), LastMoverOK(b, black),
         NEW src \in PiecesOf(b, black), NEW m \in getMoves(b, src),
         NEW checked \in BOOLEAN, checked <=> isChecked(b, black),
         NEW r, r.blackFirst \in BOOLEAN, ListOK(enemyList(r, black), b, black)
  PROVE  canMove(r, m, checked, b) <=> ~isChecked(makeMove(b, m), black)
<1> DEFINE tried == apply(b, m)
           K == kingPosition(tried, black)
           list == enemyList(r, black)
           lastHits == lastMovedAttacks(b, tried, m, K)
           listHits == checkChecked(r, tried, black = r.blackFirst)
           clear == noIndirectAttack(tried, m, K)
           checks == isChecked(tried, black)
           king == isKing(m.fromType)
<1>1. b \in Boards /\ EnPassantOK(b)
  BY DEF BoardOK
<1>2. src \in Squares /\ b.positions[src] \in SideTypes(black)
  BY <1>1, PiecesOfFacts
<1>3. MoveOK(b, m) /\ m.fromType \in SideTypes(black)
  <2>1. b.positions[src] \in PieceTypes
    BY <1>2 DEF SideTypes, PieceTypes
  <2>2. MoveOK(b, m) /\ m.from = src
    BY <1>1, <1>2, <2>1, GeneratedMoves
  <2> QED
    BY <1>2, <2>2 DEF MoveOK
<1>4. K \in Squares /\ isBlack(m.fromType) = black
  BY <1>3, OwnKingAfter
<1>5. isChecked(makeMove(b, m), black) <=> checks
  BY <1>1, <1>3, <1>4, MadeAndTried
<1>6. m.special # KING_CASTLING /\ b.lastMove.special # KING_CASTLING
  BY <1>3 DEF MoveOK, BoardOK
<1>7. canMove(r, m, checked, b) <=>
        /\ ~lastHits
        /\ IF checked \/ king THEN ~listHits ELSE clear
  BY <1>4, <1>6 DEF canMove, castledRookAttacks
<1>8. checks <=> listHits \/ lastHits
  <2>1. /\ tried \in Boards
        /\ \A s \in Squares : tried.positions[s] = TypeAfter(b, m, s)
    BY <1>1, <1>3, ApplyFacts
  <2>2. list \in SUBSET Pieces /\ \A p \in list : p.type \in SideTypes(~black)
    BY DEF ListOK
  <2>3. ASSUME NEW s \in Squares, tried.positions[s] \in SideTypes(~black)
        PROVE  s \in {b.lastMove.to} \/ \E p \in list : p.pos = s /\ p.type = tried.positions[s]
    <3>1. tried.positions[s] = b.positions[s]
      BY <1>1, <1>3, <2>1, <2>3, EnemiesAfter
    <3>2. s \in PiecesOf(b, ~black)
      BY <1>1, <2>3, <3>1, PiecesOfFacts
    <3> QED
      BY <3>1, <3>2 DEF ListOK
  <2> DEFINE lastHit == \E s \in {b.lastMove.to} \cap Squares :
                          /\ tried.positions[s] \in SideTypes(~black)
                          /\ canAttack(tried, tried.positions[s], s, K)
             listHit == \E p \in list : /\ getPieceTypeAtPosition(tried, p.pos) = p.type
                                        /\ canAttack(tried, p.type, p.pos, K)
  <2>4. lastHits <=> lastHit
    BY <1>3, LastMovedFacts
  <2>5. listHits <=> listHit
    BY CheckListFacts
  <2>6. checks <=> listHit \/ lastHit
    <3> HIDE DEF tried, list
    <3> QED
      BY <2>1, <2>2, <2>3, CheckedByList
  <2> HIDE DEF lastHit, listHit, lastHits, listHits, checks
  <2> QED
    BY <2>4, <2>5, <2>6
<1>9. ~checked /\ ~king => (clear <=> ~checks)
  BY OpenedAttackSeen, SeenIsAttack
<1> HIDE DEF lastHits, listHits, clear, checks, king
<1> QED
  BY <1>5, <1>7, <1>8, <1>9

----------------------------------------------------------------------------
(***************************************************************************)
(* Legal moves.                                                            *)
(***************************************************************************)

\* A generated move of a piece of one side.
LEMMA SideMove ==
  ASSUME NEW b, BoardOK(b), NEW black \in BOOLEAN, NEW s \in PiecesOf(b, black),
         NEW m \in getMoves(b, s)
  PROVE  MoveOK(b, m) /\ m.from = s /\ m.fromType \in SideTypes(black)
<1>1. b \in Boards /\ EnPassantOK(b)
  BY DEF BoardOK
<1>2. s \in Squares /\ b.positions[s] \in SideTypes(black)
  BY <1>1, PiecesOfFacts
<1>3. b.positions[s] \in PieceTypes
  BY <1>2 DEF SideTypes, PieceTypes
<1>4. MoveOK(b, m) /\ m.from = s
  BY <1>1, <1>2, <1>3, GeneratedMoves
<1> QED
  BY <1>2, <1>4 DEF MoveOK

\* No king is taken when the side that does not move is not in check.
LEMMA NoKingTaken ==
  ASSUME NEW b, BoardOK(b), KingsCached(b), NEW black \in BOOLEAN,
         ~isChecked(b, ~black), NEW s \in PiecesOf(b, black), NEW m \in getMoves(b, s)
  PROVE  m.toType # B_KING /\ m.toType # W_KING
<1>1. b \in Boards
  BY DEF BoardOK
<1>2. MoveOK(b, m) /\ m.from = s /\ m.fromType \in SideTypes(black)
  BY SideMove
<1>3. /\ m.to \in Squares /\ m.toType = b.positions[m.to] /\ m.fromType \in Types
      /\ ~isSameColor(m.fromType, m.toType)
  BY <1>2 DEF MoveOK, Moves
<1>4. m.toType # kingOf(black)
  BY <1>2, <1>3, TypeFacts, ColorFacts DEF SideTypes, kingOf
<1>5. ASSUME m.toType = kingOf(~black)
      PROVE  FALSE
  <2>1. m.to = kingPosition(b, ~black)
    BY <1>1, <1>3, <1>5, KingFacts
  <2>2. b.positions[m.to] \in SideTypes(~black)
    BY <1>3, <1>5, TypeFacts DEF kingOf, SideTypes
  <2>3. m.to \in PiecesOf(b, ~black)
    BY <1>1, <1>3, <2>2, PiecesOfFacts
  <2>4. canAttack(b, b.positions[s], s, m.to)
    BY <1>1, <2>3, AttackIsCapture
  <2>5. s \in Squares /\ b.positions[s] \in SideTypes(~(~black))
    BY <1>1, PiecesOfFacts DEF SideTypes
  <2> QED
    BY <1>1, <2>1, <2>4, <2>5, CheckedFacts
<1> QED
  BY <1>4, <1>5 DEF kingOf

\* One king's square after a move that takes no king.
LEMMA KingKept ==
  ASSUME NEW b \in Boards, NEW m, MoveOK(b, m), NEW king \in {B_KING, W_KING},
         NEW pos, {s \in Squares : b.positions[s] = king} = {pos}, m.toType # king
  PROVE  {s \in Squares : TypeAfter(b, m, s) = king}
           = {IF m.fromType = king THEN m.to ELSE pos}
<1>1. /\ m.from \in Squares /\ m.to \in Squares /\ m.to # m.from
      /\ m.fromType = b.positions[m.from] /\ m.toType = b.positions[m.to]
  BY DEF MoveOK
<1>2. newType(m) = king <=> m.fromType = king
  BY NewTypeFacts
<1>3. EMPTY # king
  BY TypeFacts
<1>4. ASSUME m.special = PAWN_EN_PASSANT
      PROVE  b.positions[enPassantPos(m)] # king
  <2>1. /\ b.positions[enPassantPos(m)] = enPassantPawn(m)
        /\ enPassantPawn(m) \in Pawns
    BY <1>4, TakenFacts
  <2> QED
    BY <2>1, TypeFacts DEF Pawns
<1>5. \A s \in Squares : b.positions[s] = king <=> s = pos
  OBVIOUS
<1>6. pos \in Squares
  OBVIOUS
<1>7. ASSUME NEW s \in Squares
      PROVE  TypeAfter(b, m, s) = king <=> s = IF m.fromType = king THEN m.to ELSE pos
  <2> DEFINE ep == m.special = PAWN_EN_PASSANT /\ s = enPassantPos(m)
  <2>1. ep => b.positions[s] # king
    BY <1>4
  <2>2. TypeAfter(b, m, s) = IF s = m.to THEN newType(m)
                             ELSE IF s = m.from \/ ep THEN EMPTY ELSE b.positions[s]
    BY DEF TypeAfter
  <2> HIDE DEF ep
  <2> QED
    BY <1>1, <1>2, <1>3, <1>5, <2>1, <2>2
<1> QED
  BY <1>1, <1>6, <1>7

\* A move that leaves the mover's king unattacked, made when the other king was
\* unattacked, keeps everything that the move tests rely on.
LEMMA LegalMoveKeeps ==
  ASSUME NEW b, BoardOK(b), KingsCached(b), NEW black \in BOOLEAN,
         ~isChecked(b, ~black), NEW s \in PiecesOf(b, black), NEW m \in getMoves(b, s)
  PROVE  /\ KingsCached(makeMove(b, m))
         /\ EnPassantSafe(makeMove(b, m), ~black)
         /\ LastMoverOK(makeMove(b, m), ~black)
<1> DEFINE nb == makeMove(b, m)
<1>1. b \in Boards /\ KingsUnique(b)
  BY DEF BoardOK
<1>2. MoveOK(b, m) /\ m.fromType \in SideTypes(black)
  BY SideMove
<1>3. /\ nb \in Boards /\ nb.lastMove = m
      /\ nb.positions = apply(b, m).positions
      /\ nb.blackKing = apply(b, m).blackKing
      /\ nb.whiteKing = apply(b, m).whiteKing
      /\ \A q \in Squares : nb.positions[q] = TypeAfter(b, m, q)
      /\ nb.blackKing = IF m.fromType = B_KING THEN m.to ELSE b.blackKing
      /\ nb.whiteKing = IF m.fromType = W_KING THEN m.to ELSE b.whiteKing
  BY <1>1, <1>2, MakeMoveFacts, ApplyFacts
<1> HIDE DEF nb
<1>4. KingsCached(nb)
  <2>1. m.toType # B_KING /\ m.toType # W_KING
    BY NoKingTaken
  <2>2. /\ {q \in Squares : b.positions[q] = B_KING} = {b.blackKing}
        /\ {q \in Squares : b.positions[q] = W_KING} = {b.whiteKing}
    BY DEF KingsCached, getPieceTypeAtPosition
  <2>3. {q \in Squares : TypeAfter(b, m, q) = B_KING} = {nb.blackKing}
    BY <1>1, <1>2, <1>3, <2>1, <2>2, KingKept
  <2>4. {q \in Squares : TypeAfter(b, m, q) = W_KING} = {nb.whiteKing}
    BY <1>1, <1>2, <1>3, <2>1, <2>2, KingKept
  <2> QED
    BY <1>3, <2>3, <2>4 DEF KingsCached, getPieceTypeAtPosition
<1>5. EnPassantSafe(nb, ~black)
  <2> DEFINE prev == undo(nb, m)
  <2>1. /\ prev \in Boards /\ \A q \in Squares : prev.positions[q] = b.positions[q]
        /\ prev.blackKing = b.blackKing /\ prev.whiteKing = b.whiteKing
    BY <1>1, <1>2, <1>3, UndoInverts
  <2>2. kingPosition(b, ~black) \in Squares
    BY <1>1, KingFacts
  <2> HIDE DEF prev
  <2>3. kingPosition(b, ~black) = kingPosition(prev, ~black)
    BY <2>1 DEF kingPosition
  <2>4. (~black) \in BOOLEAN
    OBVIOUS
  <2>5. isChecked(b, ~black) <=> isChecked(prev, ~black)
    BY <1>1, <2>1, <2>2, <2>3, <2>4, SameChecks
  <2> QED
    BY <1>3, <2>5 DEF EnPassantSafe, prev
<1>6. LastMoverOK(nb, ~black)
  <2>1. m.to \in Squares
    BY <1>2 DEF MoveOK
  <2>2. TypeAfter(b, m, m.to) \in SideTypes(black)
    BY <1>1, <1>2, <2>1, EnemiesAfter
  <2> QED
    BY <1>3, <2>1, <2>2 DEF LastMoverOK
<1> QED
  BY <1>4, <1>5, <1>6 DEF nb

----------------------------------------------------------------------------
(***************************************************************************)
(* What a move keeps of the last move.                                     *)
(***************************************************************************)

\* Boards with the same squares: their generated moves differ by captures en
\* passant only.
LEMMA SameTargets ==
  ASSUME NEW b, NEW c, b.positions = c.positions, NEW src, NEW steps
  PROVE  /\ NormalMoves(b, src, LineTargets(b, src, steps))
              = NormalMoves(c, src, LineTargets(c, src, steps))
         /\ NormalMoves(b, src, StepTargets(b, src, steps))
              = NormalMoves(c, src, StepTargets(c, src, steps))
<1>1. \A pos, type : canPlace(b, type, pos) <=> canPlace(c, type, pos)
  BY DEF canPlace, getPieceTypeAtPosition
<1>2. \A step, n : ClearTo(b, src, step, n) <=> ClearTo(c, src, step, n)
  BY DEF ClearTo, isEmpty, getPieceTypeAtPosition
<1>3. \A tgt : newMove(b, NORMAL_MOVE, src, tgt) = newMove(c, NORMAL_MOVE, src, tgt)
  BY DEF newMove, getPieceTypeAtPosition
<1>4. LineTargets(b, src, steps) = LineTargets(c, src, steps)
  BY <1>1, <1>2 DEF LineTargets, getPieceTypeAtPosition
<1>5. StepTargets(b, src, steps) = StepTargets(c, src, steps)
  BY <1>1 DEF StepTargets, getPieceTypeAtPosition
<1>6. \A targets : NormalMoves(b, src, targets) = NormalMoves(c, src, targets)
  BY <1>3 DEF NormalMoves
<1> QED
  BY <1>4, <1>5, <1>6

\* The last move matters to pawns for captures en passant only.
LEMMA SamePawnMoves ==
  ASSUME NEW b, NEW c, b.positions = c.positions, c.lastMove = noMove,
         NEW src, NEW dir, NEW home, NEW lastRow, NEW epRow,
         NEW other \in Pawns, NEW otherHome
  PROVE  PawnMoves(c, src, dir, home, lastRow, epRow, other, otherHome)
           = {m \in PawnMoves(b, src, dir, home, lastRow, epRow, other, otherHome) :
                m.special # PAWN_EN_PASSANT}
<1> DEFINE one   == <<src[1] + dir, src[2]>>
           two   == <<src[1] + 2 * dir, src[2]>>
           sides == {<<src[1] + dir, src[2] - 1>>, <<src[1] + dir, src[2] + 1>>}
           kinds == IF src[1] + dir # lastRow THEN {NORMAL_MOVE}
                                              ELSE {QUEEN_PROMOTION, KNIGHT_PROMOTION}
           plain(a, m) ==
             \/ /\ canPlace(a, a.positions[src], one) /\ a.positions[one] = EMPTY
                /\ \E sp \in kinds : m = newMove(a, sp, src, one)
             \/ /\ src[1] = home /\ a.positions[one] = EMPTY /\ a.positions[two] = EMPTY
                /\ m = newMove(a, NORMAL_MOVE, src, two)
             \/ \E t \in sides : /\ canPlace(a, a.positions[src], t) /\ a.positions[t] # EMPTY
                                 /\ \E sp \in kinds : m = newMove(a, sp, src, t)
           passing(a, m) ==
             /\ src[1] = epRow /\ doubleStepped(a.lastMove, other, otherHome, epRow)
             /\ \E t \in sides : /\ a.lastMove.from[2] = t[2]
                                 /\ m = newMove(a, PAWN_EN_PASSANT, src, t)
           moves(a) == PawnMoves(a, src, dir, home, lastRow, epRow, other, otherHome)
<1> HIDE DEF one, two, sides
<1>1. ASSUME NEW a, NEW m
      PROVE  m \in moves(a) <=> plain(a, m) \/ passing(a, m)
  <2>1. PawnMove(a, src, dir, home, lastRow, epRow, other, otherHome, m)
          <=> plain(a, m) \/ passing(a, m)
    BY DEF PawnMove, one, two, sides
  <2> HIDE DEF plain, passing
  <2> QED
    BY <2>1, PawnMoveKinds
<1>2. /\ \A pos, type : canPlace(b, type, pos) <=> canPlace(c, type, pos)
      /\ \A sp, tgt : newMove(b, sp, src, tgt) = newMove(c, sp, src, tgt)
  BY DEF canPlace, newMove, getPieceTypeAtPosition
<1>3. \A sp, tgt : newMove(b, sp, src, tgt).special = sp
  BY DEF newMove
<1>4. \A m : plain(c, m) <=> plain(b, m)
  <2> HIDE DEF kinds
  <2> QED
    BY <1>2
<1>5. \A m : plain(b, m) => m.special # PAWN_EN_PASSANT
  BY <1>3, SpecialFacts
<1>6. \A m : passing(b, m) => m.special = PAWN_EN_PASSANT
  BY <1>3
<1>7. \A m : ~passing(c, m)
  <2>1. noMove.fromType # W_PAWN /\ noMove.fromType # B_PAWN
    BY TypeFacts DEF noMove
  <2> QED
    BY <2>1 DEF Pawns, doubleStepped
<1> HIDE DEF plain, passing
<1>8. \A m : m \in moves(c) <=> m \in moves(b) /\ m.special # PAWN_EN_PASSANT
  BY <1>1, <1>4, <1>5, <1>6, <1>7
<1> HIDE DEF moves
<1>9. moves(c) = {m \in moves(b) : m.special # PAWN_EN_PASSANT}
  BY <1>8
<1> QED
  BY <1>9 DEF moves

\* The last move matters to the generated moves for captures en passant only.
LEMMA MovesWithoutLast ==
  ASSUME NEW b \in Boards, NEW c \in Boards, b.positions = c.positions,
         c.lastMove = noMove, NEW src \in Squares, b.positions[src] \in PieceTypes
  PROVE  getMoves(c, src) = {m \in getMoves(b, src) : m.special # PAWN_EN_PASSANT}
<1> DEFINE type == b.positions[src]
<1>1. c.positions[src] = type /\ type \in PieceTypes
  OBVIOUS
<1>2. ASSUME NEW targets
      PROVE  \A m \in NormalMoves(b, src, targets) : m.special # PAWN_EN_PASSANT
  <2>1. \A tgt : newMove(b, NORMAL_MOVE, src, tgt).special = NORMAL_MOVE
    BY DEF newMove
  <2> QED
    BY <2>1, SpecialFacts DEF NormalMoves
<1> HIDE DEF type
<1>3. CASE type \in {W_ROOK, B_ROOK}
  BY <1>1, <1>2, <1>3, GetMovesFacts, SameTargets DEF type
<1>4. CASE type \in {W_BISHOP, B_BISHOP}
  BY <1>1, <1>2, <1>4, GetMovesFacts, SameTargets DEF type
<1>5. CASE type \in {W_QUEEN, B_QUEEN}
  BY <1>1, <1>2, <1>5, GetMovesFacts, SameTargets DEF type
<1>6. CASE type \in {W_KNIGHT, B_KNIGHT}
  BY <1>1, <1>2, <1>6, GetMovesFacts, SameTargets DEF type
<1>7. CASE type \in {W_KING, B_KING}
  BY <1>1, <1>2, <1>7, GetMovesFacts, SameTargets DEF type
<1>8. CASE type = W_PAWN
  <2>1. getMoves(b, src) = WPawnMoves(b, src) /\ getMoves(c, src) = WPawnMoves(c, src)
    BY <1>1, <1>8, GetMovesFacts DEF type
  <2>2. B_PAWN \in Pawns
    BY DEF Pawns
  <2>3. WPawnMoves(c, src) = {m \in WPawnMoves(b, src) : m.special # PAWN_EN_PASSANT}
    BY <2>2, SamePawnMoves DEF WPawnMoves
  <2> QED
    BY <2>1, <2>3
<1>9. CASE type = B_PAWN
  <2>1. getMoves(b, src) = BPawnMoves(b, src) /\ getMoves(c, src) = BPawnMoves(c, src)
    BY <1>1, <1>9, GetMovesFacts DEF type
  <2>2. W_PAWN \in Pawns
    BY DEF Pawns
  <2>3. BPawnMoves(c, src) = {m \in BPawnMoves(b, src) : m.special # PAWN_EN_PASSANT}
    BY <2>2, SamePawnMoves DEF BPawnMoves
  <2> QED
    BY <2>1, <2>3
<1> QED
  BY <1>1, <1>3, <1>4, <1>5, <1>6, <1>7, <1>8, <1>9, TypeFacts

----------------------------------------------------------------------------
(***************************************************************************)
(* The moves that Board::makeMove(pos, newPos, ...) reconstructs.          *)
(***************************************************************************)

Promotions == {QUEEN_PROMOTION, KNIGHT_PROMOTION}

\* A generated move is what the constructor of Move makes of its squares.
LEMMA MoveIsNew ==
  ASSUME NEW b \in Boards, NEW m, MoveOK(b, m)
  PROVE  m = newMove(b, m.special, m.from, m.to)
BY DEF MoveOK, Moves, newMove, getPieceTypeAtPosition

\* What the squares of a pawn move tell of its kind.
LEMMA PawnKinds ==
  ASSUME NEW b \in Boards, NEW src \in Squares, NEW dir, NEW home, NEW lastRow,
         NEW epRow, NEW other, NEW otherHome,
         \/ dir = 1 /\ home = 1 /\ lastRow = 7 /\ epRow = 4
         \/ dir = -1 /\ home = 6 /\ lastRow = 0 /\ epRow = 3,
         NEW m, PawnMove(b, src, dir, home, lastRow, epRow, other, otherHome, m)
  PROVE  /\ m.special \in Promotions <=> m.to[1] = lastRow
         /\ m.special \in Promotions => \A sp \in Promotions :
              PawnMove(b, src, dir, home, lastRow, epRow, other, otherHome,
                       newMove(b, sp, src, m.to))
         /\ m.special \in Promotions \/ m.special \in {NORMAL_MOVE, PAWN_EN_PASSANT}
         /\ m.special = PAWN_EN_PASSANT => m.to[2] # src[2]
         /\ m.special = NORMAL_MOVE => m.to[2] = src[2] \/ b.positions[m.to] # EMPTY
<1> DEFINE row   == src[1] + dir
           one   == <<row, src[2]>>
           two   == <<src[1] + 2 * dir, src[2]>>
           sides == {<<row, src[2] - 1>>, <<row, src[2] + 1>>}
           kinds == IF row # lastRow THEN {NORMAL_MOVE} ELSE Promotions
           place(t) == canPlace(b, b.positions[src], t)
           Is(x) == PawnMove(b, src, dir, home, lastRow, epRow, other, otherHome, x)
<1>1. src[1] \in 0 .. 7 /\ src[2] \in 0 .. 7 /\ row \in Int
  BY SquareFacts
<1>2. \A sp, tgt : newMove(b, sp, src, tgt).special = sp /\ newMove(b, sp, src, tgt).to = tgt
  BY DEF newMove
<1>3. \A x : Is(x) <=>
        \/ /\ place(one) /\ b.positions[one] = EMPTY
           /\ \E sp \in kinds : x = newMove(b, sp, src, one)
        \/ /\ src[1] = home /\ b.positions[one] = EMPTY /\ b.positions[two] = EMPTY
           /\ x = newMove(b, NORMAL_MOVE, src, two)
        \/ \E t \in sides : /\ place(t) /\ b.positions[t] # EMPTY
                            /\ \E sp \in kinds : x = newMove(b, sp, src, t)
        \/ /\ src[1] = epRow /\ doubleStepped(b.lastMove, other, otherHome, epRow)
           /\ \E t \in sides : /\ b.lastMove.from[2] = t[2]
                               /\ x = newMove(b, PAWN_EN_PASSANT, src, t)
  BY DEF PawnMove, Promotions
<1>4. /\ one[1] = row /\ one[2] = src[2] /\ two[2] = src[2]
      /\ \A t \in sides : t[1] = row /\ t[2] # src[2]
      /\ src[1] = home => two[1] # lastRow
      /\ src[1] = epRow => row # lastRow
  BY <1>1
<1>5. /\ NORMAL_MOVE \notin Promotions /\ PAWN_EN_PASSANT \notin Promotions
      /\ NORMAL_MOVE # PAWN_EN_PASSANT
  BY SpecialFacts DEF Promotions
<1>6. \A sp \in kinds : sp \in Promotions <=> row = lastRow
  BY <1>5
<1>7. row = lastRow => kinds = Promotions
  OBVIOUS
<1>8. \A sp \in kinds : sp \in Promotions \/ sp = NORMAL_MOVE
  OBVIOUS
<1>9. Is(m)
  OBVIOUS
<1> HIDE DEF one, two, sides, kinds, row, place, Is, Promotions
<1>10. CASE place(one) /\ b.positions[one] = EMPTY
            /\ \E sp \in kinds : m = newMove(b, sp, src, one)
  BY <1>2, <1>3, <1>4, <1>5, <1>6, <1>7, <1>8, <1>10 DEF Is
<1>11. CASE /\ src[1] = home /\ b.positions[one] = EMPTY /\ b.positions[two] = EMPTY
            /\ m = newMove(b, NORMAL_MOVE, src, two)
  BY <1>2, <1>4, <1>5, <1>11
<1>12. CASE \E t \in sides : /\ place(t) /\ b.positions[t] # EMPTY
                             /\ \E sp \in kinds : m = newMove(b, sp, src, t)
  <2>1. PICK t \in sides : /\ place(t) /\ b.positions[t] # EMPTY
                           /\ \E sp \in kinds : m = newMove(b, sp, src, t)
    BY <1>12
  <2>2. PICK sp \in kinds : m = newMove(b, sp, src, t)
    BY <2>1
  <2>3. m.special = sp /\ m.to = t /\ t[1] = row
    BY <1>2, <1>4, <2>2
  <2>4. row = lastRow => \A k \in Promotions : Is(newMove(b, k, src, t))
    BY <1>3, <1>7, <2>1
  <2> QED
    BY <1>5, <1>6, <1>8, <2>1, <2>3, <2>4 DEF Is
<1>13. CASE /\ src[1] = epRow
            /\ \E t \in sides : /\ b.lastMove.from[2] = t[2]
                                /\ m = newMove(b, PAWN_EN_PASSANT, src, t)
  BY <1>2, <1>4, <1>5, <1>13
<1> QED
  BY <1>3, <1>9, <1>10, <1>11, <1>12, <1>13

\* The special type of a generated move follows from its squares, except for the
\* choice of the promotion and for the en passant captures of white pawns.
LEMMA Reconstructed ==
  ASSUME NEW b, BoardOK(b), NEW black \in BOOLEAN, NEW src \in PiecesOf(b, black),
         NEW m \in getMoves(b, src),
         m.special = PAWN_EN_PASSANT => m.fromType # W_PAWN
  PROVE  /\ isPromotion(b, src, m.to) <=> m.special \in Promotions
         /\ isPromotion(b, src, m.to) =>
              /\ specialOf(b, src, m.to) = QUEEN_PROMOTION
              /\ \A sp \in Promotions : newMove(b, sp, src, m.to) \in getMoves(b, src)
         /\ ~isPromotion(b, src, m.to) => specialOf(b, src, m.to) = m.special
<1> DEFINE type == b.positions[src]
           promo == isPromotion(b, src, m.to)
           passing == isEnpassantMove(b, src, m.to)
<1>1. b \in Boards /\ src \in Squares /\ type \in PieceTypes
  BY PiecesOfFacts DEF BoardOK, SideTypes, PieceTypes
<1>2. MoveOK(b, m) /\ m.from = src
  BY SideMove
<1>3. /\ m.fromType = type /\ m.toType = b.positions[m.to] /\ m.special \in SpecialTypes
      /\ m.special # NORMAL_MOVE => type \in Pawns
      /\ m.special = PAWN_EN_PASSANT => b.positions[m.to] = EMPTY
      /\ m.special # KING_CASTLING
  BY <1>2 DEF MoveOK, Moves
<1>4. ~isCastlingMove(b, src, m.to)
  BY TypeFacts DEF isCastlingMove, getPieceTypeAtPosition
<1>5. /\ promo => specialOf(b, src, m.to) = QUEEN_PROMOTION
      /\ ~promo /\ passing => specialOf(b, src, m.to) = PAWN_EN_PASSANT
      /\ ~promo /\ ~passing => specialOf(b, src, m.to) = NORMAL_MOVE
  BY <1>4 DEF specialOf
<1>6. /\ promo <=> \/ type = B_PAWN /\ m.to[1] = 0
                   \/ type = W_PAWN /\ m.to[1] = 7
      /\ passing <=> type = B_PAWN /\ m.to[2] # src[2] /\ b.positions[m.to] = EMPTY
  BY DEF isPromotion, isEnpassantMove, isEmpty, getPieceTypeAtPosition, BOARD_SIZE
<1>7. /\ NORMAL_MOVE \notin Promotions /\ PAWN_EN_PASSANT \notin Promotions
      /\ NORMAL_MOVE # PAWN_EN_PASSANT
  BY SpecialFacts DEF Promotions
<1> HIDE DEF type, promo, passing
<1>8. CASE type \notin Pawns
  BY <1>3, <1>5, <1>6, <1>7, <1>8 DEF Pawns, promo
<1>9. CASE type = W_PAWN
  <2>1. getMoves(b, src) = WPawnMoves(b, src)
    BY <1>1, <1>9, GetMovesFacts DEF type
  <2> DEFINE Is(x) == PawnMove(b, src, 1, 1, 7, 4, B_PAWN, 6, x)
  <2>2. \A x : x \in getMoves(b, src) <=> Is(x)
    BY <2>1, PawnMoveKinds DEF WPawnMoves
  <2>3. Is(m)
    BY <2>2
  <2>4. /\ m.special \in Promotions <=> m.to[1] = 7
        /\ m.special \in Promotions => \A sp \in Promotions : Is(newMove(b, sp, src, m.to))
        /\ m.special \in Promotions \/ m.special \in {NORMAL_MOVE, PAWN_EN_PASSANT}
    BY <1>1, <2>3, PawnKinds
  <2> HIDE DEF Is
  <2>5. W_PAWN # B_PAWN
    BY TypeFacts
  <2> QED
    BY <1>3, <1>5, <1>6, <1>7, <1>9, <2>2, <2>4, <2>5 DEF promo
<1>10. CASE type = B_PAWN
  <2>1. getMoves(b, src) = BPawnMoves(b, src)
    BY <1>1, <1>10, GetMovesFacts DEF type
  <2> DEFINE Is(x) == PawnMove(b, src, -1, 6, 0, 3, W_PAWN, 1, x)
  <2>2. \A x : x \in getMoves(b, src) <=> Is(x)
    BY <2>1, PawnMoveKinds DEF BPawnMoves
  <2>3. Is(m)
    BY <2>2
  <2>4. /\ m.special \in Promotions <=> m.to[1] = 0
        /\ m.special \in Promotions => \A sp \in Promotions : Is(newMove(b, sp, src, m.to))
        /\ m.special \in Promotions \/ m.special \in {NORMAL_MOVE, PAWN_EN_PASSANT}
        /\ m.special = PAWN_EN_PASSANT => m.to[2] # src[2]
        /\ m.special = NORMAL_MOVE => m.to[2] = src[2] \/ b.positions[m.to] # EMPTY
    BY <1>1, <2>3, PawnKinds
  <2> HIDE DEF Is
  <2>5. W_PAWN # B_PAWN
    BY TypeFacts
  <2> QED
    BY <1>3, <1>5, <1>6, <1>7, <1>10, <2>2, <2>4, <2>5 DEF promo
<1> QED
  BY <1>8, <1>9, <1>10 DEF Pawns

\* Two boards with the same squares.
LEMMA SamePositions ==
  ASSUME NEW b \in Boards, NEW c \in Boards,
         \A s \in Squares : b.positions[s] = c.positions[s]
  PROVE  b.positions = c.positions
BY BoardFields

\* The two promotions of a pawn move: getNextStates makes the boards of both from
\* the board of the first, and both leave the king equally safe.
LEMMA PromotionVariants ==
  ASSUME NEW b, BoardOK(b), KingsCached(b), NEW black \in BOOLEAN,
         NEW src, NEW to, NEW mq, NEW mk,
         mq = newMove(b, QUEEN_PROMOTION, src, to), MoveOK(b, mq),
         mk = newMove(b, KNIGHT_PROMOTION, src, to), MoveOK(b, mk),
         b.positions[src] \in SideTypes(black)
  PROVE  LET next == makeMove(b, mq)
             fromType == next.lastMove.fromType
         IN  /\ set(next, getSameQueenType(fromType), to).positions = next.positions
             /\ set(next, getSameKnightType(fromType), to).positions
                  = makeMove(b, mk).positions
             /\ isChecked(next, black) <=> isChecked(makeMove(b, mk), black)
<1> DEFINE next == makeMove(b, mq)
           other == makeMove(b, mk)
           pawn == b.positions[src]
           queen == getSameQueenType(pawn)
           knight == getSameKnightType(pawn)
           asQueen == set(next, queen, to)
           asKnight == set(next, knight, to)
<1>1. b \in Boards
  BY DEF BoardOK
<1>2. /\ mq.special = QUEEN_PROMOTION /\ mk.special = KNIGHT_PROMOTION
      /\ mq.from = src /\ mk.from = src /\ mq.to = to /\ mk.to = to
      /\ mq.fromType = pawn /\ mk.fromType = pawn
  BY DEF newMove, getPieceTypeAtPosition
<1>3. /\ next \in Boards /\ other \in Boards /\ next.lastMove = mq
      /\ \A s \in Squares : next.positions[s] = TypeAfter(b, mq, s)
      /\ \A s \in Squares : other.positions[s] = TypeAfter(b, mk, s)
      /\ next.blackKing = apply(b, mq).blackKing /\ next.whiteKing = apply(b, mq).whiteKing
      /\ other.blackKing = apply(b, mk).blackKing /\ other.whiteKing = apply(b, mk).whiteKing
  BY <1>1, MakeMoveFacts
<1>4. newType(mq) = queen /\ newType(mk) = knight
  BY <1>2, SpecialFacts DEF newType
<1>5. queen \in Types /\ knight \in Types /\ to \in Squares
  <2>1. to \in Squares
    BY <1>2 DEF MoveOK
  <2> QED
    BY <2>1, TypeFacts DEF getSameQueenType, getSameKnightType
<1>6. /\ next.blackKing = other.blackKing /\ next.whiteKing = other.whiteKing
      /\ kingPosition(apply(b, mq), black) \in Squares
  <2>1. kingPosition(apply(b, mq), black) \in Squares
    BY <1>2, OwnKingAfter
  <2> QED
    BY <1>1, <1>2, <1>3, <2>1, ApplyFacts
<1>7. \A s \in Squares :
        /\ TypeAfter(b, mq, s) = IF s = to THEN queen
                                 ELSE IF s = src THEN EMPTY ELSE b.positions[s]
        /\ TypeAfter(b, mk, s) = IF s = to THEN knight
                                 ELSE IF s = src THEN EMPTY ELSE b.positions[s]
  BY <1>2, <1>4, SpecialFacts DEF TypeAfter
<1> HIDE DEF next, other, queen, knight, pawn
<1>8. /\ IsSet(next, queen, to, asQueen) /\ IsSet(next, knight, to, asKnight)
  BY <1>3, <1>5, SetFacts
<1> HIDE DEF asQueen, asKnight
<1>9. asQueen.positions = next.positions
  <2>1. asQueen \in Boards /\ \A s \in Squares : asQueen.positions[s] = next.positions[s]
    BY <1>3, <1>7, <1>8 DEF IsSet
  <2> QED
    BY <1>3, <2>1, SamePositions
<1>10. asKnight.positions = other.positions
  <2>1. asKnight \in Boards /\ \A s \in Squares : asKnight.positions[s] = other.positions[s]
    BY <1>3, <1>7, <1>8 DEF IsSet
  <2> QED
    BY <1>3, <2>1, SamePositions
<1>11. isChecked(next, black) <=> isChecked(other, black)
  <2>1. /\ queen \in SideTypes(black) /\ knight \in SideTypes(black)
        /\ SideTypes(black) \cap SideTypes(~black) = {}
        /\ EMPTY \notin SideTypes(black)
    BY TypeFacts DEF SideTypes, queen, knight, pawn, getSameQueenType, getSameKnightType,
                     isBlack
  <2>2. kingPosition(next, black) = kingPosition(other, black)
    BY <1>6 DEF kingPosition
  <2>3. kingPosition(next, black) \in Squares
    BY <1>3, <1>6 DEF kingPosition
  <2>4. \A s \in Squares : next.positions[s] = EMPTY <=> other.positions[s] = EMPTY
    BY <1>3, <1>7, <2>1
  <2>5. \A s \in Squares : \/ next.positions[s] \in SideTypes(~black)
                           \/ other.positions[s] \in SideTypes(~black)
                           => next.positions[s] = other.positions[s]
    BY <1>3, <1>7, <2>1
  <2> QED
    BY <1>3, <2>2, <2>3, <2>4, <2>5, SameChecks
<1>12. next.lastMove.fromType = pawn
  BY <1>2, <1>3
<1> QED
  BY <1>9, <1>10, <1>11, <1>12 DEF next, other, asQueen, asKnight, queen, knight

\* The successors that Piece::getNextStates yields for one piece.
LEMMA NextStatesOf ==
  ASSUME NEW b, BoardOK(b), KingsCached(b), NEW black \in BOOLEAN,
         NEW src \in PiecesOf(b, black),
         \A m \in getMoves(b, src) : m.special = PAWN_EN_PASSANT => m.fromType # W_PAWN
  PROVE  {nb.positions : nb \in getNextStates(b, src)}
           = {makeMove(b, m).positions :
                m \in {x \in getMoves(b, src) : ~isChecked(makeMove(b, x), black)}}
<1> DEFINE moves == getMoves(b, src)
           next(to) == makeMoveTo(b, src, to)
           promo(to) == isPromotion(b, src, to)
           queen(to) == set(next(to), getSameQueenType(next(to).lastMove.fromType), to)
           knight(to) == set(next(to), getSameKnightType(next(to).lastMove.fromType), to)
           legal == {x \in moves : ~isChecked(makeMove(b, x), black)}
           states == getNextStates(b, src)
<1>1. b \in Boards /\ src \in Squares /\ b.positions[src] \in SideTypes(black)
  BY PiecesOfFacts DEF BoardOK
<1>2. isBlack(getPieceTypeAtPosition(b, src)) = black
  <2>1. isBlack(b.positions[src]) <=> black
    BY <1>1, TypeFacts, ColorFacts DEF SideTypes
  <2>2. isBlack(b.positions[src]) \in BOOLEAN
    BY DEF isBlack
  <2> QED
    BY <2>1, <2>2 DEF getPieceTypeAtPosition
<1>3. ASSUME NEW nb
      PROVE  nb \in states <=>
               \E m \in moves : /\ ~isChecked(next(m.to), black)
                                /\ \/ promo(m.to) /\ nb \in {queen(m.to), knight(m.to)}
                                   \/ ~promo(m.to) /\ nb = next(m.to)
  BY <1>2 DEF getNextStates
<1>4. ASSUME NEW m \in moves, ~promo(m.to)
      PROVE  next(m.to) = makeMove(b, m)
  <2>1. specialOf(b, src, m.to) = m.special
    BY <1>4, Reconstructed
  <2>2. m = newMove(b, m.special, src, m.to)
    BY <1>1, SideMove, MoveIsNew
  <2> QED
    BY <2>1, <2>2 DEF makeMoveTo
<1>5. ASSUME NEW m \in moves, promo(m.to)
      PROVE  \E mq, mk \in moves :
               /\ m = mq \/ m = mk
               /\ next(m.to) = makeMove(b, mq)
               /\ queen(m.to).positions = makeMove(b, mq).positions
               /\ knight(m.to).positions = makeMove(b, mk).positions
               /\ isChecked(makeMove(b, mq), black) <=> isChecked(makeMove(b, mk), black)
  <2> DEFINE mq == newMove(b, QUEEN_PROMOTION, src, m.to)
             mk == newMove(b, KNIGHT_PROMOTION, src, m.to)
  <2>1. m.special \in Promotions /\ specialOf(b, src, m.to) = QUEEN_PROMOTION
    BY <1>5, Reconstructed
  <2>2. mq \in moves /\ mk \in moves
    <3>1. \A sp \in Promotions : newMove(b, sp, src, m.to) \in moves
      BY <1>5, Reconstructed
    <3> QED
      BY <3>1 DEF Promotions
  <2>3. m = mq \/ m = mk
    <3>1. m = newMove(b, m.special, src, m.to)
      BY <1>1, SideMove, MoveIsNew
    <3> QED
      BY <2>1, <3>1 DEF Promotions
  <2>4. next(m.to) = makeMove(b, mq)
    BY <2>1 DEF makeMoveTo
  <2>5. MoveOK(b, mq) /\ MoveOK(b, mk)
    BY <2>2, SideMove
  <2>6. /\ queen(m.to).positions = makeMove(b, mq).positions
        /\ knight(m.to).positions = makeMove(b, mk).positions
        /\ isChecked(makeMove(b, mq), black) <=> isChecked(makeMove(b, mk), black)
    BY <1>1, <2>4, <2>5, PromotionVariants
  <2> QED
    BY <2>2, <2>3, <2>4, <2>6
<1> HIDE DEF moves, next, promo, queen, knight, states
<1>6. ASSUME NEW nb \in states
      PROVE  \E m \in legal : nb.positions = makeMove(b, m).positions
  <2>1. PICK m \in moves : /\ ~isChecked(next(m.to), black)
                           /\ \/ promo(m.to) /\ nb \in {queen(m.to), knight(m.to)}
                              \/ ~promo(m.to) /\ nb = next(m.to)
    BY <1>3
  <2>2. CASE promo(m.to)
    <3>1. PICK mq \in moves, mk \in moves :
               /\ next(m.to) = makeMove(b, mq)
               /\ queen(m.to).positions = makeMove(b, mq).positions
               /\ knight(m.to).positions = makeMove(b, mk).positions
               /\ isChecked(makeMove(b, mq), black) <=> isChecked(makeMove(b, mk), black)
      BY <1>5, <2>2
    <3>2. mq \in legal /\ mk \in legal
      BY <2>1, <3>1
    <3> HIDE DEF legal
    <3> QED
      BY <2>1, <2>2, <3>1, <3>2
  <2>3. CASE ~promo(m.to)
    BY <1>4, <2>1, <2>3
  <2> QED
    BY <2>2, <2>3
<1>7. ASSUME NEW m \in legal
      PROVE  \E nb \in states : nb.positions = makeMove(b, m).positions
  <2>1. m \in moves /\ ~isChecked(makeMove(b, m), black)
    OBVIOUS
  <2>2. CASE promo(m.to)
    <3>1. PICK mq \in moves, mk \in moves :
               /\ m = mq \/ m = mk
               /\ next(m.to) = makeMove(b, mq)
               /\ queen(m.to).positions = makeMove(b, mq).positions
               /\ knight(m.to).positions = makeMove(b, mk).positions
               /\ isChecked(makeMove(b, mq), black) <=> isChecked(makeMove(b, mk), black)
      BY <1>5, <2>1, <2>2
    <3>2. ~isChecked(next(m.to), black)
      BY <2>1, <3>1
    <3>3. queen(m.to) \in states /\ knight(m.to) \in states
      BY <1>3, <2>1, <2>2, <3>2
    <3> QED
      BY <3>1, <3>3
  <2>3. CASE ~promo(m.to)
    <3>1. next(m.to) = makeMove(b, m)
      BY <1>4, <2>1, <2>3
    <3>2. next(m.to) \in states
      BY <1>3, <2>1, <2>3, <3>1
    <3> QED
      BY <3>1, <3>2
  <2> QED
    BY <2>2, <2>3
<1>8. {nb.positions : nb \in states} = {makeMove(b, m).positions : m \in legal}
  <2> HIDE DEF legal
  <2> QED
    BY <1>6, <1>7
<1> QED
  BY <1>8 DEF states, moves
=============================================================================
