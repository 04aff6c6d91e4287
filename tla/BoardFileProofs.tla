-------------------------- MODULE BoardFileProofs --------------------------
(***************************************************************************)
(* Proofs about the board loader, for any set of lines and any length of   *)
(* the file.                                                               *)
(***************************************************************************)
EXTENDS BoardFile, TLAPS

\* While a file is read the cached squares say where each king is, or that
\* it has not been placed yet.
KingsTracked ==
  status \in {"start", "reading", "loaded"} =>
    /\ {s \in Squares : board.positions[s] = B_KING}
         = {board.blackKing} \ {invalidPosition}
    /\ {s \in Squares : board.positions[s] = W_KING}
         = {board.whiteKing} \ {invalidPosition}

\* The pieces that stand on a board, with their squares.
OnBoard(b) ==
  {<<getPieceTypeAtPosition(b, s), s>> : s \in {t \in Squares : ~isEmpty(b, t)}}

\* The pieces on the board are those of the accepted lines from the start on.
LinesTracked ==
  status \in {"start", "reading", "loaded"} => placed = OnBoard(board)

\* A loaded board has both kings.
BothKings ==
  status = "loaded" => /\ board.blackKing # invalidPosition
                       /\ board.whiteKing # invalidPosition

\* What a finished opening looks like.
OpeningFixed == status = "opened" => board = openingBoard

LoaderInv ==
  TypeOK /\ KingsTracked /\ LinesTracked /\ BothKings /\ OpeningFixed

----------------------------------------------------------------------------
\* Piece types are small numbers other than EMPTY, and the letters of a board
\* file stand for them.
LEMMA NotationTypes ==
  ASSUME NEW c \in DOMAIN notation
  PROVE  notation[c] \in PieceTypes /\ notation[c] # EMPTY
BY SMT DEF notation, PieceTypes, WhiteTypes, BlackTypes, EMPTY,
  W_PAWN, W_ROOK, W_KNIGHT, W_KING, W_QUEEN, W_BISHOP,
  B_PAWN, B_ROOK, B_KNIGHT, B_KING, B_QUEEN, B_BISHOP

\* The invalid position is no square of the board, and a valid position with
\* integer coordinates is one.
LEMMA SquareFacts ==
  /\ invalidPosition \notin Squares
  /\ invalidPosition \in Positions
  /\ \A l \in Lines : isValidPosition(squareOf(l)) => squareOf(l) \in Squares
<1>1. \A l \in Lines : isValidPosition(squareOf(l)) => squareOf(l) \in Squares
  <2> SUFFICES ASSUME NEW l \in Lines, isValidPosition(squareOf(l))
               PROVE  squareOf(l) \in Squares
    OBVIOUS
  <2>1. int8(l.rank - 49) \in Int /\ int8(l.file - 97) \in Int
    BY LinesAssumption DEF int8
  <2> QED
    BY <2>1 DEF squareOf, isValidPosition, Squares, Coord, BOARD_SIZE
<1> QED
  BY <1>1 DEF invalidPosition, Squares, Coord, BOARD_SIZE, Positions

\* The move that a fresh board carries.
LEMMA NoMoveIsMove == noMove \in Moves
BY DEF noMove, Moves, SpecialTypes, NORMAL_MOVE, KING_CASTLING, Positions, Types

\* Placing a piece changes one square, and a king's cached square.
LEMMA SetFacts ==
  ASSUME NEW b \in Boards, NEW t \in Types, NEW s \in Squares
  PROVE  /\ set(b, t, s) \in Boards
         /\ set(b, t, s).lastMove = b.lastMove
         /\ set(b, t, s).positions = [b.positions EXCEPT ![s] = t]
         /\ set(b, t, s).blackKing = (IF t = B_KING THEN s ELSE b.blackKing)
         /\ set(b, t, s).whiteKing = (IF t = W_KING THEN s ELSE b.whiteKing)
BY DEF set, Boards, Positions

\* The kings stay tracked, and the list of pieces with them, when a line that
\* passes the CHECKs is placed.
LEMMA AddKeepsKings ==
  ASSUME TypeOK, KingsTracked, status = "reading",
         NEW l \in Lines, accepts(board, l),
         board' = set(board, notation[l.letter], squareOf(l)),
         status' = status
  PROVE  KingsTracked'
<1> DEFINE t == notation[l.letter]
           s == squareOf(l)
<1>1. s \in Squares /\ board.positions[s] = EMPTY
  BY SquareFacts DEF accepts, isEmpty, getPieceTypeAtPosition
<1>2. t \in PieceTypes /\ t \in Types /\ t # EMPTY
  BY NotationTypes DEF accepts, Types
<1>3. /\ board \in Boards
      /\ board.positions \in [Squares -> Types]
  BY DEF TypeOK, Boards
<1>4. /\ board'.positions = [board.positions EXCEPT ![s] = t]
      /\ board'.blackKing = (IF t = B_KING THEN s ELSE board.blackKing)
      /\ board'.whiteKing = (IF t = W_KING THEN s ELSE board.whiteKing)
  BY <1>1, <1>2, <1>3, SetFacts
<1>5. /\ t = B_KING => board.blackKing = invalidPosition
      /\ t = W_KING => board.whiteKing = invalidPosition
  BY DEF accepts
<1>6. B_KING # W_KING /\ B_KING # EMPTY /\ W_KING # EMPTY
  BY DEF B_KING, W_KING, EMPTY
<1>7. {q \in Squares : board'.positions[q] = B_KING}
        = {board'.blackKing} \ {invalidPosition}
  <2> HIDE DEF t, s
  <2>1. {q \in Squares : board.positions[q] = B_KING}
          = {board.blackKing} \ {invalidPosition}
    BY DEF KingsTracked
  <2>2. CASE t = B_KING
    BY <2>1, <2>2, <1>1, <1>3, <1>4, <1>5, <1>6, SquareFacts
  <2>3. CASE t # B_KING
    BY <2>1, <2>3, <1>1, <1>3, <1>4, <1>6
  <2> QED
    BY <2>2, <2>3
<1>8. {q \in Squares : board'.positions[q] = W_KING}
        = {board'.whiteKing} \ {invalidPosition}
  <2> HIDE DEF t, s
  <2>1. {q \in Squares : board.positions[q] = W_KING}
          = {board.whiteKing} \ {invalidPosition}
    BY DEF KingsTracked
  <2>2. CASE t = W_KING
    BY <2>1, <2>2, <1>1, <1>3, <1>4, <1>5, <1>6, SquareFacts
  <2>3. CASE t # W_KING
    BY <2>1, <2>3, <1>1, <1>3, <1>4, <1>6
  <2> QED
    BY <2>2, <2>3
<1> QED
  BY <1>7, <1>8 DEF KingsTracked

\* Placing a piece on a free square adds just that piece.
LEMMA AddKeepsLines ==
  ASSUME NEW b \in Boards, NEW t \in Types, NEW s \in Squares,
         t # EMPTY, isEmpty(b, s)
  PROVE  OnBoard(set(b, t, s)) = OnBoard(b) \cup {<<t, s>>}
<1> DEFINE nb == set(b, t, s)
<1>1. /\ b.positions \in [Squares -> Types]
      /\ nb.positions = [b.positions EXCEPT ![s] = t]
      /\ b.positions[s] = EMPTY
  BY SetFacts DEF Boards, isEmpty, getPieceTypeAtPosition
<1> HIDE DEF nb
<1>2. ASSUME NEW x \in OnBoard(nb)
      PROVE  x \in OnBoard(b) \cup {<<t, s>>}
  <2>1. PICK q \in Squares : nb.positions[q] # EMPTY /\ x = <<nb.positions[q], q>>
    BY DEF OnBoard, isEmpty, getPieceTypeAtPosition
  <2> QED
    BY <2>1, <1>1 DEF OnBoard, isEmpty, getPieceTypeAtPosition
<1>3. ASSUME NEW x \in OnBoard(b)
      PROVE  x \in OnBoard(nb)
  <2>1. PICK q \in Squares : b.positions[q] # EMPTY /\ x = <<b.positions[q], q>>
    BY DEF OnBoard, isEmpty, getPieceTypeAtPosition
  <2>2. q # s /\ nb.positions[q] = b.positions[q]
    BY <2>1, <1>1
  <2> QED
    BY <2>1, <2>2 DEF OnBoard, isEmpty, getPieceTypeAtPosition
<1>4. <<t, s>> \in OnBoard(nb)
  BY <1>1 DEF OnBoard, isEmpty, getPieceTypeAtPosition
<1> QED
  BY <1>2, <1>3, <1>4 DEF nb

----------------------------------------------------------------------------
\* Board::init makes a board whose cached king squares are right, although
\* it puts black pawns on white's second row.
LEMMA OpeningKings == KingsCached(openingBoard) /\ openingBoard \in Boards
<1>1. openingBoard.positions = [s \in Squares |-> openingType(s)]
  BY DEF openingBoard, clearBoard
<1>2. openingBoard.blackKing = <<7, 4>> /\ openingBoard.whiteKing = <<0, 4>>
      /\ openingBoard.lastMove = noMove
  BY DEF openingBoard, clearBoard
<1>3. \A s \in Squares : /\ openingType(s) \in Types
                         /\ openingType(s) = B_KING <=> s = <<7, 4>>
                         /\ openingType(s) = W_KING <=> s = <<0, 4>>
  <2> TAKE s \in Squares
  <2>1. PICK r \in 0 .. 7, c \in 0 .. 7 : s = <<r, c>>
    BY DEF Squares, Coord, BOARD_SIZE
  <2>2. s[1] = r /\ s[2] = c
    BY <2>1
  <2>3. /\ s = <<7, 4>> <=> r = 7 /\ c = 4
        /\ s = <<0, 4>> <=> r = 0 /\ c = 4
    BY <2>1
  <2>4. /\ backRow[c + 1] \in 2 .. 6
        /\ backRow[c + 1] = 4 <=> c = 4
    BY DEF backRow
  <2>5. /\ openingType(s) \in Types
        /\ openingType(s) = B_KING <=> r = 7 /\ c = 4
        /\ openingType(s) = W_KING <=> r = 0 /\ c = 4
    BY <2>2, <2>4 DEF openingType, Types, PieceTypes, WhiteTypes, BlackTypes,
      EMPTY, W_PAWN, W_KING, W_BISHOP, B_PAWN, B_KING, B_BISHOP
  <2> QED
    BY <2>3, <2>5
<1>4. /\ <<7, 4>> \in Squares /\ <<0, 4>> \in Squares
  BY DEF Squares, Coord, BOARD_SIZE
<1>5. noMove \in Moves
  BY NoMoveIsMove
<1>6. openingBoard \in Boards
  BY <1>1, <1>2, <1>3, <1>4, <1>5 DEF openingBoard, clearBoard, Boards, Positions
<1> QED
  BY <1>1, <1>2, <1>3, <1>4, <1>6 DEF KingsCached, getPieceTypeAtPosition
----------------------------------------------------------------------------
\* Every step of the constructors preserves the invariant.  The step that can
\* break it is an accepted line: its CHECKs keep the square free for one piece
\* and each king to one line.
LEMMA LoaderStep == LoaderInv /\ [Next]_vars => LoaderInv'
<1> SUFFICES ASSUME LoaderInv, [Next]_vars
             PROVE  LoaderInv'
  OBVIOUS
<1> USE DEF LoaderInv
<1>1. CASE OpenInitial
  <2>1. TypeOK'
    BY <1>1, OpeningKings DEF OpenInitial, TypeOK, openingBoard, clearBoard
  <2> QED
    BY <1>1, <2>1
    DEF OpenInitial, KingsTracked, LinesTracked, BothKings, OpeningFixed
<1>2. CASE OpenFile
  BY <1>2 DEF OpenFile, TypeOK, KingsTracked, LinesTracked, BothKings, OpeningFixed
<1>3. ASSUME NEW l \in Lines, ReadLine(l)
      PROVE  LoaderInv'
  <2>1. /\ status = "reading"
        /\ lineNo' \in 0 .. MaxLines
    BY <1>3, LinesAssumption DEF ReadLine, TypeOK
  <2>2. CASE SkipLine(l)
    BY <2>1, <2>2
    DEF SkipLine, TypeOK, KingsTracked, LinesTracked, BothKings, OpeningFixed
  <2>3. CASE RejectLine(l)
    BY <2>1, <2>3
    DEF RejectLine, TypeOK, KingsTracked, LinesTracked, BothKings, OpeningFixed
  <2>4. CASE AddLine(l)
    <3>1. /\ notation[l.letter] \in PieceTypes
          /\ notation[l.letter] \in Types
          /\ notation[l.letter] # EMPTY
          /\ squareOf(l) \in Squares
          /\ isEmpty(board, squareOf(l))
      BY <2>4, NotationTypes, SquareFacts DEF AddLine, accepts, Types
    <3>2. KingsTracked'
      BY <2>1, <2>4, AddKeepsKings DEF AddLine
    <3>3. board \in Boards
      BY DEF TypeOK
    <3>4. LinesTracked'
      BY <2>1, <2>4, <3>1, <3>3, AddKeepsLines DEF AddLine, LinesTracked
    <3>5. board' \in Boards /\ board'.lastMove = board.lastMove
      BY <2>4, <3>1, <3>3, SetFacts DEF AddLine
    <3>6. placed' \subseteq PieceTypes \X Squares
      BY <2>4, <3>1 DEF AddLine, TypeOK
    <3>7. TypeOK'
      BY <2>1, <2>4, <3>5, <3>6 DEF AddLine, TypeOK
    <3> QED
      BY <2>1, <2>4, <3>2, <3>4, <3>7 DEF AddLine, BothKings, OpeningFixed
  <2> QED
    BY <1>3, <2>2, <2>3, <2>4 DEF ReadLine
<1>4. CASE EndOfFile
  BY <1>4 DEF EndOfFile, TypeOK, KingsTracked, LinesTracked, BothKings, OpeningFixed
<1>5. CASE UNCHANGED vars
  BY <1>5 DEF vars, TypeOK, KingsTracked, LinesTracked, BothKings, OpeningFixed
<1> QED
  BY <1>1, <1>2, <1>3, <1>4, <1>5 DEF Next

\* The cleared board satisfies the invariant.
LEMMA LoaderInit == Init => LoaderInv
<1> SUFFICES ASSUME Init
             PROVE  LoaderInv
  OBVIOUS
<1>1. /\ board.positions = [s \in Squares |-> EMPTY]
      /\ board.blackKing = invalidPosition
      /\ board.whiteKing = invalidPosition
      /\ board.lastMove = noMove
  BY DEF Init, clearBoard
<1>2. board \in Boards
  BY <1>1, SquareFacts, NoMoveIsMove
  DEF Init, clearBoard, Boards, Types, PieceTypes, Positions
<1>3. TypeOK
  BY <1>1, <1>2, LinesAssumption DEF Init, TypeOK
<1>4. KingsTracked
  BY <1>1 DEF KingsTracked, B_KING, W_KING, EMPTY
<1>5. LinesTracked
  BY <1>1 DEF Init, LinesTracked, OnBoard, isEmpty, getPieceTypeAtPosition
<1> QED
  BY <1>3, <1>4, <1>5 DEF Init, LoaderInv, BothKings, OpeningFixed

\* The invariant holds in every state of the constructors.
THEOREM LoaderInvariant == Spec => []LoaderInv
BY LoaderInit, LoaderStep, PTL DEF Spec

\* The board under construction is a board with no move made on it, for every
\* file.
THEOREM LoaderTypeCorrect == Spec => []TypeOK
<1>1. LoaderInv => TypeOK
  BY DEF LoaderInv
<1> QED
  BY <1>1, LoaderInvariant, PTL

\* Every finished board has one king of each colour, on the cached square.
THEOREM LoaderKingsCached == Spec => []FinishedKingsCached
<1>1. LoaderInv => FinishedKingsCached
  <2> SUFFICES ASSUME LoaderInv, status \in {"loaded", "opened"}
               PROVE  KingsCached(board)
    BY DEF FinishedKingsCached
  <2>1. CASE status = "opened"
    BY <2>1, OpeningKings DEF LoaderInv, OpeningFixed
  <2>2. CASE status = "loaded"
    BY <2>2 DEF LoaderInv, KingsTracked, BothKings, KingsCached,
                getPieceTypeAtPosition
  <2> QED
    BY <2>1, <2>2
<1> QED
  BY <1>1, LoaderInvariant, PTL

\* The pieces on a board read from a file are those of its accepted lines.
THEOREM LoaderLinesOnBoard == Spec => []LinesOnBoard
<1>1. LoaderInv => LinesOnBoard
  BY DEF LoaderInv, LinesTracked, LinesOnBoard, OnBoard
<1> QED
  BY <1>1, LoaderInvariant, PTL
============================================================================
