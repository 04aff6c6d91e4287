----------------------------- MODULE BoardFile -----------------------------
(***************************************************************************)
(* The constructors of class Board (chess/board.cc): the opening position  *)
(* and the loader of a board file.  A line of the file is a record of its  *)
(* length and of its first three characters: the piece letter as a one-    *)
(* character string, the file and the rank as character codes.  A CHECK    *)
(* that fails aborts the process.                                          *)
(***************************************************************************)
EXTENDS Board

CONSTANTS
  Lines,       \* the lines a board file may hold
  MaxLines     \* bound: the number of lines read

ASSUME LinesAssumption ==
  /\ \A l \in Lines : /\ l.size \in Nat /\ l.letter \in STRING
                      /\ l.file \in Int /\ l.rank \in Int
  /\ MaxLines \in Nat

VARIABLES
  board,      \* the board under construction
  status,     \* "start", "reading", "loaded", "opened" or "aborted"
  lineNo,     \* the number of lines read
  placed      \* history: the pieces of the lines that were accepted

vars == <<board, status, lineNo, placed>>

----------------------------------------------------------------------------
\* kNotationToPieceType.
notation ==
  [p |-> W_PAWN, r |-> W_ROOK, n |-> W_KNIGHT, k |-> W_KING, q |-> W_QUEEN,
   b |-> W_BISHOP, P |-> B_PAWN, R |-> B_ROOK, N |-> B_KNIGHT, K |-> B_KING,
   Q |-> B_QUEEN, B |-> B_BISHOP]

\* The conversion of an int to int8_t.
int8(n) == ((n + 128) % 256) - 128

squareOf(l) == <<int8(l.rank - 49), int8(l.file - 97)>>

isSkipped(l) == l.size = 0 \/ l.letter = "#"

\* The CHECKs of a line without the one on the square being free.
acceptsOverlap(b, l) ==
  /\ l.size = 3
  /\ l.letter \in DOMAIN notation
  /\ isValidPosition(squareOf(l))
  /\ notation[l.letter] = B_KING => b.blackKing = invalidPosition
  /\ notation[l.letter] = W_KING => b.whiteKing = invalidPosition

\* The CHECKs of a line without the ones on a second king.
acceptsManyKings(b, l) ==
  /\ l.size = 3
  /\ l.letter \in DOMAIN notation
  /\ isValidPosition(squareOf(l))
  /\ isEmpty(b, squareOf(l))

\* The CHECKs of a line without the ones on its square.
acceptsAnySquare(b, l) ==
  /\ l.size = 3
  /\ l.letter \in DOMAIN notation
  /\ notation[l.letter] = B_KING => b.blackKing = invalidPosition
  /\ notation[l.letter] = W_KING => b.whiteKing = invalidPosition

\* The CHECKs that a line must pass.
accepts(b, l) ==
  /\ l.size = 3
  /\ l.letter \in DOMAIN notation
  /\ isValidPosition(squareOf(l))
  /\ isEmpty(b, squareOf(l))
  /\ notation[l.letter] = B_KING => b.blackKing = invalidPosition
  /\ notation[l.letter] = W_KING => b.whiteKing = invalidPosition

\* The pieces of Board::init by row and column.  The pawns of row 1 are added
\* with the type B_PAWN.
backRow == <<2, 3, 6, 5, 4, 6, 3, 2>>
openingType(s) ==
  CASE s[1] = 7        -> backRow[s[2] + 1] + 8
    [] s[1] = 0        -> backRow[s[2] + 1]
    [] s[1] \in {1, 6} -> B_PAWN
    [] OTHER           -> EMPTY

openingBoard ==
  [clearBoard EXCEPT !.positions = [s \in Squares |-> openingType(s)],
                     !.blackKing = <<7, 4>>, !.whiteKing = <<0, 4>>]

----------------------------------------------------------------------------
Init ==
  /\ board = clearBoard
  /\ status = "start"
  /\ lineNo = 0
  /\ placed = {}

\* Board(true).
OpenInitial ==
  /\ status = "start"
  /\ board' = openingBoard
  /\ status' = "opened"
  /\ UNCHANGED <<lineNo, placed>>

\* Board(loadFromFile) opens the file, or dies when it cannot.
OpenFile ==
  /\ status = "start"
  /\ status' \in {"reading", "aborted"}
  /\ UNCHANGED <<board, lineNo, placed>>

SkipLine(l) ==
  /\ isSkipped(l)
  /\ UNCHANGED <<board, status, placed>>

AddLine(l) ==
  /\ ~isSkipped(l)
  /\ accepts(board, l)
  /\ board' = set(board, notation[l.letter], squareOf(l))
  /\ placed' = placed \cup {<<notation[l.letter], squareOf(l)>>}
  /\ UNCHANGED status

RejectLine(l) ==
  /\ ~isSkipped(l)
  /\ ~accepts(board, l)
  /\ status' = "aborted"
  /\ UNCHANGED <<board, placed>>

ReadLine(l) ==
  /\ status = "reading"
  /\ lineNo < MaxLines
  /\ SkipLine(l) \/ AddLine(l) \/ RejectLine(l)
  /\ lineNo' = lineNo + 1

\* The file ends; both kings must have been placed.
EndOfFile ==
  /\ status = "reading"
  /\ status' = IF /\ board.blackKing # invalidPosition
                  /\ board.whiteKing # invalidPosition
               THEN "loaded" ELSE "aborted"
  /\ UNCHANGED <<board, lineNo, placed>>

Next ==
  \/ OpenInitial
  \/ OpenFile
  \/ \E l \in Lines : ReadLine(l)
  \/ EndOfFile

Spec == Init /\ [][Next]_vars

----------------------------------------------------------------------------
\* The board under construction is a board, with no move made on it.
TypeOK ==
  /\ board \in Boards
  /\ status \in {"start", "reading", "loaded", "opened", "aborted"}
  /\ lineNo \in 0 .. MaxLines
  /\ placed \subseteq PieceTypes \X Squares
  /\ board.lastMove = noMove

\* A board that a constructor has finished has exactly one king of each
\* colour, on the square that blackKing_ or whiteKing_ caches, whatever the
\* file's lines were and in whatever order: what canMove and isChecked, which
\* only look at the cached squares, take for granted.
FinishedKingsCached == status \in {"loaded", "opened"} => KingsCached(board)

\* No accepted line is lost: the pieces on the board are those the accepted
\* lines name, each on its own square.
LinesOnBoard ==
  status \in {"reading", "loaded"} =>
    placed = {<<getPieceTypeAtPosition(board, s), s>> :
                s \in {t \in Squares : ~isEmpty(board, t)}}
============================================================================
