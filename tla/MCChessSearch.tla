--------------------------- MODULE MCChessSearch ---------------------------
(***************************************************************************)
(* The depth-first search on chess boards.  The boards of the game are     *)
(* those that Levels rounds from a root reach; the ones after the last     *)
(* round are where the search stops, and have no moves.                    *)
(***************************************************************************)
EXTENDS MateSearch, ChessGame, TLC

CONSTANT Root0    \* the root positions, sets of <<type, row, column>>

\* White: king f8, pawns c2, g4, g7.  Black: king h7.
Switchback == {{<<W_PAWN, 1, 2>>, <<W_PAWN, 3, 6>>, <<W_PAWN, 6, 6>>,
                <<W_KING, 7, 5>>, <<B_KING, 6, 7>>}}

\* Two boards with a mate in two rounds that takes no move back, and one
\* without a mate, on which white can stalemate.
PawnEndings ==
  {{<<W_PAWN, 4, 6>>, <<W_PAWN, 5, 6>>, <<W_KING, 7, 5>>, <<B_KING, 7, 7>>},
   {<<W_PAWN, 6, 4>>, <<W_KING, 7, 5>>, <<B_KING, 7, 7>>},
   {<<W_PAWN, 6, 5>>, <<W_KING, 4, 5>>, <<B_KING, 7, 5>>}}

\* A function with the same values, which TLC keeps as a table.
Table(f) == f @@ << >>

\* The board with the given pieces.
Setup(pieces) ==
  LET square(t) == CHOOSE s \in Squares : <<t, s[1], s[2]>> \in pieces
      type(s)   == {t \in PieceTypes : <<t, s[1], s[2]>> \in pieces}
  IN  [positions |-> Table([s \in Squares |->
                             IF type(s) = {} THEN EMPTY
                             ELSE CHOOSE t \in type(s) : TRUE]),
       blackKing |-> square(B_KING), whiteKing |-> square(W_KING),
       lastMove |-> noMove]

----------------------------------------------------------------------------
(***************************************************************************)
(* A position of the game is a board together with the positions that the  *)
(* side to move can reach within the given number of rounds, whether it is *)
(* in check, and the rounds to the shortest forced mate (Levels + 1 when   *)
(* there is none within these rounds).                                     *)
(***************************************************************************)
Least(S)    == CHOOSE n \in S : \A k \in S : n <= k
Greatest(S) == CHOOSE n \in S : \A k \in S : n >= k

RECURSIVE MaxNode(_, _), MinNode(_, _)
MaxNode(b, rounds) ==
  LET to == {MinNode(c, rounds) : c \in IF rounds = 0 THEN {} ELSE maxBoards(b)}
  IN  [board |-> b, checked |-> maxChecked(b), to |-> to,
       mate |-> Least({Levels + 1} \cup {n.mate : n \in to})]
MinNode(b, rounds) ==
  LET to      == {MaxNode(c, rounds - 1) : c \in minBoards(b)}
      checked == minChecked(b)
      mate    == IF to # {} THEN 1 + Greatest({n.mate : n \in to})
                 ELSE IF checked THEN 1 ELSE Levels + 1
  IN  [board |-> b, checked |-> checked, to |-> to,
       mate |-> Least({Levels + 1, mate})]

MCRoots == {MaxNode(Setup(pieces), Levels) : pieces \in Root0}

\* The positions after n half-moves from a root.
RECURSIVE Ply(_)
Ply(n) == IF n = 0 THEN MCRoots ELSE UNION {pos.to : pos \in Ply(n - 1)}

MCMaxPos       == UNION {Ply(2 * i) : i \in 0 .. Levels}
MCMinPos       == UNION {Ply(2 * i - 1) : i \in 1 .. Levels}
MCSigs         == {hash(pos.board) : pos \in MCMaxPos \cup MCMinPos}
MCMoves(pos)   == pos.to
MCChecked(pos) == pos.checked
MCMate(pos)    == pos.mate
MCSig(pos)     == hash(pos.board)
OneSearch(p, r) == FALSE
OneOrder(S, x) == x = CHOOSE y \in S : TRUE
MCCircular(prev, p, q) == circularStep(prev.board, p.board, q.board)
============================================================================
