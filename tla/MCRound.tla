------------------------------ MODULE MCRound ------------------------------
(***************************************************************************)
(* Root positions for the line-of-play model: few pieces on the full board,*)
(* each set up so that one of the hard cases arises within two rounds.     *)
(***************************************************************************)
EXTENDS Round

\* The board with the pieces of a set of <<type, row, column>> triples.
Setup(pieces) ==
  LET typeAt(s) == {p[1] : p \in {q \in pieces : <<q[2], q[3]>> = s}}
      king(t) == CHOOSE s \in Squares : t \in typeAt(s)
  IN  [positions |-> [s \in Squares |-> IF typeAt(s) = {} THEN EMPTY
                                        ELSE CHOOSE t \in typeAt(s) : TRUE],
       blackKing |-> king(B_KING), whiteKing |-> king(W_KING),
       lastMove  |-> noMove]

Root(pieces, blackFirst) == [board |-> Setup(pieces), blackFirst |-> blackFirst]

\* Black to move; its pawn can double-step past a white pawn on the fifth
\* row.  Pinned: the white king and a black rook stand at the ends of that
\* row, so that taking both pawns off it would open it.
EnPassantWhite ==
  Root({<<W_KING, 0, 0>>, <<W_PAWN, 4, 3>>, <<B_PAWN, 6, 2>>,
        <<B_KING, 7, 7>>}, TRUE)
EnPassantWhitePinned ==
  Root({<<W_KING, 4, 0>>, <<W_PAWN, 4, 3>>, <<B_PAWN, 6, 2>>,
        <<B_ROOK, 4, 7>>, <<B_KING, 7, 7>>}, TRUE)

\* The mirror images: a white double step past a black pawn.
EnPassantBlack ==
  Root({<<B_KING, 7, 0>>, <<B_PAWN, 3, 3>>, <<W_PAWN, 1, 2>>,
        <<W_KING, 0, 7>>}, FALSE)
EnPassantBlackPinned ==
  Root({<<B_KING, 3, 0>>, <<B_PAWN, 3, 3>>, <<W_PAWN, 1, 2>>,
        <<W_QUEEN, 3, 7>>, <<W_KING, 0, 7>>}, FALSE)

\* Pawns of both sides one step from promotion, with a capture available.
Promotions ==
  Root({<<W_KING, 0, 0>>, <<W_PAWN, 6, 3>>, <<B_KNIGHT, 7, 4>>,
        <<B_KING, 5, 6>>, <<B_PAWN, 1, 6>>}, FALSE)

\* A bishop and a knight pinned to their kings.
Pins ==
  Root({<<W_KING, 0, 4>>, <<W_BISHOP, 2, 4>>, <<B_ROOK, 6, 4>>,
        <<B_KING, 7, 7>>, <<B_KNIGHT, 5, 5>>, <<W_QUEEN, 3, 3>>}, TRUE)

\* A rook uncovers a bishop: discovered and double checks.
Discovered ==
  Root({<<W_KING, 0, 0>>, <<W_BISHOP, 1, 1>>, <<W_ROOK, 3, 3>>,
        <<B_KING, 6, 6>>, <<B_PAWN, 6, 5>>}, FALSE)

\* The fixture of the repository's OneRound tests.
TestFixture ==
  Root({<<W_KING, 0, 1>>, <<B_KING, 2, 1>>, <<B_ROOK, 2, 7>>,
        <<B_BISHOP, 4, 5>>, <<W_ROOK, 3, 4>>}, TRUE)

\* Kings and rooks at home, for castling.
CastlingHome ==
  Root({<<W_KING, 0, 4>>, <<W_ROOK, 0, 7>>, <<B_KING, 7, 4>>,
        <<B_ROOK, 7, 0>>}, FALSE)

AllRoots == {EnPassantWhite, EnPassantWhitePinned, EnPassantBlack,
             EnPassantBlackPinned, Promotions, Pins, Discovered, TestFixture}
EnPassantRoots == {EnPassantWhite}
CastlingRoots  == {CastlingHome}
============================================================================
