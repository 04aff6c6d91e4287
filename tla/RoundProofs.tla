---------------------------- MODULE RoundProofs ----------------------------
(***************************************************************************)
(* Proofs about a line of play, for every set of legal root boards.        *)
(***************************************************************************)
EXTENDS Round, BoardProofs

Rounds == [curBoard : Boards, blackFirst : BOOLEAN, level : 0 .. (MaxLevel - 1),
           parentMove : Moves, maxStepPieces : SUBSET Pieces,
           minStepPieces : SUBSET Pieces, isMaxChecked : BOOLEAN,
           maxStepState : Boards, isMinChecked : BOOLEAN]

\* The piece lists are those of the round's first board, whatever the phase,
\* and the board of the minimising step is that board after one move.
RoundInv ==
  /\ phase \in {"max", "min"}
  /\ round \in Rounds
  /\ BoardOK(round.curBoard)
  /\ round.maxStepPieces = pieceList(round.curBoard, round.blackFirst)
  /\ round.minStepPieces = pieceList(round.curBoard, ~round.blackFirst)
  /\ phase = "min" =>
       /\ MoveOK(round.curBoard, round.maxStepState.lastMove)
       /\ round.maxStepState.lastMove.fromType \in SideTypes(round.blackFirst)
       /\ round.maxStepState = makeMove(round.curBoard, round.maxStepState.lastMove)

\* Both kings are in place, the side that does not move is not in check, the facts
\* hold that the shortcuts of canMove rely on, and the flags are exact.
LegalInv ==
  /\ KingsCached(board)
  /\ ~isChecked(board, ~blackToMove)
  /\ EnPassantSafe(board, blackToMove)
  /\ LastMoverOK(board, blackToMove)
  /\ round.isMaxChecked <=> isChecked(round.curBoard, round.blackFirst)
  /\ phase = "min" => (round.isMinChecked <=> isChecked(board, blackToMove))

----------------------------------------------------------------------------
(***************************************************************************)
(* Rounds.                                                                 *)
(***************************************************************************)

\* The list of one side's pieces.
LEMMA PieceListFacts ==
  ASSUME NEW b \in Boards, NEW black \in BOOLEAN
  PROVE  /\ pieceList(b, black) \in SUBSET Pieces
         /\ \A p \in pieceList(b, black) :
              /\ p.pos \in PiecesOf(b, black) /\ p.type = b.positions[p.pos]
              /\ p.pos \in Squares /\ p.type \in SideTypes(black)
         /\ \A s \in PiecesOf(b, black) :
              \E p \in pieceList(b, black) : p.pos = s /\ p.type = b.positions[s]
<1>1. \A s \in PiecesOf(b, black) : s \in Squares /\ b.positions[s] \in SideTypes(black)
  BY PiecesOfFacts
<1>2. SideTypes(black) \subseteq PieceTypes
  BY DEF SideTypes, PieceTypes
<1>3. ASSUME NEW p \in pieceList(b, black)
      PROVE  /\ p \in Pieces /\ p.pos \in PiecesOf(b, black)
             /\ p.type = b.positions[p.pos]
  <2>1. PICK s \in PiecesOf(b, black) : p = [type |-> b.positions[s], pos |-> s]
    BY DEF pieceList, getPieceTypeAtPosition
  <2> QED
    BY <1>1, <1>2, <2>1 DEF Pieces
<1>4. ASSUME NEW s \in PiecesOf(b, black)
      PROVE  \E p \in pieceList(b, black) : p.pos = s /\ p.type = b.positions[s]
  <2>1. [type |-> b.positions[s], pos |-> s] \in pieceList(b, black)
    BY DEF pieceList, getPieceTypeAtPosition
  <2> QED
    BY <2>1
<1> QED
  BY <1>1, <1>3, <1>4

\* The defaults of a move and of a board have the right types.
LEMMA NoMoveFacts == noMove \in Moves /\ clearBoard \in Boards
<1>1. noMove \in Moves
  BY TypeFacts, SpecialFacts DEF noMove, Moves, Positions
<1> QED
  BY <1>1, TypeFacts DEF clearBoard, Boards, Positions

\* The fields of a new round.
LEMMA NewRoundFacts ==
  ASSUME NEW b \in Boards, NEW black \in BOOLEAN, NEW l \in 0 .. (MaxLevel - 1),
         NEW p \in Moves
  PROVE  /\ newRound(b, black, l, p) \in Rounds
         /\ newRound(b, black, l, p).curBoard = b
         /\ newRound(b, black, l, p).blackFirst = black
         /\ newRound(b, black, l, p).level = l
         /\ newRound(b, black, l, p).maxStepPieces = pieceList(b, black)
         /\ newRound(b, black, l, p).minStepPieces = pieceList(b, ~black)
<1> DEFINE r == [curBoard |-> b, blackFirst |-> black, level |-> l, parentMove |-> p,
                 maxStepPieces |-> pieceList(b, black),
                 minStepPieces |-> pieceList(b, ~black), isMaxChecked |-> FALSE,
                 maxStepState |-> clearBoard, isMinChecked |-> FALSE]
           c == checkChecked(r, b, TRUE)
<1>1. c \in BOOLEAN
  BY DEF checkChecked
<1>2. newRound(b, black, l, p) = [r EXCEPT !.isMaxChecked = c]
  BY DEF newRound
<1>3. pieceList(b, black) \in SUBSET Pieces /\ pieceList(b, ~black) \in SUBSET Pieces
  BY PieceListFacts
<1> HIDE DEF c
<1> QED
  BY <1>1, <1>2, <1>3, NoMoveFacts DEF Rounds

\* The board on which the side to move chooses.
LEMMA BoardFacts ==
  ASSUME RoundInv
  PROVE  /\ BoardOK(board) /\ board \in Boards /\ blackToMove \in BOOLEAN
         /\ phase = "max" => board = round.curBoard /\ blackToMove = round.blackFirst
         /\ phase = "min" => board = round.maxStepState /\ blackToMove = ~round.blackFirst
         /\ round.blackFirst \in BOOLEAN
<1>1. /\ phase = "max" => board = round.curBoard /\ blackToMove = round.blackFirst
      /\ phase = "min" => board = round.maxStepState /\ blackToMove = ~round.blackFirst
  BY DEF board, blackToMove
<1>2. round.blackFirst \in BOOLEAN
  BY DEF RoundInv, Rounds
<1>3. BoardOK(board)
  BY <1>1, MoveKeepsBoard DEF RoundInv
<1>4. blackToMove \in BOOLEAN
  BY <1>2 DEF blackToMove
<1> QED
  BY <1>1, <1>2, <1>3, <1>4 DEF BoardOK

\* A piece of the minimising side that is still there.
LEMMA SurvivorFacts ==
  ASSUME RoundInv, phase = "min"
  PROVE  {p.pos : p \in minStepSurvivors(round)} = PiecesOf(board, blackToMove)
<1> DEFINE b == round.curBoard
           black == ~round.blackFirst
           m == round.maxStepState.lastMove
<1>1. /\ black \in BOOLEAN /\ b \in Boards /\ board \in Boards /\ blackToMove = black
      /\ board = round.maxStepState /\ round.blackFirst \in BOOLEAN
  BY BoardFacts DEF RoundInv, Rounds
<1>2. round.minStepPieces = pieceList(b, black)
  BY DEF RoundInv
<1>3. MoveOK(b, m) /\ m.fromType \in SideTypes(~black) /\ board = makeMove(b, m)
  BY <1>1 DEF RoundInv
<1> HIDE DEF b, black, m
<1>4. ASSUME NEW p \in minStepSurvivors(round)
      PROVE  p.pos \in PiecesOf(board, black)
  <2>1. p \in pieceList(b, black) /\ board.positions[p.pos] = p.type
    BY <1>1, <1>2 DEF minStepSurvivors, getPieceTypeAtPosition
  <2>2. p.pos \in Squares /\ p.type \in SideTypes(black)
    BY <1>1, <2>1, PieceListFacts
  <2> QED
    BY <1>1, <2>1, <2>2, PiecesOfFacts
<1>5. ASSUME NEW s \in PiecesOf(board, black)
      PROVE  \E p \in minStepSurvivors(round) : p.pos = s
  <2>1. s \in Squares /\ board.positions[s] \in SideTypes(black)
    BY <1>1, PiecesOfFacts
  <2>2. board.positions[s] = b.positions[s]
    <3>1. board.positions[s] = TypeAfter(b, m, s)
      BY <1>1, <1>3, <2>1, MakeMoveFacts
    <3>2. newType(m) \notin SideTypes(black) /\ EMPTY \notin SideTypes(black)
      <4>1. /\ isSameColor(newType(m), m.fromType) /\ newType(m) \in Types
            /\ m.fromType \in Types
        BY <1>1, <1>3, NewTypeFacts, TypeFacts DEF MoveOK
      <4> QED
        BY <1>1, <1>3, <4>1, TypeFacts, ColorFacts DEF SideTypes
    <3> QED
      BY <2>1, <3>1, <3>2 DEF TypeAfter
  <2>3. s \in PiecesOf(b, black)
    BY <1>1, <2>1, <2>2, PiecesOfFacts
  <2>4. PICK p \in pieceList(b, black) : p.pos = s /\ p.type = b.positions[s]
    BY <1>1, <2>3, PieceListFacts
  <2> QED
    BY <1>1, <1>2, <2>2, <2>4 DEF minStepSurvivors, getPieceTypeAtPosition
<1> QED
  BY <1>1, <1>4, <1>5

\* The candidates are what the listed pieces generate.
LEMMA Candidates ==
  ASSUME RoundInv
  PROVE  /\ phase = "max" => UNION {getMoves(board, p.pos) : p \in round.maxStepPieces}
                               = candidates
         /\ phase = "min" => UNION {getMoves(board, p.pos) : p \in minStepSurvivors(round)}
                               = candidates
         /\ \A m \in candidates : MoveOK(board, m) /\ m.fromType \in SideTypes(blackToMove)
<1>1. /\ BoardOK(board) /\ board \in Boards /\ blackToMove \in BOOLEAN
  BY BoardFacts
<1>2. ASSUME phase = "max"
      PROVE  UNION {getMoves(board, p.pos) : p \in round.maxStepPieces} = candidates
  <2>1. round.maxStepPieces = pieceList(board, blackToMove)
    BY <1>2, BoardFacts DEF RoundInv
  <2>2. {p.pos : p \in round.maxStepPieces} = PiecesOf(board, blackToMove)
    BY <1>1, <2>1, PieceListFacts
  <2> QED
    BY <2>2 DEF candidates
<1>3. ASSUME phase = "min"
      PROVE  UNION {getMoves(board, p.pos) : p \in minStepSurvivors(round)} = candidates
  <2>1. {p.pos : p \in minStepSurvivors(round)} = PiecesOf(board, blackToMove)
    BY <1>3, SurvivorFacts
  <2> QED
    BY <2>1 DEF candidates
<1>4. ASSUME NEW m \in candidates
      PROVE  MoveOK(board, m) /\ m.fromType \in SideTypes(blackToMove)
  <2>1. PICK s \in PiecesOf(board, blackToMove) : m \in getMoves(board, s)
    BY DEF candidates
  <2> QED
    BY <1>1, <2>1, SideMove
<1> QED
  BY <1>2, <1>3, <1>4

\* What a round offers is generated.
LEMMA OfferedFacts ==
  ASSUME RoundInv
  PROVE  /\ phase = "max" => offered = maxMoves(round)
         /\ phase = "min" => offered = minMoves(round)
         /\ offered \subseteq candidates
<1>1. /\ phase = "max" => offered = maxMoves(round)
      /\ phase = "min" => offered = minMoves(round)
  BY DEF offered
<1>2. CASE phase = "max"
  BY <1>1, <1>2, BoardFacts, Candidates DEF maxMoves
<1>3. CASE phase = "min"
  BY <1>1, <1>3, BoardFacts, Candidates DEF minMoves
<1> QED
  BY <1>1, <1>2, <1>3 DEF RoundInv

\* The round of a root board.
LEMMA InitRound ==
  ASSUME Init
  PROVE  RoundInv
<1>1. PICK root \in Roots : round = newRound(root.board, root.blackFirst, 0, noMove)
  BY DEF Init
<1>2. /\ root.board \in Boards /\ root.blackFirst \in BOOLEAN
      /\ root.board.lastMove = noMove /\ KingsCached(root.board)
      /\ 0 \in 0 .. (MaxLevel - 1) /\ noMove \in Moves
  BY RootsAssumption, MaxLevelAssumption, NoMoveFacts
<1>3. BoardOK(root.board)
  BY <1>2, CachedAreUnique, FreshBoardOK
<1> DEFINE b == root.board
           black == root.blackFirst
<1> HIDE DEF b, black
<1>4. b \in Boards /\ black \in BOOLEAN /\ round = newRound(b, black, 0, noMove)
  BY <1>1, <1>2 DEF b, black
<1>5. /\ round \in Rounds /\ round.curBoard = b /\ round.blackFirst = black
      /\ round.maxStepPieces = pieceList(b, black)
      /\ round.minStepPieces = pieceList(b, ~black)
  BY <1>2, <1>4, NewRoundFacts
<1> QED
  BY <1>3, <1>5 DEF RoundInv, Init, b

\* The maximising move keeps RoundInv and leads to the board after it.
LEMMA MaxMoveRound ==
  ASSUME RoundInv, NEW m \in maxMoves(round), MaxMove(m)
  PROVE  /\ RoundInv' /\ phase = "max" /\ phase' = "min" /\ m \in offered
         /\ board' = makeMove(board, m) /\ blackToMove' = ~blackToMove
         /\ round'.maxStepState = makeMove(board, m)
<1> DEFINE b == round.curBoard
           nb == makeMove(b, m)
           c == isChecking(round, nb)
<1>1. /\ phase = "max" /\ phase' = "min"
      /\ round' = [round EXCEPT !.maxStepState = nb, !.isMinChecked = c]
  BY DEF MaxMove
<1>2. m \in offered /\ board = b /\ blackToMove = round.blackFirst
  BY <1>1, BoardFacts, OfferedFacts
<1>3. MoveOK(b, m) /\ m.fromType \in SideTypes(round.blackFirst)
  BY <1>2, OfferedFacts, Candidates
<1>4. BoardOK(nb) /\ nb \in Boards /\ nb.lastMove = m
  BY <1>3, MoveKeepsBoard, MakeMoveFacts DEF RoundInv, BoardOK
<1>5. c \in BOOLEAN
  BY DEF isChecking
<1> HIDE DEF nb, c
<1>6. /\ round' \in Rounds /\ round'.maxStepState = nb
      /\ round'.curBoard = b /\ round'.blackFirst = round.blackFirst
      /\ round'.maxStepPieces = round.maxStepPieces
      /\ round'.minStepPieces = round.minStepPieces
  BY <1>1, <1>4, <1>5 DEF RoundInv, Rounds
<1>7. RoundInv'
  BY <1>1, <1>3, <1>4, <1>6 DEF RoundInv, nb
<1>8. board' = nb /\ blackToMove' = ~round'.blackFirst
  BY <1>1, <1>6 DEF board, blackToMove
<1> QED
  BY <1>1, <1>2, <1>6, <1>7, <1>8 DEF nb

\* The reply keeps RoundInv and leads to a new round on the board after it.
LEMMA MinMoveRound ==
  ASSUME RoundInv, NEW m \in minMoves(round), MinMove(m)
  PROVE  /\ RoundInv' /\ phase = "min" /\ phase' = "max" /\ m \in offered
         /\ board' = makeMove(board, m) /\ blackToMove' = ~blackToMove
         /\ round' = newRound(board', blackToMove', round.level + 1,
                              round.maxStepState.lastMove)
         /\ round'.curBoard = makeMove(board, m)
<1> DEFINE b == round.maxStepState
           nb == makeMove(b, m)
           black == round.blackFirst
           l == round.level + 1
           p == round.maxStepState.lastMove
<1>1. /\ phase = "min" /\ phase' = "max" /\ round.level + 1 < MaxLevel
      /\ round' = newRound(nb, black, l, p)
  BY DEF MinMove
<1>2. m \in offered /\ board = b /\ blackToMove = ~black /\ black \in BOOLEAN
  BY <1>1, BoardFacts, OfferedFacts
<1>3. MoveOK(b, m) /\ BoardOK(b)
  BY <1>2, OfferedFacts, Candidates, BoardFacts
<1>4. BoardOK(nb) /\ nb \in Boards /\ nb.lastMove = m /\ p \in Moves
  BY <1>3, MoveKeepsBoard, MakeMoveFacts DEF BoardOK, Boards
<1>5. l \in 0 .. (MaxLevel - 1)
  BY <1>1, MaxLevelAssumption DEF RoundInv, Rounds
<1> HIDE DEF nb, black, l, p, b
<1>6. /\ round' \in Rounds /\ round'.curBoard = nb /\ round'.blackFirst = black
      /\ round'.maxStepPieces = pieceList(nb, black)
      /\ round'.minStepPieces = pieceList(nb, ~black)
  BY <1>1, <1>2, <1>4, <1>5, NewRoundFacts
<1>7. RoundInv'
  BY <1>1, <1>4, <1>6 DEF RoundInv
<1>8. board' = nb /\ blackToMove' = black
  BY <1>1, <1>6 DEF board, blackToMove
<1> QED
  BY <1>1, <1>2, <1>6, <1>7, <1>8 DEF nb, l, p

\* Steps that change nothing.
LEMMA StutterRound ==
  ASSUME UNCHANGED vars
  PROVE  /\ RoundInv => RoundInv'
         /\ board' = board /\ blackToMove' = blackToMove
BY DEF vars, RoundInv, board, blackToMove

\* Every step keeps RoundInv.
LEMMA StepRound ==
  ASSUME RoundInv, [Next]_vars
  PROVE  RoundInv'
<1>1. ASSUME NEW m \in maxMoves(round), MaxMove(m)
      PROVE  RoundInv'
  BY <1>1, MaxMoveRound
<1>2. ASSUME NEW m \in minMoves(round), MinMove(m)
      PROVE  RoundInv'
  BY <1>2, MinMoveRound
<1> QED
  BY <1>1, <1>2, StutterRound DEF Next

----------------------------------------------------------------------------
(***************************************************************************)
(* Legal moves.                                                            *)
(***************************************************************************)

\* The list of the mover's side misses, after the move, only the moved piece.
LEMMA ListMissesMoved ==
  ASSUME NEW b \in Boards, NEW m, MoveOK(b, m), NEW black \in BOOLEAN,
         m.fromType \in SideTypes(black)
  PROVE  ListOK(pieceList(b, black), makeMove(b, m), ~black)
<1> DEFINE nb == makeMove(b, m)
<1>1. /\ nb \in Boards /\ nb.lastMove = m
      /\ \A s \in Squares : nb.positions[s] = TypeAfter(b, m, s)
  BY MakeMoveFacts
<1>2. SideTypes(~(~black)) = SideTypes(black)
  BY DEF SideTypes
<1>3. /\ pieceList(b, black) \in SUBSET Pieces
      /\ \A p \in pieceList(b, black) : p.type \in SideTypes(black)
      /\ \A s \in PiecesOf(b, black) :
           \E p \in pieceList(b, black) : p.pos = s /\ p.type = b.positions[s]
  BY PieceListFacts
<1> HIDE DEF nb
<1>4. ASSUME NEW s \in PiecesOf(nb, ~(~black)), s # m.to
      PROVE  \E p \in pieceList(b, black) : p.pos = s /\ p.type = nb.positions[s]
  <2>1. s \in Squares /\ nb.positions[s] \in SideTypes(black)
    BY <1>1, <1>2, PiecesOfFacts
  <2>2. EMPTY \notin SideTypes(black)
    BY TypeFacts DEF SideTypes
  <2>3. nb.positions[s] = b.positions[s]
    BY <1>1, <1>4, <2>1, <2>2 DEF TypeAfter
  <2>4. s \in PiecesOf(b, black)
    BY <2>1, <2>3, PiecesOfFacts
  <2> QED
    BY <1>3, <2>3, <2>4
<1>5. ListOK(pieceList(b, black), nb, ~black)
  BY <1>1, <1>2, <1>3, <1>4 DEF ListOK
<1> QED
  BY <1>5 DEF nb

\* The list taken from a board misses nothing.
LEMMA ListHasAll ==
  ASSUME NEW b \in Boards, NEW black \in BOOLEAN
  PROVE  ListOK(pieceList(b, ~black), b, black)
<1>1. (~black) \in BOOLEAN
  OBVIOUS
<1>2. /\ pieceList(b, ~black) \in SUBSET Pieces
      /\ \A p \in pieceList(b, ~black) : p.type \in SideTypes(~black)
      /\ \A s \in PiecesOf(b, ~black) :
           \E p \in pieceList(b, ~black) : p.pos = s /\ p.type = b.positions[s]
  BY <1>1, PieceListFacts
<1> QED
  BY <1>2 DEF ListOK

\* The list of the enemies that a round tests moves with is good enough.
LEMMA EnemyListOK ==
  ASSUME RoundInv
  PROVE  ListOK(enemyList(round, blackToMove), board, blackToMove)
<1> DEFINE bf == round.blackFirst
<1>1. /\ bf \in BOOLEAN /\ round.curBoard \in Boards
      /\ round.maxStepPieces = pieceList(round.curBoard, bf)
      /\ round.minStepPieces = pieceList(round.curBoard, ~bf)
  BY DEF RoundInv, Rounds
<1>2. CASE phase = "max"
  <2>1. board = round.curBoard /\ blackToMove = bf
    BY <1>2, BoardFacts
  <2>2. enemyList(round, blackToMove) = pieceList(round.curBoard, ~bf)
    BY <1>1, <2>1 DEF enemyList
  <2> HIDE DEF bf
  <2>3. ListOK(pieceList(round.curBoard, ~bf), round.curBoard, bf)
    BY <1>1, ListHasAll
  <2> QED
    BY <2>1, <2>2, <2>3
<1>3. CASE phase = "min"
  <2> DEFINE m == round.maxStepState.lastMove
  <2>1. board = round.maxStepState /\ blackToMove = ~bf
    BY <1>3, BoardFacts
  <2>2. /\ MoveOK(round.curBoard, m) /\ m.fromType \in SideTypes(bf)
        /\ board = makeMove(round.curBoard, m)
    BY <1>3, <2>1 DEF RoundInv
  <2>3. (~bf) # bf
    BY <1>1
  <2>4. enemyList(round, blackToMove) = pieceList(round.curBoard, bf)
    BY <1>1, <2>1, <2>3 DEF enemyList
  <2> HIDE DEF bf, m
  <2>5. ListOK(pieceList(round.curBoard, bf), makeMove(round.curBoard, m), ~bf)
    BY <1>1, <2>2, ListMissesMoved
  <2> QED
    BY <2>1, <2>2, <2>4, <2>5
<1> QED
  BY <1>2, <1>3 DEF RoundInv

\* The flag that canMove is given.
LEMMA FlagFacts ==
  ASSUME RoundInv, LegalInv
  PROVE  \E checked \in BOOLEAN :
           /\ checked <=> isChecked(board, blackToMove)
           /\ offered = {m \in candidates : canMove(round, m, checked, board)}
<1>1. CASE phase = "max"
  <2> DEFINE c == round.isMaxChecked
  <2>1. c \in BOOLEAN
    BY DEF RoundInv, Rounds
  <2>2. board = round.curBoard /\ blackToMove = round.blackFirst
    BY <1>1, BoardFacts
  <2>3. c <=> isChecked(board, blackToMove)
    BY <2>2 DEF LegalInv
  <2>4. offered = {m \in candidates : canMove(round, m, c, board)}
    BY <1>1, <2>2, OfferedFacts, Candidates DEF maxMoves
  <2> HIDE DEF c
  <2> QED
    BY <2>1, <2>3, <2>4
<1>2. CASE phase = "min"
  <2> DEFINE c == round.isMinChecked
  <2>1. c \in BOOLEAN
    BY DEF RoundInv, Rounds
  <2>2. board = round.maxStepState
    BY <1>2, BoardFacts
  <2>3. c <=> isChecked(board, blackToMove)
    BY <1>2 DEF LegalInv
  <2>4. offered = {m \in candidates : canMove(round, m, c, board)}
    BY <1>2, <2>2, OfferedFacts, Candidates DEF minMoves
  <2> HIDE DEF c
  <2> QED
    BY <2>1, <2>3, <2>4
<1> QED
  BY <1>1, <1>2 DEF RoundInv

\* The shortcuts of canMove are exact under both invariants.
LEMMA OfferedExact ==
  ASSUME RoundInv, LegalInv
  PROVE  LegalityExact
<1> DEFINE b == board
           black == blackToMove
<1>1. /\ BoardOK(b) /\ black \in BOOLEAN /\ round.blackFirst \in BOOLEAN
  BY BoardFacts
<1>2. /\ KingsCached(b) /\ EnPassantSafe(b, black) /\ LastMoverOK(b, black)
  BY DEF LegalInv
<1>3. PICK checked \in BOOLEAN :
        /\ checked <=> isChecked(b, black)
        /\ offered = {m \in candidates : canMove(round, m, checked, b)}
  BY FlagFacts
<1>4. ListOK(enemyList(round, black), b, black)
  BY EnemyListOK
<1>5. ASSUME NEW m \in candidates
      PROVE  canMove(round, m, checked, b) <=> ~isChecked(makeMove(b, m), black)
  <2>1. PICK s \in PiecesOf(b, black) : m \in getMoves(b, s)
    BY DEF candidates
  <2> HIDE DEF b, black
  <2> QED
    BY <1>1, <1>2, <1>3, <1>4, <2>1, CanMoveExact
<1> QED
  BY <1>3, <1>5 DEF LegalityExact

\* The flag of a new round is exact.
LEMMA NewRoundFlag ==
  ASSUME NEW b \in Boards, NEW black \in BOOLEAN, NEW l, NEW p
  PROVE  newRound(b, black, l, p).isMaxChecked <=> isChecked(b, black)
<1> DEFINE r == [curBoard |-> b, blackFirst |-> black, level |-> l, parentMove |-> p,
                 maxStepPieces |-> pieceList(b, black),
                 minStepPieces |-> pieceList(b, ~black), isMaxChecked |-> FALSE,
                 maxStepState |-> clearBoard, isMinChecked |-> FALSE]
           c == checkChecked(r, b, TRUE)
           list == pieceList(b, ~black)
<1>1. newRound(b, black, l, p) = [r EXCEPT !.isMaxChecked = c]
  BY DEF newRound
<1>2. c \in BOOLEAN
  BY DEF checkChecked
<1>3. newRound(b, black, l, p).isMaxChecked = c
  <2> HIDE DEF c
  <2> QED
    BY <1>1
<1>4. (~black) \in BOOLEAN
  OBVIOUS
<1>5. /\ list \in SUBSET Pieces /\ \A q \in list : q.type \in SideTypes(~black)
      /\ \A s \in PiecesOf(b, ~black) :
           \E q \in list : q.pos = s /\ q.type = b.positions[s]
  BY <1>4, PieceListFacts
<1>6. ASSUME NEW s \in Squares, b.positions[s] \in SideTypes(~black)
      PROVE  s \in {} \/ \E q \in list : q.pos = s /\ q.type = b.positions[s]
  BY <1>4, <1>5, <1>6, PiecesOfFacts
<1>7. r.blackFirst = black /\ enemyList(r, black) = list
  BY DEF enemyList
<1>8. c <=> \E q \in list : /\ getPieceTypeAtPosition(b, q.pos) = q.type
                            /\ canAttack(b, q.type, q.pos, kingPosition(b, black))
  <2>1. (black = r.blackFirst) = TRUE
    BY <1>7
  <2>2. r.blackFirst \in BOOLEAN
    BY <1>7
  <2> HIDE DEF r, list
  <2>3. checkChecked(r, b, black = r.blackFirst) <=>
          \E q \in list : /\ getPieceTypeAtPosition(b, q.pos) = q.type
                          /\ canAttack(b, q.type, q.pos, kingPosition(b, black))
    BY <1>7, <2>2, CheckListFacts
  <2> QED
    BY <2>1, <2>3
<1> HIDE DEF c, list, r
<1>9. isChecked(b, black) <=>
        \E q \in list : /\ getPieceTypeAtPosition(b, q.pos) = q.type
                        /\ canAttack(b, q.type, q.pos, kingPosition(b, black))
  <2> DEFINE none == {}
             hit == \E q \in list :
                       /\ getPieceTypeAtPosition(b, q.pos) = q.type
                       /\ canAttack(b, q.type, q.pos, kingPosition(b, black))
             more == \E s \in none \cap Squares :
                       /\ b.positions[s] \in SideTypes(~black)
                       /\ canAttack(b, b.positions[s], s, kingPosition(b, black))
  <2>1. \A s \in Squares : b.positions[s] \in SideTypes(~black) =>
          s \in none \/ \E q \in list : q.pos = s /\ q.type = b.positions[s]
    BY <1>6
  <2>2. ~more
    OBVIOUS
  <2> HIDE DEF none
  <2>3. isChecked(b, black) <=> hit \/ more
    BY <1>5, <2>1, CheckedByList
  <2> QED
    BY <2>2, <2>3
<1> QED
  BY <1>2, <1>3, <1>8, <1>9

\* isChecking finds every check that a move of the maximising side gives.
LEMMA CheckingExact ==
  ASSUME NEW r, r.blackFirst \in BOOLEAN, r.curBoard \in Boards,
         r.maxStepPieces = pieceList(r.curBoard, r.blackFirst),
         NEW m, MoveOK(r.curBoard, m),
         m.fromType \in SideTypes(r.blackFirst)
  PROVE  isChecking(r, makeMove(r.curBoard, m))
           <=> isChecked(makeMove(r.curBoard, m), ~r.blackFirst)
<1> DEFINE b == r.curBoard
           nb == makeMove(b, m)
           bf == r.blackFirst
           black == ~bf
           list == pieceList(b, bf)
           K == kingPosition(nb, black)
           hit == \E q \in list : /\ getPieceTypeAtPosition(nb, q.pos) = q.type
                                  /\ canAttack(nb, q.type, q.pos, K)
           direct == canAttack(nb, nb.positions[m.to], m.to, K)
           moved == \E s \in {m.to} \cap Squares : /\ nb.positions[s] \in SideTypes(~black)
                                                   /\ canAttack(nb, nb.positions[s], s, K)
<1>1. /\ nb \in Boards /\ nb.lastMove = m
      /\ \A s \in Squares : nb.positions[s] = TypeAfter(b, m, s)
      /\ nb.blackKing = IF m.fromType = B_KING THEN m.to ELSE b.blackKing
      /\ nb.whiteKing = IF m.fromType = W_KING THEN m.to ELSE b.whiteKing
  BY MakeMoveFacts, ApplyFacts
<1>2. bf \in BOOLEAN /\ black \in BOOLEAN /\ (black = bf) = FALSE
  OBVIOUS
<1>3. kingPosition(b, black) = K
  <2>1. bf => m.fromType # W_KING
    BY TypeFacts DEF SideTypes
  <2>2. ~bf => m.fromType # B_KING
    BY TypeFacts DEF SideTypes
  <2> QED
    BY <1>1, <2>1, <2>2 DEF kingPosition
<1>4. ListOK(list, nb, black)
  BY ListMissesMoved
<1>5. m.to \in Squares /\ nb.positions[m.to] \in SideTypes(~black)
  <2>1. m.to \in Squares
    BY DEF MoveOK
  <2>2. TypeAfter(b, m, m.to) \in SideTypes(bf)
    BY <2>1, EnemiesAfter
  <2> QED
    BY <1>1, <1>2, <2>1, <2>2
<1>6. enemyList(r, black) = list
  BY <1>2 DEF enemyList
<1>7. checkChecked(r, nb, FALSE) <=> hit
  <2>1. checkChecked(r, nb, black = bf) <=>
          \E q \in enemyList(r, black) :
             /\ getPieceTypeAtPosition(nb, q.pos) = q.type
             /\ canAttack(nb, q.type, q.pos, kingPosition(nb, black))
    <3> HIDE DEF nb, black
    <3> QED
      BY <1>2, CheckListFacts DEF bf
  <2> QED
    BY <1>2, <1>6, <2>1
<1>8. isChecking(r, nb) <=> direct \/ checkChecked(r, nb, FALSE)
  <2> HIDE DEF nb
  <2> QED
    BY <1>1, <1>3 DEF isChecking, getPieceTypeAtPosition
<1>9. direct <=> moved
  BY <1>5
<1> HIDE DEF nb, bf, black, list, K
<1>10. isChecked(nb, black) <=> hit \/ moved
  <2>1. list \in SUBSET Pieces /\ \A p \in list : p.type \in SideTypes(~black)
    BY <1>4 DEF ListOK
  <2>2. ASSUME NEW s \in Squares, nb.positions[s] \in SideTypes(~black)
        PROVE  s \in {m.to} \/ \E p \in list : p.pos = s /\ p.type = nb.positions[s]
    <3>1. s \in PiecesOf(nb, ~black)
      BY <1>1, <1>2, <2>2, PiecesOfFacts
    <3> QED
      BY <1>1, <1>4, <3>1 DEF ListOK
  <2> QED
    BY <1>1, <1>2, <2>1, <2>2, CheckedByList DEF K
<1> HIDE DEF hit, direct, moved
<1>11. isChecking(r, nb) <=> isChecked(nb, black)
  BY <1>7, <1>8, <1>9, <1>10
<1> QED
  BY <1>11 DEF nb, black, bf, b

\* A move that canMove lets through.
LEMMA OfferedKeeps ==
  ASSUME RoundInv, LegalInv, NEW m \in offered
  PROVE  /\ KingsCached(makeMove(board, m)) /\ ~isChecked(makeMove(board, m), blackToMove)
         /\ EnPassantSafe(makeMove(board, m), ~blackToMove)
         /\ LastMoverOK(makeMove(board, m), ~blackToMove)
<1>1. m \in candidates /\ ~isChecked(makeMove(board, m), blackToMove)
  BY OfferedExact DEF LegalityExact
<1>2. PICK s \in PiecesOf(board, blackToMove) : m \in getMoves(board, s)
  BY <1>1 DEF candidates
<1>3. BoardOK(board) /\ blackToMove \in BOOLEAN
  BY BoardFacts
<1>4. KingsCached(board) /\ ~isChecked(board, ~blackToMove)
  BY DEF LegalInv
<1> QED
  BY <1>1, <1>2, <1>3, <1>4, LegalMoveKeeps

\* The round of a legal root board.
LEMMA InitLegal ==
  ASSUME Init
  PROVE  LegalInv
<1>1. RoundInv
  BY InitRound
<1>2. PICK root \in Roots : round = newRound(root.board, root.blackFirst, 0, noMove)
  BY DEF Init
<1> DEFINE b == root.board
           black == root.blackFirst
<1>3. /\ b \in Boards /\ black \in BOOLEAN /\ b.lastMove = noMove /\ KingsCached(b)
      /\ ~isChecked(b, ~black) /\ 0 \in 0 .. (MaxLevel - 1) /\ noMove \in Moves
  BY RootsAssumption, LegalRootsAssumption, MaxLevelAssumption, NoMoveFacts
<1> HIDE DEF b, black
<1>4. round.curBoard = b /\ round.blackFirst = black
  BY <1>2, <1>3, NewRoundFacts DEF b, black
<1>5. round.isMaxChecked <=> isChecked(b, black)
  BY <1>2, <1>3, NewRoundFlag DEF b, black
<1>6. phase = "max"
  BY DEF Init
<1>7. board = b /\ blackToMove = black
  BY <1>1, <1>4, <1>6, BoardFacts
<1>8. EnPassantSafe(b, black) /\ LastMoverOK(b, black)
  <2>1. /\ noMove.fromType # W_PAWN /\ noMove.fromType # B_PAWN
        /\ noMove.to \notin Squares
    BY TypeFacts, SquareFacts DEF noMove
  <2> QED
    BY <1>3, <2>1 DEF EnPassantSafe, LastMoverOK, doubleStepped
<1> QED
  BY <1>3, <1>4, <1>5, <1>6, <1>7, <1>8 DEF LegalInv

\* The maximising move keeps LegalInv.
LEMMA MaxMoveLegal ==
  ASSUME RoundInv, LegalInv, NEW m \in maxMoves(round), MaxMove(m)
  PROVE  LegalInv'
<1> DEFINE nb == makeMove(round.curBoard, m)
           c == isChecking(round, nb)
<1>1. /\ phase' = "min" /\ phase = "max" /\ m \in offered
      /\ board' = makeMove(board, m) /\ blackToMove' = ~blackToMove
  BY MaxMoveRound
<1>2. board = round.curBoard /\ blackToMove = round.blackFirst /\ blackToMove \in BOOLEAN
  BY <1>1, BoardFacts
<1>3. /\ KingsCached(nb) /\ ~isChecked(nb, blackToMove)
      /\ EnPassantSafe(nb, ~blackToMove) /\ LastMoverOK(nb, ~blackToMove)
  BY <1>1, <1>2, OfferedKeeps
<1>4. c <=> isChecked(nb, ~blackToMove)
  <2>1. MoveOK(board, m) /\ m.fromType \in SideTypes(blackToMove)
    BY <1>1, OfferedFacts, Candidates
  <2>2. /\ round.curBoard \in Boards
        /\ round.maxStepPieces = pieceList(round.curBoard, round.blackFirst)
    BY DEF RoundInv, Rounds
  <2> QED
    BY <1>2, <2>1, <2>2, CheckingExact
<1>5. c \in BOOLEAN
  BY DEF isChecking
<1>6. /\ round'.isMinChecked = c /\ round'.isMaxChecked = round.isMaxChecked
      /\ round'.curBoard = round.curBoard /\ round'.blackFirst = round.blackFirst
  <2>1. round' = [round EXCEPT !.maxStepState = nb, !.isMinChecked = c]
    BY DEF MaxMove
  <2> HIDE DEF c, nb
  <2> QED
    BY <2>1 DEF RoundInv, Rounds
<1> HIDE DEF c
<1>7. board' = nb /\ (~blackToMove') = blackToMove
  BY <1>1, <1>2
<1> HIDE DEF nb
<1>8. round.isMaxChecked <=> isChecked(round.curBoard, round.blackFirst)
  BY DEF LegalInv
<1>9. /\ KingsCached(board') /\ ~isChecked(board', ~blackToMove')
      /\ EnPassantSafe(board', blackToMove') /\ LastMoverOK(board', blackToMove')
  BY <1>1, <1>3, <1>7
<1>10. round'.isMaxChecked <=> isChecked(round'.curBoard, round'.blackFirst)
  BY <1>6, <1>8
<1>11. round'.isMinChecked <=> isChecked(board', blackToMove')
  BY <1>1, <1>4, <1>6, <1>7
<1> QED
  BY <1>9, <1>10, <1>11 DEF LegalInv

\* The reply keeps LegalInv.
LEMMA MinMoveLegal ==
  ASSUME RoundInv, LegalInv, NEW m \in minMoves(round), MinMove(m)
  PROVE  LegalInv'
<1> DEFINE nb == makeMove(board, m)
<1>1. /\ phase' = "max" /\ m \in offered /\ RoundInv'
      /\ board' = nb /\ blackToMove' = ~blackToMove
      /\ round' = newRound(board', blackToMove', round.level + 1,
                           round.maxStepState.lastMove)
  BY MinMoveRound
<1>2. blackToMove \in BOOLEAN /\ board \in Boards
  BY BoardFacts
<1>3. /\ KingsCached(nb) /\ ~isChecked(nb, blackToMove)
      /\ EnPassantSafe(nb, ~blackToMove) /\ LastMoverOK(nb, ~blackToMove)
  BY <1>1, OfferedKeeps
<1>4. nb \in Boards
  <2>1. MoveOK(board, m)
    BY <1>1, OfferedFacts, Candidates
  <2> QED
    BY <1>2, <2>1, MakeMoveFacts
<1> HIDE DEF nb
<1>5. (~blackToMove') = blackToMove /\ blackToMove' \in BOOLEAN
  BY <1>1, <1>2
<1>6. /\ KingsCached(board') /\ ~isChecked(board', ~blackToMove')
      /\ EnPassantSafe(board', blackToMove') /\ LastMoverOK(board', blackToMove')
  BY <1>1, <1>3, <1>5
<1>7. round'.isMaxChecked <=> isChecked(board', blackToMove')
  BY <1>1, <1>4, <1>5, NewRoundFlag
<1>8. board' = round'.curBoard /\ blackToMove' = round'.blackFirst
  BY <1>1 DEF board, blackToMove
<1>9. phase' # "min"
  BY <1>1
<1> QED
  BY <1>6, <1>7, <1>8, <1>9 DEF LegalInv

\* Every step keeps LegalInv.
LEMMA StepLegal ==
  ASSUME RoundInv, LegalInv, [Next]_vars
  PROVE  LegalInv'
<1>1. ASSUME NEW m \in maxMoves(round), MaxMove(m)
      PROVE  LegalInv'
  BY <1>1, MaxMoveLegal
<1>2. ASSUME NEW m \in minMoves(round), MinMove(m)
      PROVE  LegalInv'
  BY <1>2, MinMoveLegal
<1>3. ASSUME UNCHANGED vars
      PROVE  LegalInv'
  BY <1>3 DEF vars, LegalInv, board, blackToMove
<1> QED
  BY <1>1, <1>2, <1>3 DEF Next

\* The moves of a new round on a board without a last move.
LEMMA FreshRoundMoves ==
  ASSUME NEW b \in Boards, KingsCached(b), b.lastMove = noMove, NEW black \in BOOLEAN
  PROVE  maxMoves(newRound(b, black, 0, noMove))
           = {m \in UNION {getMoves(b, s) : s \in PiecesOf(b, black)} :
                ~isChecked(makeMove(b, m), black)}
<1> DEFINE r == newRound(b, black, 0, noMove)
           c == r.isMaxChecked
           all == UNION {getMoves(b, s) : s \in PiecesOf(b, black)}
<1>1. noMove \in Moves /\ 0 \in 0 .. (MaxLevel - 1)
  BY NoMoveFacts, MaxLevelAssumption
<1>2. /\ r \in Rounds /\ r.curBoard = b /\ r.blackFirst = black
      /\ r.maxStepPieces = pieceList(b, black)
      /\ r.minStepPieces = pieceList(b, ~black)
  BY <1>1, NewRoundFacts
<1>3. c \in BOOLEAN
  BY <1>2 DEF Rounds
<1>4. c <=> isChecked(b, black)
  BY NewRoundFlag
<1> HIDE DEF r, c
<1>5. enemyList(r, black) = pieceList(b, ~black)
  BY <1>2 DEF enemyList
<1>6. ListOK(enemyList(r, black), b, black)
  BY <1>5, ListHasAll
<1>7. BoardOK(b)
  BY CachedAreUnique, FreshBoardOK
<1>8. EnPassantSafe(b, black) /\ LastMoverOK(b, black)
  <2>1. /\ noMove.fromType # W_PAWN /\ noMove.fromType # B_PAWN
        /\ noMove.to \notin Squares
    BY TypeFacts, SquareFacts DEF noMove
  <2> QED
    BY <2>1 DEF EnPassantSafe, LastMoverOK, doubleStepped
<1>9. {p.pos : p \in pieceList(b, black)} = PiecesOf(b, black)
  BY PieceListFacts
<1>10. maxMoves(r) = {m \in all : canMove(r, m, c, b)}
  BY <1>2, <1>9 DEF maxMoves, c
<1>11. ASSUME NEW m \in all
       PROVE  canMove(r, m, c, b) <=> ~isChecked(makeMove(b, m), black)
  <2>1. PICK s \in PiecesOf(b, black) : m \in getMoves(b, s)
    OBVIOUS
  <2>2. r.blackFirst \in BOOLEAN
    BY <1>2
  <2> QED
    BY <1>3, <1>4, <1>6, <1>7, <1>8, <2>1, <2>2, CanMoveExact
<1> HIDE DEF all
<1>12. maxMoves(r) = {m \in all : ~isChecked(makeMove(b, m), black)}
  BY <1>10, <1>11
<1> QED
  BY <1>12 DEF r, all

\* The board without its last move.
LEMMA Forgotten ==
  ASSUME NEW b \in Boards
  PROVE  /\ [b EXCEPT !.lastMove = noMove] \in Boards
         /\ [b EXCEPT !.lastMove = noMove].lastMove = noMove
         /\ [b EXCEPT !.lastMove = noMove].positions = b.positions
         /\ [b EXCEPT !.lastMove = noMove].blackKing = b.blackKing
         /\ [b EXCEPT !.lastMove = noMove].whiteKing = b.whiteKing
BY NoMoveFacts DEF Boards

\* A move on two boards with the same squares leaves the king as safe on the one as
\* on the other.
LEMMA SameAfter ==
  ASSUME NEW b, NEW c, BoardOK(b), BoardOK(c), KingsCached(b),
         c.positions = b.positions, c.blackKing = b.blackKing, c.whiteKing = b.whiteKing,
         NEW black \in BOOLEAN, NEW m, MoveOK(b, m), MoveOK(c, m),
         m.fromType \in SideTypes(black)
  PROVE  isChecked(makeMove(b, m), black) <=> isChecked(makeMove(c, m), black)
<1>1. b \in Boards /\ c \in Boards
  BY DEF BoardOK
<1> DEFINE nb == makeMove(b, m)
           nc == makeMove(c, m)
<1>2. /\ nb \in Boards /\ nc \in Boards
      /\ \A s \in Squares : nb.positions[s] = TypeAfter(b, m, s)
      /\ \A s \in Squares : nc.positions[s] = TypeAfter(c, m, s)
      /\ nb.blackKing = apply(b, m).blackKing /\ nb.whiteKing = apply(b, m).whiteKing
      /\ nc.blackKing = apply(c, m).blackKing /\ nc.whiteKing = apply(c, m).whiteKing
  BY <1>1, MakeMoveFacts
<1>3. \A s \in Squares : TypeAfter(b, m, s) = TypeAfter(c, m, s)
  BY DEF TypeAfter
<1>4. /\ apply(b, m).blackKing = apply(c, m).blackKing
      /\ apply(b, m).whiteKing = apply(c, m).whiteKing
  BY <1>1, ApplyFacts
<1>5. kingPosition(apply(b, m), black) \in Squares
  BY OwnKingAfter
<1> HIDE DEF nb, nc
<1>6. /\ kingPosition(nb, black) = kingPosition(apply(b, m), black)
      /\ kingPosition(nb, black) = kingPosition(nc, black)
  BY <1>2, <1>4 DEF kingPosition
<1>7. isChecked(nb, black) <=> isChecked(nc, black)
  BY <1>2, <1>3, <1>5, <1>6, SameChecks
<1> QED
  BY <1>7 DEF nb, nc

\* The moves of a board are those of the same board without its last move, captures
\* en passant apart.
LEMMA SquaresDecide ==
  ASSUME RoundInv, LegalInv
  PROVE  SquaresDecideMoves
<1> DEFINE b == board
           black == blackToMove
           c == [b EXCEPT !.lastMove = noMove]
           all == UNION {getMoves(c, s) : s \in PiecesOf(c, black)}
<1>1. /\ BoardOK(b) /\ b \in Boards /\ black \in BOOLEAN /\ KingsCached(b)
  BY BoardFacts DEF LegalInv
<1>2. offered = {m \in candidates : ~isChecked(makeMove(b, m), black)}
  BY OfferedExact DEF LegalityExact
<1>3. candidates = UNION {getMoves(b, s) : s \in PiecesOf(b, black)}
  BY DEF candidates
<1>4. /\ c \in Boards /\ c.lastMove = noMove /\ c.positions = b.positions
      /\ c.blackKing = b.blackKing /\ c.whiteKing = b.whiteKing
  BY <1>1, Forgotten
<1> HIDE DEF b, black, c
<1>5. KingsCached(c)
  BY <1>1, <1>4 DEF KingsCached, getPieceTypeAtPosition
<1>6. BoardOK(c)
  BY <1>4, <1>5, CachedAreUnique, FreshBoardOK
<1>7. PiecesOf(c, black) = PiecesOf(b, black)
  BY <1>4 DEF PiecesOf, getPieceTypeAtPosition
<1>8. maxMoves(newRound(c, black, 0, noMove))
        = {m \in all : ~isChecked(makeMove(c, m), black)}
  BY <1>1, <1>4, <1>5, FreshRoundMoves
<1>9. ASSUME NEW s \in PiecesOf(b, black)
      PROVE  getMoves(c, s) = {m \in getMoves(b, s) : m.special # PAWN_EN_PASSANT}
  <2>1. s \in Squares /\ b.positions[s] \in PieceTypes
    BY <1>1, PiecesOfFacts DEF SideTypes, PieceTypes
  <2> QED
    BY <1>1, <1>4, <2>1, MovesWithoutLast
<1>10. all = {m \in candidates : m.special # PAWN_EN_PASSANT}
  BY <1>3, <1>7, <1>9
<1>11. ASSUME NEW m \in all
       PROVE  isChecked(makeMove(b, m), black) <=> isChecked(makeMove(c, m), black)
  <2>1. PICK s \in PiecesOf(b, black) : m \in getMoves(c, s)
    BY <1>7
  <2>2. m \in getMoves(b, s) /\ s \in PiecesOf(c, black)
    BY <1>7, <1>9, <2>1
  <2>3. MoveOK(b, m) /\ m.fromType \in SideTypes(black)
    BY <1>1, <2>1, <2>2, SideMove
  <2>4. MoveOK(c, m)
    BY <1>1, <1>6, <2>1, <2>2, SideMove
  <2> QED
    BY <1>1, <1>4, <1>6, <2>3, <2>4, SameAfter
<1> HIDE DEF all
<1>12. {m \in offered : m.special # PAWN_EN_PASSANT} = maxMoves(newRound(c, black, 0, noMove))
  BY <1>2, <1>8, <1>10, <1>11
<1> QED
  BY <1>12 DEF SquaresDecideMoves, c, b, black

\* Both successor generators reach the same positions.
LEMMA SearchesAgree ==
  ASSUME RoundInv, LegalInv
  PROVE  NextStatesAgree
<1>1. SUFFICES ASSUME ~WhiteEnPassant
               PROVE  bfsPositions = dfsPositions
  BY DEF NextStatesAgree
<1> DEFINE b == board
           black == blackToMove
           legal(s) == {x \in getMoves(b, s) : ~isChecked(makeMove(b, x), black)}
<1>2. BoardOK(b) /\ black \in BOOLEAN /\ KingsCached(b)
  BY BoardFacts DEF LegalInv
<1>3. offered = {m \in candidates : ~isChecked(makeMove(b, m), black)}
  BY OfferedExact DEF LegalityExact
<1>4. candidates = UNION {getMoves(b, s) : s \in PiecesOf(b, black)}
  BY DEF candidates
<1>5. bfsPositions = UNION {{nb.positions : nb \in getNextStates(b, s)} : s \in PiecesOf(b, black)}
  BY DEF bfsPositions
<1>6. dfsPositions = {makeMove(b, m).positions : m \in offered}
  BY DEF dfsPositions
<1>7. \A m \in candidates : m.special = PAWN_EN_PASSANT => m.fromType # W_PAWN
  BY <1>1 DEF WhiteEnPassant
<1> HIDE DEF b, black
<1>8. ASSUME NEW s \in PiecesOf(b, black)
      PROVE  {nb.positions : nb \in getNextStates(b, s)}
               = {makeMove(b, m).positions : m \in legal(s)}
  <2>1. \A m \in getMoves(b, s) : m.special = PAWN_EN_PASSANT => m.fromType # W_PAWN
    BY <1>4, <1>7
  <2> QED
    BY <1>2, <2>1, NextStatesOf
<1>9. \A m : m \in offered <=> \E s \in PiecesOf(b, black) : m \in legal(s)
  BY <1>3, <1>4
<1> HIDE DEF legal
<1>10. ASSUME NEW q
       PROVE  q \in bfsPositions <=> \E s \in PiecesOf(b, black) : \E m \in legal(s) :
                                        q = makeMove(b, m).positions
  BY <1>5, <1>8
<1>11. ASSUME NEW q
       PROVE  q \in dfsPositions <=> \E s \in PiecesOf(b, black) : \E m \in legal(s) :
                                        q = makeMove(b, m).positions
  BY <1>6, <1>9
<1> QED
  BY <1>10, <1>11

----------------------------------------------------------------------------
\* The invariant of a line of play: in every phase the piece lists are those of
\* the round's first board and the board of the minimising step is that board
\* after one generated move.
THEOREM RoundInvariant == Spec => []RoundInv
<1>1. Init => RoundInv
  BY InitRound
<1>2. RoundInv /\ [Next]_vars => RoundInv'
  BY StepRound
<1> QED
  BY <1>1, <1>2, PTL DEF Spec

\* Rounds hold boards, lists of pieces and flags of the declared types, for every
\* set of roots and every number of levels.
THEOREM RoundTypeCorrect == Spec => []TypeOK
<1>1. RoundInv => TypeOK
  BY DEF RoundInv, Rounds, TypeOK
<1> QED
  BY <1>1, RoundInvariant, PTL

\* Whatever move TryMove tries, its destructor puts the auxiliary board back
\* exactly: Move::undo inverts Move::apply for every generated move of every
\* board that a line of play reaches.
THEOREM UndoAlwaysRestores == Spec => []UndoRestores
<1>1. RoundInv => UndoRestores
  <2>1. SUFFICES ASSUME RoundInv, NEW m \in candidates
                 PROVE  undo(apply(board, m), m) = board
    BY DEF UndoRestores
  <2>2. BoardOK(board) /\ MoveOK(board, m)
    BY <2>1, BoardFacts, Candidates
  <2> QED
    BY <2>2, UndoApply DEF BoardOK
<1> QED
  BY <1>1, RoundInvariant, PTL

\* No generated move aborts the process in Move::apply or in setupEnPassant.
THEOREM ChecksNeverFail == Spec => []ApplyChecksPass
<1>1. RoundInv => ApplyChecksPass
  <2>1. SUFFICES ASSUME RoundInv, NEW m \in candidates
                 PROVE  applyChecks(board, m)
    BY DEF ApplyChecksPass
  <2>2. BoardOK(board) /\ MoveOK(board, m)
    BY <2>1, BoardFacts, Candidates
  <2> QED
    BY <2>2, ChecksPass DEF BoardOK
<1> QED
  BY <1>1, RoundInvariant, PTL

\* What becomes of the mover's side: the moved piece leaves its square for its
\* target, and nothing else of it changes.
LEMMA MoverKeeps ==
  ASSUME NEW b \in Boards, NEW nb \in Boards, NEW m, MoveOK(b, m),
         NEW black \in BOOLEAN, m.fromType \in SideTypes(black),
         \A s \in Squares : nb.positions[s] = TypeAfter(b, m, s)
  PROVE  /\ {s \in PiecesOf(b, black) : nb.positions[s] # b.positions[s]} = {m.from}
         /\ PiecesOf(nb, black) = (PiecesOf(b, black) \ {m.from}) \cup {m.to}
         /\ PiecesOf(nb, ~black) \subseteq PiecesOf(b, ~black)
<1> DEFINE own   == SideTypes(black)
           other == SideTypes(~black)
<1>1. /\ m.from \in Squares /\ m.to \in Squares /\ m.to # m.from
      /\ m.fromType = b.positions[m.from] /\ m.toType = b.positions[m.to]
      /\ ~isSameColor(m.fromType, m.toType)
      /\ m.fromType \in Types /\ m.toType \in Types
  BY DEF MoveOK, Moves
<1>2. /\ PiecesOf(b, black) = {s \in Squares : b.positions[s] \in own}
      /\ PiecesOf(nb, black) = {s \in Squares : nb.positions[s] \in own}
  BY PiecesOfFacts
<1>3. /\ PiecesOf(b, ~black) = {s \in Squares : b.positions[s] \in other}
      /\ PiecesOf(nb, ~black) = {s \in Squares : nb.positions[s] \in other}
  BY PiecesOfFacts
<1>4. m.toType \notin own /\ EMPTY \notin own /\ m.fromType # EMPTY
  BY <1>1, TypeFacts, ColorFacts DEF SideTypes
<1>5. m.special = PAWN_EN_PASSANT => b.positions[enPassantPos(m)] \notin own
  <2> SUFFICES ASSUME m.special = PAWN_EN_PASSANT
               PROVE  b.positions[enPassantPos(m)] \notin own
    OBVIOUS
  <2>1. /\ b.positions[enPassantPos(m)] = enPassantPawn(m)
        /\ m.fromType \in Pawns /\ enPassantPawn(m) \in Pawns
        /\ enPassantPawn(m) # m.fromType
    BY TakenFacts
  <2> QED
    BY <2>1, TypeFacts DEF SideTypes, Pawns
<1> HIDE DEF own, other
<1>6. ASSUME NEW s \in Squares
      PROVE  /\ s = m.to => nb.positions[s] \in own
             /\ s = m.from => nb.positions[s] = EMPTY
             /\ nb.positions[s] \in other => nb.positions[s] = b.positions[s]
             /\ b.positions[s] \in own /\ s # m.from => nb.positions[s] = b.positions[s]
             /\ nb.positions[s] \in own /\ s # m.to => nb.positions[s] = b.positions[s]
  <2>1. nb.positions[s] = TypeAfter(b, m, s)
    OBVIOUS
  <2>2. /\ s = m.to => nb.positions[s] \in own
        /\ s = m.from => nb.positions[s] = EMPTY
        /\ nb.positions[s] \in other => nb.positions[s] = b.positions[s]
    BY <2>1, EnemiesAfter DEF own, other
  <2>3. b.positions[s] \in own /\ s # m.from => nb.positions[s] = b.positions[s]
    BY <1>1, <1>4, <1>5, <2>1 DEF TypeAfter
  <2>4. nb.positions[s] \in own /\ s # m.to => nb.positions[s] = b.positions[s]
    BY <1>4, <2>1 DEF TypeAfter
  <2> QED
    BY <2>2, <2>3, <2>4
<1>7. b.positions[m.from] \in own
  BY <1>1 DEF own
<1>8. {s \in PiecesOf(b, black) : nb.positions[s] # b.positions[s]} = {m.from}
  BY <1>1, <1>2, <1>4, <1>6, <1>7
<1>9. PiecesOf(nb, black) = (PiecesOf(b, black) \ {m.from}) \cup {m.to}
  BY <1>1, <1>2, <1>4, <1>6
<1>10. PiecesOf(nb, ~black) \subseteq PiecesOf(b, ~black)
  BY <1>3, <1>6
<1> QED
  BY <1>8, <1>9, <1>10

\* Every step moves one piece, takes exactly one of the other side when it captures,
\* the pawn passed in an en passant capture included, and changes nothing else.
LEMMA StepCaptures ==
  ASSUME RoundInv, Next
  PROVE  CaptureStep
<1> DEFINE b  == board
           nb == IF phase = "max" THEN round'.maxStepState ELSE round'.curBoard
           black == blackToMove
<1>1. \E m \in candidates : nb = makeMove(b, m)
  <2>1. ASSUME NEW m \in maxMoves(round), MaxMove(m)
        PROVE  m \in candidates /\ nb = makeMove(b, m)
    BY <2>1, MaxMoveRound, OfferedFacts
  <2>2. ASSUME NEW m \in minMoves(round), MinMove(m)
        PROVE  m \in candidates /\ nb = makeMove(b, m)
    BY <2>2, MinMoveRound, OfferedFacts
  <2> QED
    BY <2>1, <2>2 DEF Next
<1>2. PICK m \in candidates : nb = makeMove(b, m)
  BY <1>1
<1>3. MoveOK(b, m) /\ m.fromType \in SideTypes(black) /\ b \in Boards /\ black \in BOOLEAN
  BY Candidates, BoardFacts
<1>4. /\ nb \in Boards /\ nb.lastMove = m
      /\ \A s \in Squares : nb.positions[s] = TypeAfter(b, m, s)
  BY <1>2, <1>3, MakeMoveFacts
<1>5. PiecesOf(b, ~black) \subseteq Squares
  BY DEF PiecesOf
<1>6. {s \in PiecesOf(b, ~black) : nb.positions[s] # b.positions[s]}
        = IF m.special = PAWN_EN_PASSANT THEN {enPassantPos(m)}
          ELSE {s \in {m.to} : m.toType # EMPTY}
  <2> HIDE DEF b, nb, black
  <2>1. {s \in PiecesOf(b, ~black) : TypeAfter(b, m, s) # b.positions[s]}
          = IF m.special = PAWN_EN_PASSANT THEN {enPassantPos(m)}
            ELSE {s \in {m.to} : m.toType # EMPTY}
    BY <1>3, MoveTakes
  <2>2. {s \in PiecesOf(b, ~black) : nb.positions[s] # b.positions[s]}
          = {s \in PiecesOf(b, ~black) : TypeAfter(b, m, s) # b.positions[s]}
    BY <1>4, <1>5
  <2> QED
    BY <2>1, <2>2
<1>7. /\ {s \in PiecesOf(b, black) : nb.positions[s] # b.positions[s]} = {m.from}
      /\ PiecesOf(nb, black) = (PiecesOf(b, black) \ {m.from}) \cup {m.to}
      /\ PiecesOf(nb, ~black) \subseteq PiecesOf(b, ~black)
  <2> HIDE DEF b, nb, black
  <2> QED
    BY <1>3, <1>4, MoverKeeps
<1> QED
  BY <1>4, <1>6, <1>7 DEF CaptureStep, getPieceTypeAtPosition

\* No step ever changes a piece of the mover but the one that it moves, or takes more
\* than the piece it captures.
THEOREM CapturesAccounted == Spec => CaptureAccounting
<1>1. RoundInv /\ [Next]_vars => [CaptureStep]_vars
  BY StepCaptures
<1> QED
  BY <1>1, RoundInvariant, PTL DEF Spec, CaptureAccounting

\* The legality invariant: kings in place, the side that does not move never in
\* check, exact flags, and for a pawn that can be taken en passant that the king of
\* the side that can take it was not attacked before the pawn moved.
THEOREM LegalInvariant == Spec => []LegalInv
<1>1. Init => LegalInv
  BY InitLegal
<1>2. RoundInv /\ LegalInv /\ [Next]_vars => LegalInv'
  BY StepLegal
<1> QED
  BY <1>1, <1>2, RoundInvariant, PTL DEF Spec

\* canMove, with its stale lists, its look at the last move and its one line through
\* the king, lets through exactly the generated moves that leave the mover's king
\* unattacked, on every board of every line of play.
THEOREM ShortcutsExact == Spec => []LegalityExact
<1>1. RoundInv /\ LegalInv => LegalityExact
  BY OfferedExact
<1> QED
  BY <1>1, RoundInvariant, LegalInvariant, PTL

\* isMaxChecked_ and isMinChecked_ agree with the full-board test whenever canMove
\* reads them.
THEOREM FlagsExact == Spec => []CheckFlagExact
<1>1. RoundInv /\ LegalInv => CheckFlagExact
  <2>1. SUFFICES ASSUME RoundInv, LegalInv
                 PROVE  CheckFlagExact
    OBVIOUS
  <2>2. CASE phase = "max"
    <3>1. board = round.curBoard /\ blackToMove = round.blackFirst
      BY <2>1, <2>2, BoardFacts
    <3>2. round.isMaxChecked <=> isChecked(round.curBoard, round.blackFirst)
      BY <2>1 DEF LegalInv
    <3> QED
      BY <2>2, <3>1, <3>2 DEF CheckFlagExact
  <2>3. CASE phase = "min"
    <3>1. round.isMinChecked <=> isChecked(board, blackToMove)
      BY <2>1, <2>3 DEF LegalInv
    <3> QED
      BY <2>3, <3>1 DEF CheckFlagExact
  <2> QED
    BY <2>1, <2>2, <2>3 DEF RoundInv
<1> QED
  BY <1>1, RoundInvariant, LegalInvariant, PTL

\* No move that canMove lets through ever takes a king: both stay on the board, on
\* the squares that blackKing_ and whiteKing_ cache.
THEOREM KingsNeverTaken == Spec => []KingsStayCached
<1>1. LegalInv => KingsStayCached
  BY DEF LegalInv, KingsStayCached
<1> QED
  BY <1>1, LegalInvariant, PTL

\* canAttack and getMoves of every piece class agree on what can be taken.
THEOREM AttacksAgree == Spec => []AttacksAreCaptures
<1>1. RoundInv => AttacksAreCaptures
  <2>1. SUFFICES ASSUME RoundInv, NEW s \in PiecesOf(board, blackToMove),
                        NEW t \in PiecesOf(board, ~blackToMove)
                 PROVE  canAttack(board, board.positions[s], s, t)
                          <=> \E m \in getMoves(board, s) : m.to = t
    BY DEF AttacksAreCaptures, getPieceTypeAtPosition
  <2>2. board \in Boards /\ blackToMove \in BOOLEAN
    BY <2>1, BoardFacts
  <2> QED
    BY <2>1, <2>2, AttackIsCapture
<1> QED
  BY <1>1, RoundInvariant, PTL

\* Captures en passant apart, the squares alone decide the moves that a round offers:
\* neither the last move nor the age of the piece lists matters, which is what lets
\* the cached scores be found under a hash of the squares.
THEOREM SquaresDecideEverywhere == Spec => []SquaresDecideMoves
<1>1. RoundInv /\ LegalInv => SquaresDecideMoves
  BY SquaresDecide
<1> QED
  BY <1>1, RoundInvariant, LegalInvariant, PTL

\* The breadth-first search, which rebuilds the kind of a move from its squares, and
\* the depth-first search reach the same positions in one move from every board on
\* which no white pawn can take en passant.
THEOREM SearchersAgree == Spec => []NextStatesAgree
<1>1. RoundInv /\ LegalInv => NextStatesAgree
  BY SearchesAgree
<1> QED
  BY <1>1, RoundInvariant, LegalInvariant, PTL
=============================================================================
