------------------------------ MODULE Evaluate ------------------------------
(***************************************************************************)
(* The breadth-first evaluation (Board::expand and Board::evaluate,        *)
(* chess/board.cc) as the program checkmate.cc runs it, with the printing  *)
(* of the solution tree.                                                   *)
(*                                                                         *)
(* A layer of the search is a sequence of nodes; a node's parent is the    *)
(* index of a node in the layer before (the C++ code has a pointer to that *)
(* node's board).  The solution tree keeps, layer by layer, the indices of *)
(* the nodes that are moved into it; all the others are freed when         *)
(* evaluate returns.                                                       *)
(***************************************************************************)
EXTENDS MateGame, Score, Sequences

CONSTANTS
  OtherChecked(_),   \* the minimising king is in check on a MaxPos board
  Listed(_),         \* boards in the order in which they are generated
  Cornered(_, _),    \* a MinPos board that loses within some rounds when a
                     \* check by the last move counts as a mate
  Doomed(_, _)       \* a MaxPos board in check that, whatever it moves, is in
                     \* check again until it is mated within some rounds

Lists(S, list) ==
  /\ list \in Seq(S)
  /\ \A b \in S : \E k \in 1 .. Len(list) : list[k] = b
  /\ \A j, k \in 1 .. Len(list) : list[j] = list[k] => j = k

\* getNextStates drops the moves that leave the mover's own king in check.
ASSUME EvaluateAssumption ==
  /\ \A p \in MaxPos : OtherChecked(p) \in BOOLEAN
  /\ \A q \in MinPos : \A p \in MinMoves(q) : ~OtherChecked(p)
  /\ \A p \in MaxPos : Lists(MaxMoves(p), Listed(MaxMoves(p)))
  /\ \A q \in MinPos : Lists(MinMoves(q), Listed(MinMoves(q)))

\* The references that the score is measured by, besides MateMax.
ASSUME ForcedAssumption ==
  /\ \A q \in MinPos, h \in 1 .. Levels :
       Cornered(q, h) <=>
         IF MinMoves(q) = {} \/ h = 1 THEN MinChecked(q)
         ELSE \A p \in MinMoves(q) : \E r \in MaxMoves(p) : Cornered(r, h - 1)
  /\ \A p \in MaxPos, h \in 1 .. Levels :
       Doomed(p, h) <=>
         /\ MaxChecked(p)
         /\ \A q \in MaxMoves(p) :
              \E r \in MinMoves(q) : h > 1 /\ Doomed(r, h - 1)

VARIABLES
  board,     \* the board that evaluate is called on
  depth,     \* maxDepth
  bfs,       \* the layers
  tree,      \* the solution tree, empty until it is sized
  pc,        \* the loop that is running, or how the program has ended
  layer,     \* its layer, i in the code
  at,        \* the index of the next node in that layer
  ret,       \* the score that evaluate returns
  printed    \* for each layer, the places of the solution tree printed

vars == <<board, depth, bfs, tree, pc, layer, at, ret, printed>>

\* The maximising side moves on the boards of the even layers.
maxToMove(l) == l % 2 = 0

Node(l) == [parent : Nat, board : IF maxToMove(l) THEN MaxPos ELSE MinPos,
            score : Int]

max(m, n) == IF m >= n THEN m ELSE n
min(m, n) == IF m <= n THEN m ELSE n

\* --moves rounds are twice as many layers.
Init ==
  /\ board \in RootPos
  /\ \E moves \in 1 .. Levels : depth = 2 * moves
  /\ bfs = << >> /\ tree = << >> /\ printed = << >>
  /\ pc = "start" /\ layer = 0 /\ at = 0 /\ ret = NONE

\* A board with the opponent already in check returns before anything is
\* searched and before the solution tree is sized.
Start ==
  /\ pc = "start"
  /\ IF OtherChecked(board)
       THEN /\ ret' = CHECKMATE /\ pc' = "print"
            /\ UNCHANGED <<bfs, layer, at>>
       ELSE /\ bfs' = [l \in 0 .. depth |->
                         IF l = 0
                           THEN <<[parent |-> 0, board |-> board, score |-> NONE]>>
                           ELSE << >>]
            /\ pc' = "expand" /\ layer' = 1 /\ at' = 1
            /\ UNCHANGED ret
  /\ UNCHANGED <<board, depth, tree, printed>>

----------------------------------------------------------------------------
(***************************************************************************)
(* Forward expansion.                                                      *)
(***************************************************************************)

\* A check that is not told apart from a stalemate.
expandScoreNoCheck(b, l) ==
  IF maxToMove(l - 1)
    THEN IF OtherChecked(b) THEN CHECKMATE
         ELSE IF MaxChecked(b) THEN -CHECKMATE ELSE NONE
    ELSE 1 + CHECKMATE

\* A side that is lost as soon as it is in check.
expandScoreEager(b, l) ==
  IF maxToMove(l - 1)
    THEN IF OtherChecked(b) THEN CHECKMATE ELSE -CHECKMATE
    ELSE IF MinChecked(b) THEN CHECKMATE ELSE 1 + CHECKMATE

\* The score that expand gives a board on its way to layer l.
expandScore(b, l) ==
  IF maxToMove(l - 1)
    THEN IF OtherChecked(b) THEN CHECKMATE
         ELSE IF MaxChecked(b) THEN -CHECKMATE ELSE NONE
    ELSE IF MinChecked(b) THEN CHECKMATE ELSE 1 + CHECKMATE

\* The boards that expand appends, in order.
nextStates(b, l) ==
  IF maxToMove(l - 1) THEN Listed(MaxMoves(b)) ELSE Listed(MinMoves(b))

\* Children that are put in front of those of the earlier boards.
ExpandInterleaved ==
  LET b    == bfs[layer - 1][at].board
      s    == expandScore(b, layer)
      kids == [k \in 1 .. Len(nextStates(b, layer)) |->
                 [parent |-> at, board |-> nextStates(b, layer)[k], score |-> s]]
      half == Len(bfs[layer]) \div 2
  IN  /\ pc = "expand"
      /\ at <= Len(bfs[layer - 1])
      /\ bfs' = [bfs EXCEPT ![layer - 1][at].score = s,
                            ![layer] = SubSeq(@, 1, half) \o kids
                                         \o SubSeq(@, half + 1, Len(@))]
      /\ at' = at + 1
      /\ UNCHANGED <<board, depth, tree, pc, layer, ret, printed>>

\* Board::expand.  A child is a clone of its parent, so that it starts with
\* the score the parent has just been given.
Expand ==
  LET b    == bfs[layer - 1][at].board
      s    == expandScore(b, layer)
      kids == [k \in 1 .. Len(nextStates(b, layer)) |->
                 [parent |-> at, board |-> nextStates(b, layer)[k], score |-> s]]
  IN  /\ pc = "expand"
      /\ at <= Len(bfs[layer - 1])
      /\ bfs' = [bfs EXCEPT ![layer - 1][at].score = s, ![layer] = @ \o kids]
      /\ at' = at + 1
      /\ UNCHANGED <<board, depth, tree, pc, layer, ret, printed>>

\* One layer too many.
ExpandNextLayerTooFar ==
  /\ pc = "expand"
  /\ at > Len(bfs[layer - 1])
  /\ at' = 1
  /\ IF layer <= depth THEN layer' = layer + 1 /\ UNCHANGED pc
                       ELSE pc' = "propagate" /\ UNCHANGED layer
  /\ UNCHANGED <<board, depth, bfs, tree, ret, printed>>

\* The next layer is expanded; the boards of the last one are not.
ExpandNextLayer ==
  /\ pc = "expand"
  /\ at > Len(bfs[layer - 1])
  /\ at' = 1
  /\ IF layer < depth THEN layer' = layer + 1 /\ UNCHANGED pc
                      ELSE pc' = "propagate" /\ UNCHANGED layer
  /\ UNCHANGED <<board, depth, bfs, tree, ret, printed>>

----------------------------------------------------------------------------
(***************************************************************************)
(* Backward min-max propagation.                                           *)
(***************************************************************************)

\* The minimum over the replies is forgotten.
PropagateMaxOnly ==
  LET node == bfs[layer][at]
      own  == IF maxToMove(layer) /\ node.score > CHECKMATE
                THEN STALLMATE ELSE node.score
  IN  /\ pc = "propagate"
      /\ at <= Len(bfs[layer])
      /\ bfs' = [bfs EXCEPT ![layer][at].score = own,
                            ![layer - 1][node.parent].score = max(@, own)]
      /\ at' = at + 1
      /\ UNCHANGED <<board, depth, tree, pc, layer, ret, printed>>

\* A node of an odd layer is an alternative of the maximising side.  On an
\* even one, a score above CHECKMATE is turned into a stalemate first.
Propagate ==
  LET node == bfs[layer][at]
      own  == IF maxToMove(layer) /\ node.score > CHECKMATE
                THEN STALLMATE ELSE node.score
  IN  /\ pc = "propagate"
      /\ at <= Len(bfs[layer])
      /\ bfs' = [bfs EXCEPT ![layer][at].score = own,
                   ![layer - 1][node.parent].score =
                      IF maxToMove(layer) THEN min(@, own) ELSE max(@, own)]
      /\ at' = at + 1
      /\ UNCHANGED <<board, depth, tree, pc, layer, ret, printed>>

\* After the first layer the root has its score, and the solution tree is
\* sized and gets the root.
PropagateNextLayer ==
  /\ pc = "propagate"
  /\ at > Len(bfs[layer])
  /\ at' = 1
  /\ IF layer > 1
       THEN layer' = layer - 1 /\ UNCHANGED <<pc, tree, ret>>
       ELSE /\ pc' = "trace" /\ UNCHANGED layer
            /\ tree' = [l \in 0 .. depth |-> IF l = 0 THEN <<1>> ELSE << >>]
            /\ ret' = bfs[0][1].score
  /\ UNCHANGED <<board, depth, bfs, printed>>

----------------------------------------------------------------------------
(***************************************************************************)
(* The min-max paths.                                                      *)
(***************************************************************************)

\* nodesOnPath holds the boards that are in the solution tree.
onPath(l, k) == \E j \in 1 .. Len(tree[l]) : tree[l][j] = k

\* A trace that takes the two sides for each other.
keepSwapped(node) ==
  /\ onPath(layer - 1, node.parent)
  /\ IF maxToMove(layer) THEN node.score >= ret ELSE node.score <= ret

\* A trace that keeps the one reply with the root's score in each layer.
keepFirst(node) ==
  /\ onPath(layer - 1, node.parent)
  /\ tree[layer] = << >>
  /\ IF maxToMove(layer) THEN node.score <= ret ELSE node.score >= ret

\* A node is kept if its parent is and its score is on the right side of the
\* root's.
keep(node) ==
  /\ onPath(layer - 1, node.parent)
  /\ IF maxToMove(layer) THEN node.score <= ret ELSE node.score >= ret

Trace ==
  /\ pc = "trace"
  /\ at <= Len(bfs[layer])
  /\ tree' = IF keep(bfs[layer][at])
               THEN [tree EXCEPT ![layer] = Append(@, at)] ELSE tree
  /\ at' = at + 1
  /\ UNCHANGED <<board, depth, bfs, pc, layer, ret, printed>>

TraceNextLayer ==
  /\ pc = "trace"
  /\ at > Len(bfs[layer])
  /\ at' = 1
  /\ IF layer < depth THEN layer' = layer + 1 /\ UNCHANGED pc
                      ELSE pc' = "print" /\ UNCHANGED layer
  /\ UNCHANGED <<board, depth, bfs, tree, ret, printed>>

----------------------------------------------------------------------------
(***************************************************************************)
(* printSolutionTree.                                                      *)
(***************************************************************************)

\* The places of layer l + 1 of the tree whose node has parent k.
children(l, k) ==
  {j \in 1 .. Len(tree[l + 1]) : bfs[l + 1][tree[l + 1][j]].parent = k}

\* dfsPrintTree starts at the first child of a node and stops at the first
\* place that holds none.
run(l, k) ==
  {j \in children(l, k) :
     \A i \in children(l, k) : \A m \in i .. j : m \in children(l, k)}

\* The places printed in each layer: of the root, and of the runs below the
\* places printed in the layer before.
places[l \in 0 .. depth] ==
  IF l = 0 THEN {1} ELSE UNION {run(l - 1, tree[l - 1][j]) : j \in places[l - 1]}

\* main of checkmate.cc prints whatever the score is.  The first node of a
\* tree that has not been sized is read out of bounds.
PrintTree ==
  /\ pc = "print"
  /\ IF tree = << >> THEN pc' = "crash" /\ UNCHANGED printed
                     ELSE pc' = "end" /\ printed' = places
  /\ UNCHANGED <<board, depth, bfs, tree, layer, at, ret>>

Next ==
  \/ Start
  \/ Expand \/ ExpandNextLayer
  \/ Propagate \/ PropagateNextLayer
  \/ Trace \/ TraceNextLayer
  \/ PrintTree

Spec == Init /\ [][Next]_vars

----------------------------------------------------------------------------
\* The layers hold boards of alternating sides whose parents are in the layer
\* before, and the solution tree holds nodes of the layers.
TypeOK ==
  /\ board \in RootPos /\ depth \in 1 .. 2 * Levels /\ ret \in Int
  /\ pc \in {"start", "expand", "propagate", "trace", "print", "end", "crash"}
  /\ layer \in 0 .. depth /\ at \in Nat
  /\ bfs # << >> =>
       /\ DOMAIN bfs = 0 .. depth
       /\ \A l \in 0 .. depth : bfs[l] \in Seq(Node(l))
       /\ \A l \in 1 .. depth : \A k \in 1 .. Len(bfs[l]) :
            bfs[l][k].parent \in 1 .. Len(bfs[l - 1])
  /\ tree # << >> =>
       /\ bfs # << >> /\ DOMAIN tree = 0 .. depth
       /\ \A l \in 0 .. depth : tree[l] \in Seq(1 .. Len(bfs[l]))

answered == pc \in {"print", "end"} /\ tree # << >>

\* dfsPrintTree, which looks for a node's children in one run of the next
\* layer, prints every node of the solution tree; main reads beyond the tree
\* only where evaluate returned before it had one.
PrintsWholeTree ==
  /\ pc = "end" => \A l \in 0 .. depth : printed[l] = 1 .. Len(tree[l])
  /\ pc = "crash" => OtherChecked(board)

\* A win is announced only where the first side has a forced line to a mate
\* or, at the horizon, to a check.
WinIsForced ==
  answered /\ ret = CHECKMATE =>
    \E q \in MaxMoves(board) : Cornered(q, depth \div 2)

\* A loss is announced only where the first side is mated by force.
LossIsReal ==
  answered /\ ret = -CHECKMATE => Doomed(board, depth \div 2)

\* A mate within the rounds is found, unless the first side could also
\* stalemate the other one somewhere in the tree.
MateSeen ==
  answered /\ MateMax(board) <= depth \div 2 =>
    \/ ret = CHECKMATE
    \/ \E l \in 1 .. depth - 1 : \E k \in 1 .. Len(bfs[l]) :
         LET q == bfs[l][k].board
         IN  ~maxToMove(l) /\ MinMoves(q) = {} /\ ~MinChecked(q)

\* The tree of a win is a solution: it answers every reply of the other side
\* and has a move for the first side on each of its boards above the horizon.
SolutionComplete ==
  answered /\ ret = CHECKMATE =>
    \A l \in 0 .. depth - 1 : \A j \in 1 .. Len(tree[l]) :
      LET k    == tree[l][j]
          kids == {c \in 1 .. Len(bfs[l + 1]) : bfs[l + 1][c].parent = k}
      IN  IF maxToMove(l) THEN \E c \in kids : onPath(l + 1, c)
                          ELSE \A c \in kids : onPath(l + 1, c)

\* Every move of the first side that is printed for a win wins in the rounds
\* that are left: the trace compares a node with the root's score alone, not
\* with the best of its siblings.
PrintedMovesWin ==
  answered /\ ret = CHECKMATE =>
    \A l \in 1 .. depth : \A j \in 1 .. Len(tree[l]) :
      ~maxToMove(l) =>
        Cornered(bfs[l][tree[l][j]].board, (depth + 1 - l) \div 2)

\* "win! Steps:" says that the first side wins within the rounds.
WinIsMate == answered /\ ret = CHECKMATE => MateMax(board) <= depth \div 2

\* "no solution within" says that there is no mate within the rounds.
NoSolutionMeansNoMate ==
  answered /\ MateMax(board) <= depth \div 2 => ret = CHECKMATE
=============================================================================
