--------------------------- MODULE EvaluateProofs ---------------------------
(***************************************************************************)
(* Proofs about the breadth-first evaluation, for every game and every     *)
(* number of rounds.                                                       *)
(***************************************************************************)
EXTENDS Evaluate, TLAPS, WellFoundedInduction

----------------------------------------------------------------------------
(***************************************************************************)
(* The layers.  The parameter b is a value of bfs.                         *)
(***************************************************************************)

Moves(l, m) == IF maxToMove(l) THEN MaxMoves(m) ELSE MinMoves(m)

Kids(b, l, k) == {c \in 1 .. Len(b[l + 1]) : b[l + 1][c].parent = k}

\* Every node but the root has a parent in the layer before, of which its
\* board is a successor, and the children of a node lie side by side.
Layered(b) ==
  /\ b = [l \in 0 .. depth |-> b[l]]
  /\ \A l \in 0 .. depth : b[l] \in Seq(Node(l))
  /\ Len(b[0]) = 1 /\ b[0][1].board = board
  /\ \A l \in 1 .. depth : \A k \in 1 .. Len(b[l]) :
       /\ b[l][k].parent \in 1 .. Len(b[l - 1])
       /\ b[l][k].board \in Moves(l - 1, b[l - 1][b[l][k].parent].board)
  /\ \A l \in 1 .. depth : \A j, k \in 1 .. Len(b[l]) :
       j <= k => b[l][j].parent <= b[l][k].parent

\* Every move of the board of node k has its child.
AllKids(b, l, k) ==
  \A m \in Moves(l, b[l][k].board) :
    \E c \in Kids(b, l, k) : b[l + 1][c].board = m

\* Layer L is being filled, and the next node of layer L - 1 is a.
Expanding(b, L, a) ==
  /\ L \in 1 .. depth /\ a \in 1 .. Len(b[L - 1]) + 1
  /\ \A l \in L + 1 .. depth : b[l] = << >>
  /\ \A k \in 1 .. Len(b[L]) :
       /\ b[L][k].parent < a
       /\ b[L][k].score = expandScore(b[L - 1][b[L][k].parent].board, L)
  /\ \A l \in 0 .. L - 1 : \A k \in 1 .. Len(b[l]) :
       l < L - 1 \/ k < a =>
         AllKids(b, l, k) /\ b[l][k].score = expandScore(b[l][k].board, l + 1)

Expanded(b) ==
  \A l \in 0 .. depth - 1 : \A k \in 1 .. Len(b[l]) : AllKids(b, l, k)

----------------------------------------------------------------------------
(***************************************************************************)
(* The scores.                                                             *)
(***************************************************************************)

NodeScores == {-CHECKMATE, STALLMATE, NONE, CHECKMATE, 1 + CHECKMATE}

\* The rounds that can be played from a board of layer l.
height(l) == (depth + 1 - l) \div 2

\* No board of the layers is a stalemate of the minimising side.
NoStalemate(b) ==
  \A l \in 1 .. depth - 1 : \A k \in 1 .. Len(b[l]) :
    ~maxToMove(l) =>
      MinMoves(b[l][k].board) # {} \/ MinChecked(b[l][k].board)

\* The score of a node before the propagation reaches it: its own or, in the
\* last layer, its parent's.
fresh(b, l, k) ==
  IF l < depth THEN expandScore(b[l][k].board, l + 1)
               ELSE expandScore(b[l - 1][b[l][k].parent].board, l)

\* The score of node k is the best, for the side to move, of its fresh score
\* and of the scores of its children before a.
Partial(b, l, k, a) ==
  LET s    == b[l][k].score
      kids == {c \in Kids(b, l, k) : c < a}
  IN  /\ s = fresh(b, l, k) \/ \E c \in kids : s = b[l + 1][c].score
      /\ IF maxToMove(l)
           THEN s >= fresh(b, l, k) /\ \A c \in kids : s >= b[l + 1][c].score
           ELSE s <= fresh(b, l, k) /\ \A c \in kids : s <= b[l + 1][c].score

\* What the score of a node of an even layer says once its children are done.
EvenDone(b, l, k) ==
  LET n == b[l][k]
  IN  /\ n.score \in NodeScores
      /\ l = depth =>
           /\ n.score # -CHECKMATE
           /\ n.score = CHECKMATE => MinChecked(b[l - 1][n.parent].board)
      /\ l < depth /\ n.score = CHECKMATE =>
           \E c \in Kids(b, l, k) : /\ b[l + 1][c].score = CHECKMATE
                                    /\ Cornered(b[l + 1][c].board, height(l))
      /\ l < depth /\ n.score = CHECKMATE =>
           \A c \in Kids(b, l, k) : b[l + 1][c].score <= CHECKMATE
      /\ n.score = -CHECKMATE => Doomed(n.board, height(l))
      /\ NoStalemate(b) /\ l < depth /\ MateMax(n.board) <= height(l) =>
           n.score = CHECKMATE

\* ... and a node of an odd layer.
OddDone(b, l, k) ==
  LET n == b[l][k]
  IN  /\ n.score \in NodeScores
      /\ \A c \in Kids(b, l, k) : n.score <= b[l + 1][c].score
      /\ n.score = CHECKMATE => Cornered(n.board, height(l))
      /\ n.score = -CHECKMATE =>
           \E p \in MinMoves(n.board) : height(l) > 1 /\ Doomed(p, height(l) - 1)
      /\ n.score > CHECKMATE => MinMoves(n.board) = {} /\ ~MinChecked(n.board)
      /\ NoStalemate(b) /\ MateMin(n.board) <= height(l) => n.score = CHECKMATE

Done(b, l, k) == IF maxToMove(l) THEN EvenDone(b, l, k) ELSE OddDone(b, l, k)

\* Layer L is being propagated, and its next node is a.
Propagating(b, L, a) ==
  /\ L \in 1 .. depth /\ a \in 1 .. Len(b[L]) + 1
  /\ \A l \in 0 .. L - 2 : \A k \in 1 .. Len(b[l]) : b[l][k].score = fresh(b, l, k)
  /\ \A k \in 1 .. Len(b[L - 1]) : Partial(b, L - 1, k, a)
  /\ \A l \in L .. depth : \A k \in 1 .. Len(b[l]) : Done(b, l, k)
  /\ \A l \in L .. depth : \A k \in 1 .. Len(b[l]) :
       maxToMove(l) /\ (L < l \/ k < a) => b[l][k].score <= CHECKMATE

Scored(b) ==
  /\ \A l \in 0 .. depth : \A k \in 1 .. Len(b[l]) : Done(b, l, k)
  /\ \A l \in 1 .. depth : \A k \in 1 .. Len(b[l]) :
       maxToMove(l) => b[l][k].score <= CHECKMATE

----------------------------------------------------------------------------
(***************************************************************************)
(* The solution tree.  The parameter t is a value of tree.                 *)
(***************************************************************************)

InTree(t, l, k) == \E j \in 1 .. Len(t[l]) : t[l][j] = k

\* What the trace keeps of layer l.
Kept(b, t, l, k) ==
  /\ InTree(t, l - 1, b[l][k].parent)
  /\ IF maxToMove(l) THEN b[l][k].score <= ret ELSE b[l][k].score >= ret

\* The layers of the tree hold, in order, only nodes that the trace keeps.
TreeOK(b, t) ==
  /\ t = [l \in 0 .. depth |-> t[l]] /\ t[0] = <<1>>
  /\ \A l \in 0 .. depth : t[l] \in Seq(1 .. Len(b[l]))
  /\ \A l \in 0 .. depth : \A i, j \in 1 .. Len(t[l]) : i < j => t[l][i] < t[l][j]
  /\ \A l \in 1 .. depth : \A j \in 1 .. Len(t[l]) : Kept(b, t, l, t[l][j])

\* ... and all of them, up to node a of layer L.
Tracing(b, t, L, a) ==
  /\ TreeOK(b, t)
  /\ L \in 1 .. depth /\ a \in 1 .. Len(b[L]) + 1
  /\ \A j \in 1 .. Len(t[L]) : t[L][j] < a
  /\ \A l \in L + 1 .. depth : t[l] = << >>
  /\ \A l \in 1 .. L : \A k \in 1 .. Len(b[l]) :
       (l < L \/ k < a) /\ Kept(b, t, l, k) => InTree(t, l, k)

Traced(b, t) ==
  /\ TreeOK(b, t)
  /\ \A l \in 1 .. depth : \A k \in 1 .. Len(b[l]) :
       Kept(b, t, l, k) => InTree(t, l, k)

----------------------------------------------------------------------------
\* A round has two layers.
DepthOK == \E m \in 1 .. Levels : depth = 2 * m

\* Where the program is, and what it has then.
EvaluateInv ==
  /\ board \in RootPos /\ ret \in Int /\ DepthOK
  /\ \/ /\ pc = "start" /\ bfs = << >> /\ tree = << >> /\ layer = 0 /\ at = 0
     \/ /\ pc \in {"print", "crash"} /\ bfs = << >> /\ tree = << >>
        /\ layer = 0 /\ at = 0 /\ OtherChecked(board)
     \/ /\ ~OtherChecked(board) /\ Layered(bfs)
        /\ \/ pc = "expand" /\ tree = << >> /\ Expanding(bfs, layer, at)
           \/ /\ pc = "propagate" /\ tree = << >>
              /\ Expanded(bfs) /\ Propagating(bfs, layer, at)
           \/ /\ pc \in {"trace", "print", "end"}
              /\ Expanded(bfs) /\ Scored(bfs) /\ ret = bfs[0][1].score
              /\ IF pc = "trace" THEN Tracing(bfs, tree, layer, at)
                                 ELSE /\ Traced(bfs, tree)
                                      /\ layer = depth /\ at = 1

----------------------------------------------------------------------------
(***************************************************************************)
(* Layers and their heights.                                               *)
(***************************************************************************)

LEMMA DepthFacts ==
  ASSUME DepthOK
  PROVE  /\ depth \in Nat /\ depth >= 2 /\ depth \in 1 .. 2 * Levels
         /\ maxToMove(0) /\ maxToMove(depth)
         /\ height(0) = depth \div 2
<1>1. PICK m \in 1 .. Levels : depth = 2 * m
  BY DEF DepthOK
<1>2. m \in Nat /\ m >= 1 /\ m <= Levels
  BY GameAssumption
<1>3. depth \in Nat /\ depth >= 2 /\ depth \in 1 .. 2 * Levels
  BY <1>1, <1>2, GameAssumption
<1>4. maxToMove(0) /\ maxToMove(depth)
  BY <1>1, <1>2 DEF maxToMove
<1>5. height(0) = depth \div 2
  BY <1>1, <1>2 DEF height
<1> QED
  BY <1>3, <1>4, <1>5

LEMMA TurnFacts ==
  ASSUME NEW l \in Nat
  PROVE  maxToMove(l + 1) <=> ~maxToMove(l)
BY DEF maxToMove

LEMMA HeightFacts ==
  ASSUME DepthOK, NEW l \in 0 .. depth - 1
  PROVE  /\ height(l) \in 1 .. Levels
         /\ maxToMove(l) => height(l + 1) = height(l)
         /\ ~maxToMove(l) => /\ height(l + 1) = height(l) - 1
                             /\ height(l) = 1 <=> l + 1 = depth
<1>1. PICK m \in 1 .. Levels : depth = 2 * m
  BY DEF DepthOK
<1>2. m \in Nat /\ m >= 1 /\ m <= Levels /\ Levels \in Nat
  BY GameAssumption
<1>3. l \in Nat /\ l < depth
  BY <1>1, <1>2
<1>4. CASE maxToMove(l)
  <2>1. PICK j \in Nat : l = 2 * j
    BY <1>3, <1>4 DEF maxToMove
  <2>2. height(l) = m - j
    BY <1>1, <1>2, <2>1 DEF height
  <2>3. height(l + 1) = m - j
    BY <1>1, <1>2, <2>1 DEF height
  <2> QED
    BY <1>1, <1>2, <1>3, <1>4, <2>1, <2>2, <2>3
<1>5. CASE ~maxToMove(l)
  <2>1. PICK j \in Nat : l = 2 * j + 1
    BY <1>3, <1>5 DEF maxToMove
  <2>2. height(l) = m - j
    BY <1>1, <1>2, <2>1 DEF height
  <2>3. height(l + 1) = m - j - 1
    BY <1>1, <1>2, <2>1 DEF height
  <2> QED
    BY <1>1, <1>2, <1>3, <1>5, <2>1, <2>2, <2>3
<1> QED
  BY <1>4, <1>5

----------------------------------------------------------------------------
(***************************************************************************)
(* Changing scores only.                                                   *)
(***************************************************************************)

\* The layers r hold the nodes of the layers b, with other scores.
SameNodes(b, r) ==
  /\ r = [l \in 0 .. depth |-> r[l]]
  /\ \A l \in 0 .. depth :
       /\ r[l] \in Seq(Node(l)) /\ Len(r[l]) = Len(b[l])
       /\ \A k \in 1 .. Len(b[l]) :
            r[l][k].parent = b[l][k].parent /\ r[l][k].board = b[l][k].board

\* The types of a node.
LEMMA NodeFacts ==
  ASSUME NEW b, Layered(b), NEW l \in 0 .. depth, NEW k \in 1 .. Len(b[l])
  PROVE  /\ b[l] \in Seq(Node(l)) /\ Len(b[l]) \in Nat
         /\ b[l][k] \in Node(l) /\ b[l][k].score \in Int /\ b[l][k].parent \in Nat
         /\ maxToMove(l) => b[l][k].board \in MaxPos
         /\ ~maxToMove(l) => b[l][k].board \in MinPos
<1>1. b[l] \in Seq(Node(l)) /\ Len(b[l]) \in Nat
  BY DEF Layered
<1>2. b[l][k] \in Node(l)
  BY <1>1
<1> QED
  BY <1>1, <1>2 DEF Node

\* One score is changed.
ScoreSet(b, l, k, v, r) == r = [b EXCEPT ![l][k].score = v]

LEMMA SetScore ==
  ASSUME DepthOK, NEW b, Layered(b), NEW l \in 0 .. depth, NEW k \in 1 .. Len(b[l]),
         NEW v \in Int, NEW r, ScoreSet(b, l, k, v, r)
  PROVE  /\ SameNodes(b, r) /\ r[l][k].score = v
         /\ \A i \in 0 .. depth : \A j \in 1 .. Len(b[i]) :
              i # l \/ j # k => r[i][j].score = b[i][j].score
<1> DEFINE node == [b[l][k] EXCEPT !.score = v]
           row  == [b[l] EXCEPT ![k] = node]
<1>1. b[l] \in Seq(Node(l)) /\ b[l][k] \in Node(l) /\ Len(b[l]) \in Nat
  BY NodeFacts
<1>2. /\ node \in Node(l) /\ node.score = v
      /\ node.parent = b[l][k].parent /\ node.board = b[l][k].board
  BY <1>1 DEF Node
<1>3. r = [b EXCEPT ![l] = row]
  BY DEF ScoreSet
<1> HIDE DEF node
<1>4. /\ row \in Seq(Node(l)) /\ Len(row) = Len(b[l]) /\ row[k] = node
      /\ \A j \in 1 .. Len(b[l]) : j # k => row[j] = b[l][j]
  BY <1>1, <1>2
<1> HIDE DEF row
<1>5. /\ r = [i \in 0 .. depth |-> r[i]] /\ r[l] = row
      /\ \A i \in 0 .. depth : i # l => r[i] = b[i]
  BY <1>3 DEF Layered
<1>6. ASSUME NEW i \in 0 .. depth
      PROVE  /\ r[i] \in Seq(Node(i)) /\ Len(r[i]) = Len(b[i])
             /\ \A j \in 1 .. Len(b[i]) :
                  r[i][j].parent = b[i][j].parent /\ r[i][j].board = b[i][j].board
  <2>1. CASE i = l
    BY <1>2, <1>4, <1>5, <2>1
  <2>2. CASE i # l
    BY <1>5, <2>2 DEF Layered
  <2> QED
    BY <2>1, <2>2
<1>7. SameNodes(b, r)
  BY <1>5, <1>6 DEF SameNodes
<1>8. r[l][k].score = v
  BY <1>2, <1>4, <1>5
<1>9. ASSUME NEW i \in 0 .. depth, NEW j \in 1 .. Len(b[i]), i # l \/ j # k
      PROVE  r[i][j].score = b[i][j].score
  BY <1>4, <1>5, <1>9
<1> QED
  BY <1>7, <1>8, <1>9

\* What does not depend on the scores.
LEMMA SameNodesFacts ==
  ASSUME DepthOK, NEW b, Layered(b), NEW r, SameNodes(b, r)
  PROVE  /\ Layered(r)
         /\ \A l \in 0 .. depth - 1 : \A k : Kids(r, l, k) = Kids(b, l, k)
         /\ \A l \in 0 .. depth - 1 : \A k \in 1 .. Len(b[l]) :
              AllKids(b, l, k) => AllKids(r, l, k)
         /\ \A l \in 0 .. depth : \A k \in 1 .. Len(b[l]) :
              fresh(r, l, k) = fresh(b, l, k)
         /\ NoStalemate(r) <=> NoStalemate(b)
<1>1. depth \in Nat /\ depth >= 2
  BY DepthFacts
<1>2. \A l \in 0 .. depth : Len(r[l]) = Len(b[l])
  BY DEF SameNodes
<1>3. \A l \in 0 .. depth : \A k \in 1 .. Len(b[l]) :
        r[l][k].parent = b[l][k].parent /\ r[l][k].board = b[l][k].board
  BY DEF SameNodes
<1>4. \A l \in 1 .. depth : l \in 0 .. depth /\ l - 1 \in 0 .. depth
  BY <1>1
<1>5. \A l \in 0 .. depth - 1 : l \in 0 .. depth /\ l + 1 \in 0 .. depth
  BY <1>1
<1>6. Layered(r)
  <2>1. ASSUME NEW l \in 1 .. depth, NEW k \in 1 .. Len(r[l])
        PROVE  /\ r[l][k].parent \in 1 .. Len(r[l - 1])
               /\ r[l][k].board \in Moves(l - 1, r[l - 1][r[l][k].parent].board)
    <3>1. k \in 1 .. Len(b[l])
      BY <1>2, <1>4
    <3>2. /\ b[l][k].parent \in 1 .. Len(b[l - 1])
          /\ b[l][k].board \in Moves(l - 1, b[l - 1][b[l][k].parent].board)
      BY <3>1 DEF Layered
    <3> QED
      BY <1>2, <1>3, <1>4, <3>1, <3>2
  <2>2. ASSUME NEW l \in 1 .. depth, NEW j \in 1 .. Len(r[l]), NEW k \in 1 .. Len(r[l]),
               j <= k
        PROVE  r[l][j].parent <= r[l][k].parent
    <3>1. j \in 1 .. Len(b[l]) /\ k \in 1 .. Len(b[l])
      BY <1>2, <1>4
    <3> QED
      BY <1>3, <1>4, <2>2, <3>1 DEF Layered
  <2>3. Len(r[0]) = 1 /\ r[0][1].board = board
    <3>1. Len(b[0]) = 1 /\ b[0][1].board = board
      BY DEF Layered
    <3>2. 0 \in 0 .. depth /\ 1 \in 1 .. Len(b[0])
      BY <1>1, <3>1
    <3> QED
      BY <1>2, <1>3, <3>1, <3>2
  <2>4. r = [l \in 0 .. depth |-> r[l]] /\ \A l \in 0 .. depth : r[l] \in Seq(Node(l))
    BY DEF SameNodes
  <2> QED
    BY <2>1, <2>2, <2>3, <2>4 DEF Layered
<1>7. ASSUME NEW l \in 0 .. depth - 1, NEW k
      PROVE  Kids(r, l, k) = Kids(b, l, k)
  BY <1>2, <1>3, <1>5 DEF Kids
<1>8. ASSUME NEW l \in 0 .. depth - 1, NEW k \in 1 .. Len(b[l]), AllKids(b, l, k)
      PROVE  AllKids(r, l, k)
  <2>1. r[l][k].board = b[l][k].board
    BY <1>3, <1>5
  <2>2. \A c \in Kids(b, l, k) : c \in 1 .. Len(b[l + 1])
    BY DEF Kids
  <2>3. \A c \in Kids(b, l, k) : r[l + 1][c].board = b[l + 1][c].board
    BY <1>3, <1>5, <2>2
  <2> QED
    BY <1>7, <1>8, <2>1, <2>3 DEF AllKids
<1>9. ASSUME NEW l \in 0 .. depth, NEW k \in 1 .. Len(b[l])
      PROVE  fresh(r, l, k) = fresh(b, l, k)
  <2>1. CASE l < depth
    BY <1>3, <2>1 DEF fresh
  <2>2. CASE ~(l < depth)
    <3>1. l \in 1 .. depth
      BY <1>1, <2>2
    <3>2. b[l][k].parent \in 1 .. Len(b[l - 1])
      BY <3>1 DEF Layered
    <3>3. r[l - 1][r[l][k].parent].board = b[l - 1][b[l][k].parent].board
      BY <1>3, <1>4, <3>1, <3>2
    <3> QED
      BY <2>2, <3>3 DEF fresh
  <2> QED
    BY <2>1, <2>2
<1>10. NoStalemate(r) <=> NoStalemate(b)
  <2>1. \A l \in 1 .. depth - 1 : l \in 0 .. depth
    BY <1>1
  <2> QED
    BY <1>2, <1>3, <2>1 DEF NoStalemate
<1> QED
  BY <1>6, <1>7, <1>8, <1>9, <1>10

----------------------------------------------------------------------------
(***************************************************************************)
(* Forward expansion.                                                      *)
(***************************************************************************)

\* The children of node a are appended to layer L, which has only children of
\* earlier nodes.
Appended(b, L, kids, r) ==
  /\ \A l \in 0 .. depth : l # L => r[l] = b[l]
  /\ Len(r[L]) = Len(b[L]) + Len(kids)
  /\ \A k \in 1 .. Len(b[L]) : r[L][k] = b[L][k]
  /\ \A i \in 1 .. Len(kids) : r[L][Len(b[L]) + i] = kids[i]

LEMMA AppendKids ==
  ASSUME DepthOK, NEW b, Layered(b), NEW L \in 1 .. depth,
         NEW a \in 1 .. Len(b[L - 1]),
         \A k \in 1 .. Len(b[L]) : b[L][k].parent <= a,
         \A l \in L + 1 .. depth : b[l] = << >>,
         NEW kids \in Seq(Node(L)),
         \A i \in 1 .. Len(kids) :
           /\ kids[i].parent = a
           /\ kids[i].board \in Moves(L - 1, b[L - 1][a].board),
         NEW r, r = [b EXCEPT ![L] = @ \o kids]
  PROVE  Layered(r) /\ Appended(b, L, kids, r)
<1> DEFINE n == Len(b[L])
<1>1. depth \in Nat /\ depth >= 2 /\ L \in 0 .. depth /\ L - 1 \in 0 .. depth
      /\ L - 1 # L
  BY DepthFacts
<1>2. b[L] \in Seq(Node(L)) /\ n \in Nat /\ Len(kids) \in Nat
  BY <1>1 DEF Layered
<1>3. /\ r = [l \in 0 .. depth |-> r[l]] /\ r[L] = b[L] \o kids
      /\ \A l \in 0 .. depth : l # L => r[l] = b[l]
  BY <1>1 DEF Layered
<1>4. /\ r[L] \in Seq(Node(L)) /\ Len(r[L]) = n + Len(kids)
      /\ \A k \in 1 .. n : r[L][k] = b[L][k]
      /\ \A i \in 1 .. Len(kids) : r[L][n + i] = kids[i]
  BY <1>2, <1>3
<1>5. ASSUME NEW k \in 1 .. Len(r[L])
      PROVE  k \in 1 .. n \/ \E i \in 1 .. Len(kids) : k = n + i
  <2>1. k \in Int /\ 1 <= k /\ k <= n + Len(kids)
    BY <1>2, <1>4
  <2>2. CASE k <= n
    BY <1>2, <2>1, <2>2
  <2>3. CASE ~(k <= n)
    <3>1. k - n \in 1 .. Len(kids) /\ k = n + (k - n)
      BY <1>2, <2>1, <2>3
    <3> QED
      BY <3>1
  <2> QED
    BY <2>2, <2>3
<1> HIDE DEF n
<1>6. ASSUME NEW k \in 1 .. Len(r[L])
      PROVE  /\ r[L][k].parent \in 1 .. Len(b[L - 1]) /\ r[L][k].parent <= a
             /\ r[L][k].board \in Moves(L - 1, b[L - 1][r[L][k].parent].board)
  <2>1. CASE k \in 1 .. n
    BY <1>4, <2>1 DEF Layered, n
  <2>2. CASE \E i \in 1 .. Len(kids) : k = n + i
    <3>1. a \in Int /\ a \in 1 .. Len(b[L - 1])
      BY <1>1 DEF Layered
    <3>2. PICK i \in 1 .. Len(kids) : k = n + i
      BY <2>2
    <3>3. r[L][k] = kids[i]
      BY <1>4, <3>2
    <3>4. kids[i].parent = a /\ kids[i].board \in Moves(L - 1, b[L - 1][a].board)
      OBVIOUS
    <3>5. a <= a
      BY <3>1
    <3> QED
      BY <3>1, <3>3, <3>4, <3>5
  <2> QED
    BY <1>5, <2>1, <2>2
<1>7. ASSUME NEW l \in 1 .. depth, NEW k \in 1 .. Len(r[l])
      PROVE  /\ r[l][k].parent \in 1 .. Len(r[l - 1])
             /\ r[l][k].board \in Moves(l - 1, r[l - 1][r[l][k].parent].board)
  <2>1. CASE l = L
    BY <1>1, <1>3, <1>6, <2>1
  <2>2. CASE l < L
    <3>1. l # L /\ l - 1 # L /\ l \in 0 .. depth /\ l - 1 \in 0 .. depth
      BY <1>1, <2>2
    <3>2. r[l] = b[l] /\ r[l - 1] = b[l - 1]
      BY <1>3, <3>1
    <3>3. k \in 1 .. Len(b[l])
      BY <3>2
    <3>4. /\ b[l][k].parent \in 1 .. Len(b[l - 1])
          /\ b[l][k].board \in Moves(l - 1, b[l - 1][b[l][k].parent].board)
      BY <3>3 DEF Layered
    <3> QED
      BY <3>2, <3>4
  <2>3. CASE l > L
    <3>1. l # L /\ l \in L + 1 .. depth /\ l \in 0 .. depth
      BY <1>1, <2>3
    <3>2. r[l] = << >>
      BY <1>3, <3>1
    <3> QED
      BY <3>2
  <2>4. l < L \/ l = L \/ l > L
    BY <1>1
  <2> QED
    BY <2>1, <2>2, <2>3, <2>4
<1>8. ASSUME NEW l \in 1 .. depth, NEW j \in 1 .. Len(r[l]), NEW k \in 1 .. Len(r[l]),
             j <= k
      PROVE  r[l][j].parent <= r[l][k].parent
  <2>1. CASE l = L
    <3>1. CASE k \in 1 .. n
      <4>1. j \in 1 .. n
        BY <1>2, <1>4, <1>8, <2>1, <3>1
      <4>2. b[L][j].parent <= b[L][k].parent
        BY <1>8, <3>1, <4>1 DEF Layered, n
      <4> QED
        BY <1>4, <2>1, <3>1, <4>1, <4>2
    <3>2. CASE \E i \in 1 .. Len(kids) : k = n + i
      <4>1. r[L][k].parent = a
        BY <1>4, <3>2
      <4> QED
        BY <1>6, <2>1, <4>1
    <3> QED
      BY <1>5, <2>1, <3>1, <3>2
  <2>2. CASE l # L
    <3>1. l \in 0 .. depth
      BY <1>1
    <3>2. r[l] = b[l]
      BY <1>3, <2>2, <3>1
    <3> QED
      BY <1>8, <3>2 DEF Layered
  <2> QED
    BY <2>1, <2>2
<1>9. \A l \in 0 .. depth : r[l] \in Seq(Node(l))
  BY <1>3, <1>4 DEF Layered
<1>10. Len(r[0]) = 1 /\ r[0][1].board = board
  <2>1. 0 # L /\ 0 \in 0 .. depth
    BY <1>1
  <2> QED
    BY <1>3, <2>1 DEF Layered
<1>11. Layered(r)
  BY <1>3, <1>7, <1>8, <1>9, <1>10 DEF Layered
<1> QED
  BY <1>3, <1>4, <1>11 DEF n, Appended

\* The lists of successors that expand appends.
LEMMA NextStatesFacts ==
  ASSUME NEW l \in Nat \ {0}, NEW m,
         IF maxToMove(l - 1) THEN m \in MaxPos ELSE m \in MinPos
  PROVE  /\ nextStates(m, l) \in Seq(Moves(l - 1, m))
         /\ \A x \in Moves(l - 1, m) :
              \E i \in 1 .. Len(nextStates(m, l)) : nextStates(m, l)[i] = x
         /\ \A x \in Moves(l - 1, m) :
              IF maxToMove(l) THEN x \in MaxPos ELSE x \in MinPos
         /\ expandScore(m, l) \in NodeScores /\ expandScore(m, l) \in Int
<1>1. maxToMove(l) <=> ~maxToMove(l - 1)
  <2>1. l - 1 \in Nat /\ (l - 1) + 1 = l
    OBVIOUS
  <2> QED
    BY <2>1, TurnFacts
<1>2. CASE maxToMove(l - 1)
  BY <1>1, <1>2, EvaluateAssumption, GameAssumption
  DEF Lists, nextStates, Moves, expandScore, NodeScores, NONE, CHECKMATE
<1>3. CASE ~maxToMove(l - 1)
  BY <1>1, <1>3, EvaluateAssumption, GameAssumption
  DEF Lists, nextStates, Moves, expandScore, NodeScores, NONE, CHECKMATE
<1> QED
  BY <1>2, <1>3

\* One board is expanded: it gets its score, and its children follow those of
\* the boards before it.
ExpandedKids(b, L, a) ==
  LET m == b[L - 1][a].board
  IN  [k \in 1 .. Len(nextStates(m, L)) |->
         [parent |-> a, board |-> nextStates(m, L)[k], score |-> expandScore(m, L)]]

AfterExpand(b, L, a, r) ==
  r = [b EXCEPT ![L - 1][a].score = expandScore(b[L - 1][a].board, L),
                ![L] = @ \o ExpandedKids(b, L, a)]

LEMMA ExpandKeeps ==
  ASSUME DepthOK, NEW b, Layered(b), NEW L, NEW a, Expanding(b, L, a),
         a <= Len(b[L - 1]), NEW r, AfterExpand(b, L, a, r)
  PROVE  Layered(r) /\ Expanding(r, L, a + 1)
<1> DEFINE m    == b[L - 1][a].board
           s    == expandScore(m, L)
           kids == ExpandedKids(b, L, a)
           r1   == [b EXCEPT ![L - 1][a].score = s]
           n    == Len(b[L])
<1>0. kids = [k \in 1 .. Len(nextStates(m, L)) |->
               [parent |-> a, board |-> nextStates(m, L)[k], score |-> s]]
  BY DEF ExpandedKids
<1> HIDE DEF kids
<1>1. /\ depth \in Nat /\ depth >= 2 /\ L \in 1 .. depth /\ L \in Nat \ {0}
      /\ L \in 0 .. depth /\ L - 1 \in 0 .. depth /\ L - 1 # L
  BY DepthFacts DEF Expanding
<1>2. Len(b[L - 1]) \in Nat /\ a \in 1 .. Len(b[L - 1]) /\ a \in Nat /\ n \in Nat
  BY <1>1 DEF Expanding, Layered
<1>3. IF maxToMove(L - 1) THEN m \in MaxPos ELSE m \in MinPos
  BY <1>1, <1>2, NodeFacts
<1> HIDE DEF m
<1>4. /\ nextStates(m, L) \in Seq(Moves(L - 1, m))
      /\ \A x \in Moves(L - 1, m) :
           \E i \in 1 .. Len(nextStates(m, L)) : nextStates(m, L)[i] = x
      /\ \A x \in Moves(L - 1, m) :
           IF maxToMove(L) THEN x \in MaxPos ELSE x \in MinPos
  BY <1>1, <1>3, NextStatesFacts
<1>5. s \in Int
  BY <1>1, <1>3, NextStatesFacts
<1> HIDE DEF s
<1>6. /\ kids \in Seq(Node(L)) /\ Len(kids) = Len(nextStates(m, L))
      /\ \A i \in 1 .. Len(kids) :
           /\ kids[i].parent = a /\ kids[i].score = s
           /\ kids[i].board = nextStates(m, L)[i]
           /\ kids[i].board \in Moves(L - 1, m)
  <2>1. Len(nextStates(m, L)) \in Nat
    BY <1>4
  <2>2. \A i \in 1 .. Len(nextStates(m, L)) :
          nextStates(m, L)[i] \in Moves(L - 1, m)
    BY <1>4
  <2>3. \A i \in 1 .. Len(nextStates(m, L)) :
          [parent |-> a, board |-> nextStates(m, L)[i], score |-> s] \in Node(L)
    BY <1>2, <1>4, <1>5, <2>2 DEF Node
  <2>4. kids \in Seq(Node(L)) /\ Len(kids) = Len(nextStates(m, L))
    BY <1>0, <2>1, <2>3
  <2> QED
    BY <1>0, <2>2, <2>4
<1>8. \A l \in 0 .. depth : l # L - 1 => r1[l] = b[l]
  BY <1>1 DEF Layered
<1>7. r = [r1 EXCEPT ![L] = @ \o kids]
  BY <1>1, <1>8 DEF AfterExpand, kids, s, m, Layered
<1>18. ScoreSet(b, L - 1, a, s, r1)
  BY DEF ScoreSet
<1> HIDE DEF r1
<1>9. /\ SameNodes(b, r1) /\ r1[L - 1][a].score = s
      /\ \A i \in 0 .. depth : \A j \in 1 .. Len(b[i]) :
           i # L - 1 \/ j # a => r1[i][j].score = b[i][j].score
  <2>1. SameNodes(b, r1)
    BY ONLY DepthOK, Layered(b), <1>1, <1>2, <1>5, <1>18, SetScore
  <2>2. r1[L - 1][a].score = s
    BY ONLY DepthOK, Layered(b), <1>1, <1>2, <1>5, <1>18, SetScore
  <2>3. \A i \in 0 .. depth : \A j \in 1 .. Len(b[i]) :
           i # L - 1 \/ j # a => r1[i][j].score = b[i][j].score
    BY ONLY DepthOK, Layered(b), <1>1, <1>2, <1>5, <1>18, SetScore
  <2> QED
    BY <2>1, <2>2, <2>3
<1>10. /\ Layered(r1)
       /\ \A l \in 0 .. depth - 1 : \A k : Kids(r1, l, k) = Kids(b, l, k)
       /\ \A l \in 0 .. depth - 1 : \A k \in 1 .. Len(b[l]) :
            AllKids(b, l, k) => AllKids(r1, l, k)
  BY <1>9, SameNodesFacts
<1>11. /\ \A l \in 0 .. depth : Len(r1[l]) = Len(b[l])
       /\ \A l \in 0 .. depth : \A k \in 1 .. Len(b[l]) :
            r1[l][k].parent = b[l][k].parent /\ r1[l][k].board = b[l][k].board
  BY <1>9 DEF SameNodes
<1>12. /\ \A k \in 1 .. n : b[L][k].parent < a
       /\ \A k \in 1 .. n : b[L][k].score = expandScore(b[L - 1][b[L][k].parent].board, L)
       /\ \A l \in L + 1 .. depth : b[l] = << >>
  BY DEF Expanding
<1>13. r1[L] = b[L]
  BY <1>1, <1>8
<1>14. /\ Layered(r)
       /\ \A l \in 0 .. depth : l # L => r[l] = r1[l]
       /\ Len(r[L]) = n + Len(kids)
       /\ \A k \in 1 .. n : r[L][k] = b[L][k]
       /\ \A i \in 1 .. Len(kids) : r[L][n + i] = kids[i]
  <2>1. a \in 1 .. Len(r1[L - 1]) /\ r1[L - 1][a].board = m
    BY <1>1, <1>2, <1>11 DEF m
  <2>2. \A k \in 1 .. Len(r1[L]) : r1[L][k].parent <= a
    <3>1. \A k \in 1 .. n : b[L][k].parent \in Int
      BY <1>1, NodeFacts
    <3> QED
      BY <1>2, <1>12, <1>13, <3>1
  <2>3. \A l \in L + 1 .. depth : r1[l] = << >>
    BY <1>1, <1>8, <1>12
  <2>4. \A i \in 1 .. Len(kids) :
           /\ kids[i].parent = a
           /\ kids[i].board \in Moves(L - 1, r1[L - 1][a].board)
    BY <1>6, <2>1
  <2>5. kids \in Seq(Node(L)) /\ L \in 1 .. depth
    BY <1>1, <1>6
  <2>6. Layered(r) /\ Appended(r1, L, kids, r)
    <3> HIDE DEF n
    <3>1. Layered(r1)
      BY <1>10
    <3> QED
      BY ONLY DepthOK, <3>1, <1>7, <2>1, <2>2, <2>3, <2>4, <2>5, AppendKids
  <2> QED
    BY <1>13, <2>6 DEF Appended
<1> HIDE DEF n
<1>15. /\ L \in 1 .. depth /\ a + 1 \in 1 .. Len(r[L - 1]) + 1
       /\ \A l \in L + 1 .. depth : r[l] = << >>
  <2>1. Len(r[L - 1]) = Len(b[L - 1])
    BY <1>1, <1>11, <1>14
  <2>2. ASSUME NEW l \in L + 1 .. depth
        PROVE  r[l] = << >>
    <3>1. l \in 0 .. depth /\ l # L /\ l # L - 1
      BY <1>1
    <3> QED
      BY <1>8, <1>12, <1>14, <3>1
  <2> QED
    BY <1>1, <1>2, <2>1, <2>2
<1>16. ASSUME NEW k \in 1 .. Len(r[L])
       PROVE  /\ r[L][k].parent < a + 1
              /\ r[L][k].score = expandScore(r[L - 1][r[L][k].parent].board, L)
  <2>1. CASE k \in 1 .. n
    <3>1. b[L][k].parent \in 1 .. Len(b[L - 1])
      BY <1>1, <2>1 DEF Layered, n
    <3>2. r[L - 1][b[L][k].parent].board = b[L - 1][b[L][k].parent].board
      <4>1. r[L - 1] = r1[L - 1]
        BY <1>1, <1>14
      <4> QED
        BY <1>1, <1>11, <3>1, <4>1
    <3>3. b[L][k].parent < a + 1
      BY <1>2, <1>12, <2>1, <3>1
    <3> QED
      BY <1>12, <1>14, <2>1, <3>2, <3>3
  <2>2. CASE ~(k \in 1 .. n)
    <3>1. k - n \in 1 .. Len(kids) /\ k = n + (k - n)
      BY <1>2, <1>6, <1>14, <2>2
    <3>2. r[L][k] = kids[k - n]
      BY <1>14, <3>1
    <3>3. r[L][k].parent = a /\ r[L][k].score = s
      BY <1>6, <3>1, <3>2
    <3>4. r[L - 1][a].board = m
      BY <1>1, <1>2, <1>11, <1>14 DEF m
    <3> QED
      BY <1>2, <3>3, <3>4 DEF s
  <2> QED
    BY <2>1, <2>2
<1>17. ASSUME NEW l \in 0 .. L - 1, NEW k \in 1 .. Len(r[l]), l < L - 1 \/ k < a + 1
       PROVE  AllKids(r, l, k) /\ r[l][k].score = expandScore(r[l][k].board, l + 1)
  <2>1. l \in 0 .. depth - 1 /\ l \in 0 .. depth /\ l + 1 \in 0 .. depth /\ l # L
    BY <1>1
  <2>2. r[l] = r1[l] /\ k \in 1 .. Len(b[l]) /\ r[l][k].board = b[l][k].board
    BY <1>11, <1>14, <2>1
  <2>3. CASE l < L - 1 \/ k < a
    <3>1. AllKids(b, l, k) /\ b[l][k].score = expandScore(b[l][k].board, l + 1)
      BY <2>2, <2>3 DEF Expanding
    <3>2. r[l][k].score = b[l][k].score
      <4>1. l # L - 1 \/ k # a
        BY <1>1, <1>2, <2>3
      <4> QED
        BY <1>9, <2>1, <2>2, <4>1
    <3>3. AllKids(r, l, k)
      <4>1. SUFFICES ASSUME NEW x \in Moves(l, b[l][k].board)
                     PROVE  \E c \in Kids(r, l, k) : r[l + 1][c].board = x
        BY <2>2 DEF AllKids
      <4>2. PICK c \in Kids(b, l, k) : b[l + 1][c].board = x
        BY <3>1 DEF AllKids
      <4>3. c \in 1 .. Len(b[l + 1]) /\ b[l + 1][c].parent = k
        BY <4>2 DEF Kids
      <4>4. c \in 1 .. Len(r[l + 1]) /\ r[l + 1][c].parent = k /\ r[l + 1][c].board = x
        <5>1. CASE l + 1 = L
          <6>1. c \in 1 .. n /\ c \in 1 .. Len(r[L])
            BY <1>2, <1>6, <1>14, <4>3, <5>1 DEF n
          <6> QED
            BY <1>14, <4>2, <4>3, <5>1, <6>1
        <5>2. CASE l + 1 # L
          BY <1>11, <1>14, <2>1, <4>2, <4>3, <5>2
        <5> QED
          BY <5>1, <5>2
      <4> QED
        BY <4>4 DEF Kids
    <3> QED
      BY <2>2, <3>1, <3>2, <3>3
  <2>4. CASE ~(l < L - 1 \/ k < a)
    <3>1. l = L - 1 /\ k = a /\ l + 1 = L
      BY <1>1, <1>2, <1>17, <2>2, <2>4
    <3>2. r[l][k].score = s /\ r[l][k].board = m
      BY <1>9, <2>2, <3>1 DEF m
    <3>3. AllKids(r, l, k)
      <4>1. SUFFICES ASSUME NEW x \in Moves(L - 1, m)
                     PROVE  \E c \in Kids(r, L - 1, a) : r[L][c].board = x
        BY <3>1, <3>2 DEF AllKids
      <4>2. PICK i \in 1 .. Len(kids) : nextStates(m, L)[i] = x
        BY <1>4, <1>6
      <4>3. n + i \in 1 .. Len(r[L])
        BY <1>2, <1>6, <1>14
      <4>4. r[L][n + i].parent = a /\ r[L][n + i].board = x
        BY <1>6, <1>14, <4>2
      <4> QED
        BY <3>1, <4>3, <4>4 DEF Kids
    <3> QED
      BY <3>1, <3>2, <3>3 DEF s
  <2> QED
    BY <2>3, <2>4
<1> QED
  BY <1>14, <1>15, <1>16, <1>17 DEF Expanding

\* The first layer is the root, which is yet to be expanded.
LEMMA StartKeeps ==
  ASSUME DepthOK, board \in RootPos,
         NEW r, r = [l \in 0 .. depth |->
                      IF l = 0
                        THEN <<[parent |-> 0, board |-> board, score |-> NONE]>>
                        ELSE << >>]
  PROVE  Layered(r) /\ Expanding(r, 1, 1)
<1>1. depth \in Nat /\ depth >= 2 /\ maxToMove(0)
  BY DepthFacts
<1> DEFINE root == [parent |-> 0, board |-> board, score |-> NONE]
<1>2. root \in Node(0) /\ root.board = board
  BY <1>1, GameAssumption DEF Node, NONE
<1>3. /\ r[0] = <<root>> /\ r = [l \in 0 .. depth |-> r[l]]
      /\ \A l \in 1 .. depth : r[l] = << >>
  BY <1>1
<1> HIDE DEF root
<1>4. r[0] \in Seq(Node(0)) /\ Len(r[0]) = 1 /\ r[0][1] = root
  <2>1. ASSUME NEW S, NEW x \in S
        PROVE  <<x>> \in Seq(S) /\ Len(<<x>>) = 1 /\ <<x>>[1] = x
    OBVIOUS
  <2>2. <<root>> \in Seq(Node(0)) /\ Len(<<root>>) = 1 /\ <<root>>[1] = root
    BY ONLY <1>2, <2>1
  <2> QED
    BY ONLY <1>3, <2>2
<1>5. \A l \in 0 .. depth : r[l] \in Seq(Node(l))
  <2>1. ASSUME NEW l \in 0 .. depth PROVE r[l] \in Seq(Node(l))
    <3>1. CASE l = 0
      BY <1>4, <3>1
    <3>2. CASE l # 0
      <4>1. l \in 1 .. depth
        BY <1>1, <3>2
      <4> QED
        BY <1>3, <4>1
    <3> QED
      BY <3>1, <3>2
  <2> QED
    BY <2>1
<1>6. \A l \in 1 .. depth : 1 .. Len(r[l]) = {}
  <2>1. 1 .. Len(<< >>) = {}
    OBVIOUS
  <2> QED
    BY <1>3, <2>1
<1>7. Layered(r)
  BY <1>2, <1>3, <1>4, <1>5, <1>6 DEF Layered
<1>8. Expanding(r, 1, 1)
  <2>1. \A l \in 1 + 1 .. depth : r[l] = << >>
    BY <1>1, <1>3
  <2>2. 1 \in 1 .. depth /\ 1 - 1 = 0 /\ 1 \in 1 .. Len(r[0]) + 1
    BY <1>1, <1>4
  <2>3. \A l \in 0 .. 1 - 1 : \A k \in 1 .. Len(r[l]) : ~(l < 1 - 1 \/ k < 1)
    BY <1>4
  <2> QED
    BY <1>6, <2>1, <2>2, <2>3 DEF Expanding
<1> QED
  BY <1>7, <1>8

\* The layer before is expanded, and the next one is still empty.
LEMMA NextLayerKeeps ==
  ASSUME DepthOK, NEW b, Layered(b), NEW L, NEW a, Expanding(b, L, a),
         a > Len(b[L - 1]), L < depth
  PROVE  Expanding(b, L + 1, 1)
<1>1. /\ depth \in Nat /\ depth >= 2 /\ L \in 1 .. depth /\ L - 1 \in 0 .. depth
      /\ L \in 0 .. depth /\ L + 1 \in 1 .. depth /\ (L + 1) - 1 = L
      /\ L + 1 \in L + 1 .. depth
  BY DepthFacts DEF Expanding
<1>2. Len(b[L]) \in Nat /\ Len(b[L - 1]) \in Nat /\ a = Len(b[L - 1]) + 1
  BY <1>1 DEF Layered, Expanding
<1>3. b[L + 1] = << >> /\ 1 .. Len(b[L + 1]) = {}
  BY <1>1 DEF Expanding
<1>4. \A l \in L + 2 .. depth : b[l] = << >>
  <2>1. \A l \in L + 2 .. depth : l \in L + 1 .. depth
    BY <1>1
  <2> QED
    BY <2>1 DEF Expanding
<1>5. ASSUME NEW l \in 0 .. L, NEW k \in 1 .. Len(b[l]), l < L \/ k < 1
      PROVE  AllKids(b, l, k) /\ b[l][k].score = expandScore(b[l][k].board, l + 1)
  <2>1. l \in 0 .. depth
    BY <1>1
  <2>2. Len(b[l]) \in Nat
    BY <2>1 DEF Layered
  <2>3. l \in 0 .. L - 1 /\ (l < L - 1 \/ k < a)
    BY <1>1, <1>2, <1>5, <2>2
  <2> QED
    BY <2>3 DEF Expanding
<1>6. 1 \in 1 .. Len(b[L]) + 1 /\ L + 1 + 1 = L + 2
  BY <1>1, <1>2
<1> QED
  BY <1>1, <1>3, <1>4, <1>5, <1>6 DEF Expanding

\* Once the last layer is filled the propagation starts from it: its nodes
\* have the scores of their parents, which tell a check from no check.
LEMMA LastLayerKeeps ==
  ASSUME DepthOK, NEW b, Layered(b), NEW L, NEW a, Expanding(b, L, a),
         a > Len(b[L - 1]), ~(L < depth)
  PROVE  L = depth /\ Expanded(b) /\ Propagating(b, L, 1)
<1>1. /\ depth \in Nat /\ depth >= 2 /\ L = depth /\ depth - 1 \in 0 .. depth
      /\ depth \in 1 .. depth /\ depth \in 0 .. depth /\ depth - 1 \in Nat
      /\ (depth - 1) + 1 = depth /\ maxToMove(depth)
  BY DepthFacts DEF Expanding
<1>2. Len(b[L]) \in Nat /\ Len(b[L - 1]) \in Nat /\ a = Len(b[L - 1]) + 1
  BY <1>1 DEF Layered, Expanding
<1>3. ~maxToMove(depth - 1)
  BY <1>1, TurnFacts
<1>4. ASSUME NEW l \in 0 .. depth - 1, NEW k \in 1 .. Len(b[l])
      PROVE  AllKids(b, l, k) /\ b[l][k].score = fresh(b, l, k)
  <2>1. l \in 0 .. depth /\ l < depth
    BY <1>1
  <2>2. Len(b[l]) \in Nat
    BY <2>1 DEF Layered
  <2>3. l \in 0 .. L - 1 /\ (l < L - 1 \/ k < a)
    BY <1>1, <1>2, <2>2
  <2> QED
    BY <2>1, <2>3 DEF Expanding, fresh
<1>5. Expanded(b)
  BY <1>4 DEF Expanded
<1>6. \A l \in 0 .. L - 2 : \A k \in 1 .. Len(b[l]) : b[l][k].score = fresh(b, l, k)
  <2>1. \A l \in 0 .. L - 2 : l \in 0 .. depth - 1
    BY <1>1
  <2> QED
    BY <1>4, <2>1
<1>7. ASSUME NEW k \in 1 .. Len(b[L - 1])
      PROVE  Partial(b, L - 1, k, 1)
  <2>1. depth - 1 \in 0 .. depth - 1
    BY <1>1
  <2>2. b[L - 1][k].score = fresh(b, L - 1, k)
    BY <1>1, <1>4, <2>1
  <2>3. b[L - 1][k].score \in Int
    BY <1>1, NodeFacts
  <2>4. b[L - 1][k].score <= fresh(b, L - 1, k)
    BY <2>2, <2>3
  <2>5. {c \in Kids(b, L - 1, k) : c < 1} = {}
    <3>1. \A c \in Kids(b, L - 1, k) : c \in 1 .. Len(b[L])
      BY <1>1 DEF Kids
    <3>2. \A c \in 1 .. Len(b[L]) : ~(c < 1)
      BY <1>2
    <3> QED
      BY <3>1, <3>2
  <2> QED
    BY <1>1, <1>3, <2>2, <2>4, <2>5 DEF Partial
<1>8. ASSUME NEW l \in L .. depth, NEW k \in 1 .. Len(b[l])
      PROVE  Done(b, l, k) /\ ~(L < l \/ k < 1)
  <2>1. l = depth /\ k \in 1 .. Len(b[depth])
    BY <1>1
  <2> DEFINE q == b[depth - 1][b[depth][k].parent].board
  <2>2. b[depth][k].score = expandScore(q, depth)
    BY <1>1, <2>1 DEF Expanding
  <2>3. b[depth][k].parent \in 1 .. Len(b[depth - 1])
    BY <1>1, <2>1 DEF Layered
  <2>4. q \in MinPos
    BY <1>1, <1>3, <2>3, NodeFacts
  <2> HIDE DEF q
  <2>5. b[depth][k].score = IF MinChecked(q) THEN 100 ELSE 101
    BY <1>3, <2>2 DEF expandScore, CHECKMATE
  <2>6. EvenDone(b, depth, k)
    BY <1>1, <2>5 DEF EvenDone, NodeScores, CHECKMATE, STALLMATE, NONE, q
  <2> QED
    BY <1>1, <1>2, <2>1, <2>6 DEF Done
<1>9. 1 \in 1 .. Len(b[L]) + 1 /\ L \in 1 .. depth
  BY <1>1, <1>2
<1> QED
  BY <1>1, <1>5, <1>6, <1>7, <1>8, <1>9 DEF Propagating

----------------------------------------------------------------------------
(***************************************************************************)
(* Backward propagation: a layer whose children are all propagated.        *)
(***************************************************************************)

LEMMA ScoreValues == NodeScores = {-100, -2, 0, 100, 101}
BY DEF NodeScores, CHECKMATE, STALLMATE, NONE

\* The children of a node are the successors of its board.
LEMMA KidsFacts ==
  ASSUME DepthOK, NEW b, Layered(b), Expanded(b), NEW l \in 0 .. depth - 1,
         NEW k \in 1 .. Len(b[l])
  PROVE  /\ \A c \in Kids(b, l, k) :
              /\ c \in 1 .. Len(b[l + 1]) /\ b[l + 1][c].parent = k
              /\ b[l + 1][c].board \in Moves(l, b[l][k].board)
         /\ \A x \in Moves(l, b[l][k].board) :
              \E c \in Kids(b, l, k) : b[l + 1][c].board = x
<1>1. l + 1 \in 1 .. depth /\ (l + 1) - 1 = l
  BY DepthFacts
<1>2. ASSUME NEW c \in Kids(b, l, k)
      PROVE  /\ c \in 1 .. Len(b[l + 1]) /\ b[l + 1][c].parent = k
             /\ b[l + 1][c].board \in Moves(l, b[l][k].board)
  <2>1. c \in 1 .. Len(b[l + 1]) /\ b[l + 1][c].parent = k
    BY DEF Kids
  <2>2. b[l + 1][c].board \in
          Moves((l + 1) - 1, b[(l + 1) - 1][b[l + 1][c].parent].board)
    BY <1>1, <2>1 DEF Layered
  <2> QED
    BY <1>1, <2>1, <2>2
<1> QED
  BY <1>2 DEF Expanded, AllKids

\* The scores of the children of node k of layer l have all been taken.
Settled(b, l, k) ==
  LET s == b[l][k].score
  IN  /\ s = fresh(b, l, k) \/ \E c \in Kids(b, l, k) : s = b[l + 1][c].score
      /\ IF maxToMove(l)
           THEN s >= fresh(b, l, k) /\ \A c \in Kids(b, l, k) : s >= b[l + 1][c].score
           ELSE s <= fresh(b, l, k) /\ \A c \in Kids(b, l, k) : s <= b[l + 1][c].score

\* A board of an even layer takes the best of its children.
LEMMA EvenSettles ==
  ASSUME DepthOK, ~OtherChecked(board), NEW b, Layered(b), Expanded(b),
         NEW l \in 0 .. depth - 1, maxToMove(l),
         NEW k \in 1 .. Len(b[l]), Settled(b, l, k),
         \A c \in 1 .. Len(b[l + 1]) : OddDone(b, l + 1, c)
  PROVE  EvenDone(b, l, k)
<1> DEFINE s == b[l][k].score
           m == b[l][k].board
           h == height(l)
<1>1. /\ depth \in Nat /\ l \in Nat /\ l < depth /\ l \in 0 .. depth
      /\ l + 1 \in 1 .. depth /\ l + 1 \in 0 .. depth /\ ~maxToMove(l + 1)
      /\ l + 1 \in 1 .. depth - 1
  <2>1. depth \in Nat /\ l \in Nat /\ l < depth
    BY DepthFacts
  <2>2. ~maxToMove(l + 1) /\ maxToMove(depth)
    BY <2>1, DepthFacts, TurnFacts
  <2>3. l + 1 # depth
    BY <2>2
  <2> QED
    BY <2>1, <2>2, <2>3
<1>2. h \in 1 .. Levels /\ height(l + 1) = h
  BY HeightFacts
<1>3. m \in MaxPos /\ s \in Int
  BY <1>1, NodeFacts
<1>4. ~OtherChecked(m)
  <2>1. CASE l = 0
    BY <1>1, <2>1 DEF Layered
  <2>2. CASE l # 0
    <3>1. /\ l - 1 \in Nat /\ (l - 1) + 1 = l /\ l \in 1 .. depth
          /\ l - 1 \in 0 .. depth
      BY <1>1, <2>2
    <3>2. ~maxToMove(l - 1)
      BY <3>1, TurnFacts
    <3>3. b[l][k].parent \in 1 .. Len(b[l - 1])
      BY <3>1 DEF Layered
    <3>4. m \in Moves(l - 1, b[l - 1][b[l][k].parent].board)
      BY <3>1 DEF Layered
    <3>5. b[l - 1][b[l][k].parent].board \in MinPos
      BY <3>1, <3>2, <3>3, NodeFacts
    <3> QED
      BY <3>2, <3>4, <3>5, EvaluateAssumption DEF Moves
  <2> QED
    BY <2>1, <2>2
<1>5. fresh(b, l, k) = IF MaxChecked(m) THEN -100 ELSE 0
  <2>1. (l + 1) - 1 = l
    BY <1>1
  <2> QED
    BY <1>1, <1>4, <2>1 DEF fresh, expandScore, CHECKMATE, NONE
<1>6. /\ \A c \in Kids(b, l, k) :
           /\ c \in 1 .. Len(b[l + 1])
           /\ b[l + 1][c].board \in MaxMoves(m)
      /\ \A x \in MaxMoves(m) : \E c \in Kids(b, l, k) : b[l + 1][c].board = x
  BY KidsFacts DEF Moves
<1>7. /\ s = fresh(b, l, k) \/ \E c \in Kids(b, l, k) : s = b[l + 1][c].score
      /\ s >= fresh(b, l, k)
      /\ \A c \in Kids(b, l, k) : s >= b[l + 1][c].score
  BY DEF Settled
<1> HIDE DEF s, m, h
<1>8. \A c \in Kids(b, l, k) :
        /\ b[l + 1][c].score \in {-100, -2, 0, 100, 101}
        /\ b[l + 1][c].score = 100 => Cornered(b[l + 1][c].board, h)
        /\ b[l + 1][c].score = -100 =>
             \E p \in MinMoves(b[l + 1][c].board) : h > 1 /\ Doomed(p, h - 1)
        /\ b[l + 1][c].score > 100 =>
             MinMoves(b[l + 1][c].board) = {} /\ ~MinChecked(b[l + 1][c].board)
        /\ NoStalemate(b) /\ MateMin(b[l + 1][c].board) <= h =>
             b[l + 1][c].score = 100
  BY <1>2, <1>6, ScoreValues DEF OddDone, CHECKMATE
<1>9. s \in {-100, -2, 0, 100, 101}
  BY <1>5, <1>7, <1>8
<1>10. ASSUME s = 100
       PROVE  \E c \in Kids(b, l, k) : /\ b[l + 1][c].score = 100
                                       /\ Cornered(b[l + 1][c].board, h)
  BY <1>5, <1>7, <1>8, <1>10
<1>11. ASSUME s = -100
       PROVE  Doomed(m, h)
  <2>1. MaxChecked(m)
    BY <1>5, <1>7, <1>11
  <2>2. ASSUME NEW q \in MaxMoves(m)
        PROVE  \E r \in MinMoves(q) : h > 1 /\ Doomed(r, h - 1)
    <3>1. PICK c \in Kids(b, l, k) : b[l + 1][c].board = q
      BY <1>6
    <3>2. b[l + 1][c].score = -100
      BY <1>7, <1>8, <1>11
    <3> QED
      BY <1>8, <3>1, <3>2
  <2> QED
    BY <1>2, <1>3, <2>1, <2>2, ForcedAssumption
<1>12. ASSUME NoStalemate(b), MateMax(m) <= h
       PROVE  s = 100
  <2>1. PICK q \in MaxMoves(m) : MateMin(q) <= h
    BY <1>2, <1>3, <1>12, MateAssumption
  <2>2. PICK c \in Kids(b, l, k) : b[l + 1][c].board = q
    BY <1>6
  <2>3. b[l + 1][c].score = 100
    BY <1>8, <1>12, <2>1, <2>2
  <2>4. s >= 100
    BY <1>7, <2>3
  <2>5. s # 101
    <3>1. SUFFICES ASSUME s = 101 PROVE FALSE
      OBVIOUS
    <3>2. PICK e \in Kids(b, l, k) : b[l + 1][e].score = 101
      BY <1>5, <1>7, <3>1
    <3>3. MinMoves(b[l + 1][e].board) = {} /\ ~MinChecked(b[l + 1][e].board)
      <4>1. b[l + 1][e].score > 100
        BY <3>2
      <4> QED
        BY <1>8, <4>1
    <3> QED
      BY <1>1, <1>6, <1>12, <3>3 DEF NoStalemate
  <2> QED
    BY <1>9, <2>4, <2>5
<1> QED
  BY <1>1, <1>7, <1>8, <1>9, <1>10, <1>11, <1>12, ScoreValues
  DEF EvenDone, CHECKMATE, s, m, h

\* A board of an odd layer takes the worst of its children.
LEMMA OddSettles ==
  ASSUME DepthOK, NEW b, Layered(b), Expanded(b),
         NEW l \in 0 .. depth - 1, ~maxToMove(l),
         NEW k \in 1 .. Len(b[l]), Settled(b, l, k),
         \A c \in 1 .. Len(b[l + 1]) :
           EvenDone(b, l + 1, c) /\ b[l + 1][c].score <= CHECKMATE
  PROVE  OddDone(b, l, k)
<1> DEFINE s == b[l][k].score
           m == b[l][k].board
           h == height(l)
<1>1. /\ depth \in Nat /\ l \in Nat /\ l < depth /\ l \in 0 .. depth
      /\ l + 1 \in 1 .. depth /\ l + 1 \in 0 .. depth /\ maxToMove(l + 1)
      /\ (l + 1) - 1 = l
  BY DepthFacts, TurnFacts
<1>2. /\ h \in 1 .. Levels /\ height(l + 1) = h - 1
      /\ h = 1 <=> l + 1 = depth
  BY HeightFacts
<1>3. m \in MinPos /\ s \in Int
  BY <1>1, NodeFacts
<1>4. fresh(b, l, k) = IF MinChecked(m) THEN 100 ELSE 101
  BY <1>1 DEF fresh, expandScore, CHECKMATE
<1>5. /\ \A c \in Kids(b, l, k) :
           /\ c \in 1 .. Len(b[l + 1]) /\ b[l + 1][c].parent = k
           /\ b[l + 1][c].board \in MinMoves(m)
      /\ \A x \in MinMoves(m) : \E c \in Kids(b, l, k) : b[l + 1][c].board = x
  <2>1. Moves(l, m) = MinMoves(m)
    BY DEF Moves
  <2>2. \A c \in Kids(b, l, k) :
          /\ c \in 1 .. Len(b[l + 1]) /\ b[l + 1][c].parent = k
          /\ b[l + 1][c].board \in Moves(l, b[l][k].board)
    BY ONLY DepthOK, Layered(b), Expanded(b), KidsFacts
  <2>3. \A x \in Moves(l, b[l][k].board) :
          \E c \in Kids(b, l, k) : b[l + 1][c].board = x
    <3>1. AllKids(b, l, k)
      BY ONLY Expanded(b), l \in 0 .. depth - 1, k \in 1 .. Len(b[l]) DEF Expanded
    <3> QED
      BY ONLY <3>1 DEF AllKids
  <2> QED
    BY <2>1, <2>2, <2>3
<1>6. /\ s = fresh(b, l, k) \/ \E c \in Kids(b, l, k) : s = b[l + 1][c].score
      /\ s <= fresh(b, l, k)
      /\ \A c \in Kids(b, l, k) : s <= b[l + 1][c].score
  BY DEF Settled
<1>7. ASSUME NEW c \in Kids(b, l, k)
      PROVE  /\ EvenDone(b, l + 1, c)
             /\ b[l + 1][c].score \in {-100, -2, 0, 100}
  <2>1. /\ EvenDone(b, l + 1, c) /\ b[l + 1][c].score <= 100
    BY <1>5 DEF CHECKMATE
  <2>2. b[l + 1][c].score \in {-100, -2, 0, 100, 101}
    BY <2>1, ScoreValues DEF EvenDone
  <2> QED
    BY <2>1, <2>2
<1>8. ASSUME h = 1, NEW c \in Kids(b, l, k)
      PROVE  /\ b[l + 1][c].score # -100
             /\ b[l + 1][c].score = 100 => MinChecked(m)
  <2>1. l + 1 = depth /\ b[l + 1][c].parent = k
    BY <1>2, <1>5, <1>8
  <2> QED
    BY <1>1, <1>7, <2>1 DEF EvenDone, CHECKMATE
<1>9. ASSUME h # 1, NEW c \in Kids(b, l, k), b[l + 1][c].score = 100
      PROVE  \E r \in MaxMoves(b[l + 1][c].board) : Cornered(r, h - 1)
  <2>1. l + 1 \in 0 .. depth - 1 /\ l + 1 < depth
    BY <1>1, <1>2, <1>9
  <2>2. PICK d \in Kids(b, l + 1, c) : Cornered(b[l + 2][d].board, height(l + 1))
    <3>1. (l + 1) + 1 = l + 2
      BY <1>1
    <3> QED
      BY <1>7, <1>9, <2>1, <3>1 DEF EvenDone, CHECKMATE
  <2>3. b[l + 2][d].board \in MaxMoves(b[l + 1][c].board)
    <3>1. (l + 1) + 1 = l + 2 /\ c \in 1 .. Len(b[l + 1])
      BY <1>1, <1>5
    <3>2. b[(l + 1) + 1][d].board \in Moves(l + 1, b[l + 1][c].board)
      BY <2>1, <3>1, KidsFacts
    <3> QED
      BY <1>1, <3>1, <3>2 DEF Moves
  <2> QED
    BY <1>2, <2>2, <2>3
<1> HIDE DEF s, m, h
<1>10. s \in {-100, -2, 0, 100, 101}
  BY <1>4, <1>6, <1>7
<1>11. ASSUME s = 100
       PROVE  Cornered(m, h)
  <2>1. \A c \in Kids(b, l, k) : b[l + 1][c].score = 100
    BY <1>6, <1>7, <1>11
  <2>2. CASE MinMoves(m) = {}
    <3>1. MinChecked(m)
      BY <1>4, <1>5, <1>6, <1>11, <2>2
    <3> QED
      BY <1>2, <1>3, <2>2, <3>1, ForcedAssumption
  <2>3. CASE MinMoves(m) # {} /\ h = 1
    <3>1. MinChecked(m)
      BY <1>5, <1>8, <2>1, <2>3
    <3> QED
      BY <1>2, <1>3, <2>3, <3>1, ForcedAssumption
  <2>4. CASE MinMoves(m) # {} /\ h # 1
    <3>1. \A p \in MinMoves(m) : \E r \in MaxMoves(p) : Cornered(r, h - 1)
      BY <1>5, <1>9, <2>1, <2>4
    <3> QED
      BY <1>2, <1>3, <2>4, <3>1, ForcedAssumption
  <2> QED
    BY <2>2, <2>3, <2>4
<1>12. ASSUME s = -100
       PROVE  \E p \in MinMoves(m) : h > 1 /\ Doomed(p, h - 1)
  <2>1. PICK c \in Kids(b, l, k) : b[l + 1][c].score = -100
    BY <1>4, <1>6, <1>12
  <2>2. h # 1
    BY <1>8, <2>1
  <2>3. Doomed(b[l + 1][c].board, height(l + 1))
    BY <1>7, <2>1 DEF EvenDone, CHECKMATE
  <2>4. h > 1
    BY <1>2, <2>2, GameAssumption
  <2> QED
    BY <1>2, <1>5, <2>3, <2>4
<1>13. ASSUME s > 100
       PROVE  MinMoves(m) = {} /\ ~MinChecked(m)
  <2>1. Kids(b, l, k) = {}
    BY <1>3, <1>6, <1>7, <1>10, <1>13
  <2>2. ~MinChecked(m)
    BY <1>4, <1>6, <1>10, <1>13
  <2> QED
    BY <1>5, <2>1, <2>2
<1>14. ASSUME NoStalemate(b), MateMin(m) <= h
       PROVE  s = 100
  <2>1. \/ MinMoves(m) = {} /\ MinChecked(m)
        \/ /\ MinMoves(m) # {} /\ h > 1
           /\ \A p \in MinMoves(m) : MateMax(p) <= h - 1
    BY <1>2, <1>3, <1>14, MateAssumption
  <2>2. CASE MinMoves(m) = {} /\ MinChecked(m)
    BY <1>4, <1>5, <1>6, <2>2
  <2>3. CASE /\ MinMoves(m) # {} /\ h > 1
             /\ \A p \in MinMoves(m) : MateMax(p) <= h - 1
    <3>1. l + 1 < depth
      BY <1>1, <1>2, <2>3
    <3>2. ASSUME NEW c \in Kids(b, l, k)
          PROVE  b[l + 1][c].score = 100
      <4>1. MateMax(b[l + 1][c].board) <= height(l + 1)
        BY <1>2, <1>5, <2>3
      <4>2. EvenDone(b, l + 1, c)
        BY <1>7
      <4> QED
        BY ONLY <1>14, <3>1, <4>1, <4>2 DEF EvenDone, CHECKMATE
    <3>3. PICK c \in Kids(b, l, k) : TRUE
      BY <1>5, <2>3
    <3> QED
      BY <1>4, <1>6, <3>2, <3>3
  <2> QED
    BY <2>1, <2>2, <2>3
<1> QED
  BY <1>6, <1>10, <1>11, <1>12, <1>13, <1>14, ScoreValues
  DEF OddDone, CHECKMATE, s, m, h

\* The layer before the one whose nodes have all been propagated is done.
LEMMA LayerDone ==
  ASSUME DepthOK, ~OtherChecked(board), NEW b, Layered(b), Expanded(b),
         NEW L, NEW a, Propagating(b, L, a), a > Len(b[L]),
         NEW k \in 1 .. Len(b[L - 1])
  PROVE  Done(b, L - 1, k)
<1>1. /\ depth \in Nat /\ L \in 1 .. depth /\ L \in 0 .. depth
      /\ L - 1 \in 0 .. depth - 1 /\ (L - 1) + 1 = L /\ L \in L .. depth
      /\ L - 1 \in Nat
  BY DepthFacts DEF Propagating
<1>2. Len(b[L]) \in Nat /\ a \in Nat
  BY <1>1 DEF Propagating, Layered
<1>3. \A c \in 1 .. Len(b[L]) :
        Done(b, L, c) /\ (maxToMove(L) => b[L][c].score <= CHECKMATE)
  <2>1. \A c \in 1 .. Len(b[L]) : c < a
    BY <1>2
  <2> QED
    BY <1>1, <2>1 DEF Propagating
<1>4. {c \in Kids(b, L - 1, k) : c < a} = Kids(b, L - 1, k)
  BY <1>1, <1>2 DEF Kids
<1>5. Settled(b, L - 1, k)
  <2>1. Partial(b, L - 1, k, a)
    BY DEF Propagating
  <2> QED
    BY <1>4, <2>1 DEF Partial, Settled
<1>6. maxToMove(L) <=> ~maxToMove(L - 1)
  BY <1>1, TurnFacts
<1>7. CASE maxToMove(L - 1)
  <2>1. \A c \in 1 .. Len(b[(L - 1) + 1]) : OddDone(b, (L - 1) + 1, c)
    BY <1>1, <1>3, <1>6, <1>7 DEF Done
  <2>2. EvenDone(b, L - 1, k)
    BY <1>1, <1>5, <1>7, <2>1, EvenSettles
  <2> QED
    BY <1>7, <2>2 DEF Done
<1>8. CASE ~maxToMove(L - 1)
  <2>1. \A c \in 1 .. Len(b[(L - 1) + 1]) :
          EvenDone(b, (L - 1) + 1, c) /\ b[(L - 1) + 1][c].score <= CHECKMATE
    BY <1>1, <1>3, <1>6, <1>8 DEF Done
  <2>2. OddDone(b, L - 1, k)
    BY <1>1, <1>5, <1>8, <2>1, OddSettles
  <2> QED
    BY <1>8, <2>2 DEF Done
<1> QED
  BY <1>7, <1>8

\* The propagation goes to the layer before.
LEMMA LayerBeforeKeeps ==
  ASSUME DepthOK, ~OtherChecked(board), NEW b, Layered(b), Expanded(b),
         NEW L, NEW a, Propagating(b, L, a), a > Len(b[L])
  PROVE  IF L > 1 THEN Propagating(b, L - 1, 1) ELSE L = 1 /\ Scored(b)
<1>1. /\ depth \in Nat /\ L \in 1 .. depth /\ L \in 0 .. depth /\ L \in Nat
      /\ L - 1 \in 0 .. depth /\ L - 1 \in Nat
  BY DepthFacts DEF Propagating
<1>2. Len(b[L]) \in Nat /\ Len(b[L - 1]) \in Nat /\ a \in Nat
  BY <1>1 DEF Propagating, Layered
<1>3. ASSUME NEW l \in L - 1 .. depth, NEW k \in 1 .. Len(b[l])
      PROVE  Done(b, l, k)
  <2>1. CASE l = L - 1
    BY <2>1, LayerDone
  <2>2. CASE l # L - 1
    <3>1. l \in L .. depth
      BY <1>1, <2>2
    <3> QED
      BY <3>1 DEF Propagating
  <2> QED
    BY <2>1, <2>2
<1>4. ASSUME NEW l \in L .. depth, NEW k \in 1 .. Len(b[l]), maxToMove(l)
      PROVE  b[l][k].score <= CHECKMATE
  <2>1. L < l \/ k < a
    <3>1. CASE l = L
      BY <1>2, <3>1
    <3>2. CASE l # L
      BY <1>1, <3>2
    <3> QED
      BY <3>1, <3>2
  <2> QED
    BY <1>4, <2>1 DEF Propagating
<1>5. CASE L > 1
  <2>1. /\ L - 1 \in 1 .. depth /\ 1 \in 1 .. Len(b[L - 1]) + 1
        /\ (L - 1) - 1 = L - 2 /\ (L - 1) - 2 = L - 3 /\ L - 2 \in 0 .. depth - 1
        /\ L - 2 \in 0 .. depth /\ L - 2 \in 0 .. L - 2 /\ (L - 2) + 1 = L - 1
    BY <1>1, <1>2, <1>5
  <2>2. \A l \in 0 .. L - 3 : \A k \in 1 .. Len(b[l]) : b[l][k].score = fresh(b, l, k)
    <3>1. \A l \in 0 .. L - 3 : l \in 0 .. L - 2
      BY <1>1
    <3> QED
      BY <3>1 DEF Propagating
  <2>3. ASSUME NEW k \in 1 .. Len(b[L - 2])
        PROVE  Partial(b, L - 2, k, 1)
    <3>1. b[L - 2][k].score = fresh(b, L - 2, k)
      BY <2>1 DEF Propagating
    <3>2. b[L - 2][k].score \in Int
      BY <2>1, NodeFacts
    <3>3. {c \in Kids(b, L - 2, k) : c < 1} = {}
      <4>1. \A c \in Kids(b, L - 2, k) : c \in 1 .. Len(b[L - 1])
        BY <2>1 DEF Kids
      <4>2. \A c \in 1 .. Len(b[L - 1]) : ~(c < 1)
        BY <1>2
      <4> QED
        BY <4>1, <4>2
    <3>4. /\ b[L - 2][k].score >= fresh(b, L - 2, k)
          /\ b[L - 2][k].score <= fresh(b, L - 2, k)
      BY <3>1, <3>2
    <3> QED
      BY <3>1, <3>3, <3>4 DEF Partial
  <2>4. ASSUME NEW l \in L - 1 .. depth, NEW k \in 1 .. Len(b[l]),
               maxToMove(l), L - 1 < l \/ k < 1
        PROVE  b[l][k].score <= CHECKMATE
    <3>1. l \in 0 .. depth
      BY <1>1
    <3>2. Len(b[l]) \in Nat
      BY <3>1 DEF Layered
    <3>3. l \in L .. depth
      BY <1>1, <2>4, <3>2
    <3> QED
      BY <1>4, <2>4, <3>3
  <2>5. Propagating(b, L - 1, 1)
    BY <1>3, <2>1, <2>2, <2>3, <2>4 DEF Propagating
  <2> QED
    BY <1>5, <2>5
<1>6. CASE ~(L > 1)
  <2>1. L = 1 /\ L - 1 = 0
    BY <1>1, <1>6
  <2> QED
    BY <1>3, <1>4, <1>6, <2>1 DEF Scored
<1> QED
  BY <1>5, <1>6

----------------------------------------------------------------------------
(***************************************************************************)
(* Backward propagation: one node.                                         *)
(***************************************************************************)

LEMMA SameNodesTransitive ==
  ASSUME DepthOK, NEW b, NEW r, NEW t, SameNodes(b, r), SameNodes(r, t)
  PROVE  SameNodes(b, t)
BY DEF SameNodes

\* A node is as done as before if its score and those of its children are the
\* same.
LEMMA DoneKept ==
  ASSUME DepthOK, NEW b, Layered(b), NEW r, SameNodes(b, r),
         NEW l \in 0 .. depth, NEW k \in 1 .. Len(b[l]), Done(b, l, k),
         r[l][k].score = b[l][k].score,
         l < depth => \A c \in 1 .. Len(b[l + 1]) :
                        r[l + 1][c].score = b[l + 1][c].score
  PROVE  Done(r, l, k)
<1>1. depth \in Nat /\ maxToMove(depth)
  BY DepthFacts
<1>2. NoStalemate(r) <=> NoStalemate(b)
  BY SameNodesFacts
<1>3. r[l][k].parent = b[l][k].parent /\ r[l][k].board = b[l][k].board
  BY DEF SameNodes
<1>4. CASE l = depth
  <2>1. l \in 1 .. depth /\ l - 1 \in 0 .. depth /\ ~(l < depth)
    BY <1>4, DepthFacts
  <2>2. b[l][k].parent \in 1 .. Len(b[l - 1])
    BY <2>1 DEF Layered
  <2>3. r[l - 1][r[l][k].parent].board = b[l - 1][b[l][k].parent].board
    BY <1>3, <2>1, <2>2 DEF SameNodes
  <2>4. EvenDone(b, l, k)
    BY <1>1, <1>4 DEF Done
  <2>5. EvenDone(r, l, k)
    BY <1>3, <2>1, <2>3, <2>4 DEF EvenDone
  <2> QED
    BY <1>1, <1>4, <2>5 DEF Done
<1>5. CASE l # depth
  <2>1. l < depth /\ l \in 0 .. depth - 1 /\ l + 1 \in 0 .. depth
    BY <1>1, <1>5
  <2>2. Kids(r, l, k) = Kids(b, l, k)
    BY <2>1, SameNodesFacts
  <2>3. \A c \in Kids(b, l, k) :
          /\ r[l + 1][c].score = b[l + 1][c].score
          /\ r[l + 1][c].board = b[l + 1][c].board
    BY <2>1 DEF Kids, SameNodes
  <2>4. CASE maxToMove(l)
    <3>1. EvenDone(b, l, k)
      BY <2>4 DEF Done
    <3>2. EvenDone(r, l, k)
      BY <1>2, <1>3, <1>5, <2>2, <2>3, <3>1 DEF EvenDone
    <3> QED
      BY <2>4, <3>2 DEF Done
  <2>5. CASE ~maxToMove(l)
    <3>1. OddDone(b, l, k)
      BY <2>5 DEF Done
    <3>2. OddDone(r, l, k)
      BY <1>2, <1>3, <2>2, <2>3, <3>1 DEF OddDone
    <3> QED
      BY <2>5, <3>2 DEF Done
  <2> QED
    BY <2>4, <2>5
<1> QED
  BY <1>4, <1>5

\* What the propagation of node a of layer L writes: its own score, which a
\* stalemate of the other side has turned into one, and its parent's.
ownScore(b, L, a) ==
  IF maxToMove(L) /\ b[L][a].score > CHECKMATE THEN STALLMATE ELSE b[L][a].score

parentScore(b, L, a) ==
  LET s == b[L - 1][b[L][a].parent].score
  IN  IF maxToMove(L) THEN min(s, ownScore(b, L, a)) ELSE max(s, ownScore(b, L, a))

AfterPropagate(b, L, a, r) ==
  r = [b EXCEPT ![L][a].score = ownScore(b, L, a),
                ![L - 1][b[L][a].parent].score = parentScore(b, L, a)]

LEMMA PropagateWrites ==
  ASSUME DepthOK, NEW b, Layered(b), NEW L \in 1 .. depth,
         NEW a \in 1 .. Len(b[L]), NEW r, AfterPropagate(b, L, a, r)
  PROVE  /\ SameNodes(b, r)
         /\ r[L][a].score = ownScore(b, L, a)
         /\ r[L - 1][b[L][a].parent].score = parentScore(b, L, a)
         /\ \A l \in 0 .. depth : \A k \in 1 .. Len(b[l]) :
              \/ l = L /\ k = a
              \/ l = L - 1 /\ k = b[L][a].parent
              \/ r[l][k].score = b[l][k].score
<1> DEFINE p  == b[L][a].parent
           s  == ownScore(b, L, a)
           v  == parentScore(b, L, a)
           r1 == [b EXCEPT ![L][a].score = s]
<1>1. depth \in Nat /\ L \in 0 .. depth /\ L - 1 \in 0 .. depth /\ L # L - 1
  BY DepthFacts
<1>2. p \in 1 .. Len(b[L - 1])
  BY DEF Layered
<1>3. b[L][a].score \in Int /\ b[L - 1][p].score \in Int
  BY <1>1, <1>2, NodeFacts
<1>4. s \in Int
  BY <1>3 DEF ownScore, STALLMATE
<1>5. v \in Int
  BY <1>3, <1>4 DEF parentScore, min, max
<1> HIDE DEF p, s, v
<1>6. ScoreSet(r1, L - 1, p, v, r)
  BY <1>1 DEF ScoreSet, AfterPropagate, Layered, p, s, v
<1>7. ScoreSet(b, L, a, s, r1)
  BY DEF ScoreSet
<1> HIDE DEF r1
<1>8. SameNodes(b, r1)
  BY ONLY DepthOK, Layered(b), a \in 1 .. Len(b[L]), <1>1, <1>4, <1>7, SetScore
<1>9. r1[L][a].score = s
  BY ONLY DepthOK, Layered(b), a \in 1 .. Len(b[L]), <1>1, <1>4, <1>7, SetScore
<1>10. \A i \in 0 .. depth : \A j \in 1 .. Len(b[i]) :
         i # L \/ j # a => r1[i][j].score = b[i][j].score
  BY ONLY DepthOK, Layered(b), a \in 1 .. Len(b[L]), <1>1, <1>4, <1>7, SetScore
<1>11. Layered(r1)
  BY <1>8, SameNodesFacts
<1>12. \A i \in 0 .. depth : Len(r1[i]) = Len(b[i])
  BY <1>8 DEF SameNodes
<1>13. p \in 1 .. Len(r1[L - 1])
  BY <1>1, <1>2, <1>12
<1>14. SameNodes(r1, r)
  <2>1. L - 1 \in 0 .. depth
    BY <1>1
  <2> QED
    BY ONLY DepthOK, <1>5, <1>6, <1>11, <1>13, <2>1, SetScore
<1>15. r[L - 1][p].score = v
  BY ONLY DepthOK, <1>1, <1>5, <1>6, <1>11, <1>13, SetScore
<1>16. \A i \in 0 .. depth : \A j \in 1 .. Len(r1[i]) :
         i # L - 1 \/ j # p => r[i][j].score = r1[i][j].score
  BY ONLY DepthOK, <1>1, <1>5, <1>6, <1>11, <1>13, SetScore
<1>17. SameNodes(b, r)
  BY <1>8, <1>14, SameNodesTransitive
<1>18. r[L][a].score = s
  BY <1>1, <1>9, <1>12, <1>16
<1>19. \A l \in 0 .. depth : \A k \in 1 .. Len(b[l]) :
         \/ l = L /\ k = a
         \/ l = L - 1 /\ k = p
         \/ r[l][k].score = b[l][k].score
  BY <1>10, <1>12, <1>16
<1> QED
  BY <1>15, <1>17, <1>18, <1>19 DEF p, s, v

\* One node is propagated to its parent.
LEMMA PropagateKeeps ==
  ASSUME DepthOK, NEW b, Layered(b), Expanded(b), NEW L, NEW a,
         Propagating(b, L, a), a <= Len(b[L]), NEW r, AfterPropagate(b, L, a, r)
  PROVE  Layered(r) /\ Expanded(r) /\ Propagating(r, L, a + 1)
<1> DEFINE p == b[L][a].parent
           s == ownScore(b, L, a)
           v == parentScore(b, L, a)
<1>1. /\ depth \in Nat /\ L \in 1 .. depth /\ L \in 0 .. depth
      /\ L - 1 \in 0 .. depth /\ L - 1 \in 0 .. depth - 1 /\ L # L - 1
      /\ (L - 1) + 1 = L /\ L \in L .. depth /\ L - 1 \in Nat
  BY DepthFacts DEF Propagating
<1>2. Len(b[L]) \in Nat /\ a \in 1 .. Len(b[L]) /\ a \in Nat
  BY <1>1 DEF Propagating, Layered
<1>3. p \in 1 .. Len(b[L - 1])
  BY <1>1, <1>2 DEF Layered
<1>4. b[L][a].score \in Int /\ b[L - 1][p].score \in Int
  BY <1>1, <1>2, <1>3, NodeFacts
<1>5. s = IF maxToMove(L) /\ b[L][a].score > 100 THEN -2 ELSE b[L][a].score
  BY DEF ownScore, CHECKMATE, STALLMATE
<1>6. v = IF maxToMove(L)
            THEN IF b[L - 1][p].score <= s THEN b[L - 1][p].score ELSE s
            ELSE IF b[L - 1][p].score >= s THEN b[L - 1][p].score ELSE s
  BY DEF parentScore, min, max
<1>7. SameNodes(b, r) /\ r[L][a].score = s /\ r[L - 1][p].score = v
  BY <1>1, <1>2, PropagateWrites
<1>8. \A l \in 0 .. depth : \A k \in 1 .. Len(b[l]) :
        \/ l = L /\ k = a
        \/ l = L - 1 /\ k = p
        \/ r[l][k].score = b[l][k].score
  BY <1>1, <1>2, PropagateWrites
<1> HIDE DEF p, s, v
<1>9. /\ Layered(r)
      /\ \A l \in 0 .. depth - 1 : \A k : Kids(r, l, k) = Kids(b, l, k)
      /\ \A l \in 0 .. depth - 1 : \A k \in 1 .. Len(b[l]) :
           AllKids(b, l, k) => AllKids(r, l, k)
      /\ \A l \in 0 .. depth : \A k \in 1 .. Len(b[l]) :
           fresh(r, l, k) = fresh(b, l, k)
      /\ NoStalemate(r) <=> NoStalemate(b)
  BY <1>7, SameNodesFacts
<1>10. /\ \A l \in 0 .. depth : Len(r[l]) = Len(b[l])
       /\ \A l \in 0 .. depth : \A k \in 1 .. Len(b[l]) :
            r[l][k].parent = b[l][k].parent /\ r[l][k].board = b[l][k].board
  BY <1>7 DEF SameNodes
<1>11. Expanded(r)
  <2>1. \A l \in 0 .. depth - 1 : l \in 0 .. depth
    BY <1>1
  <2> QED
    BY <1>9, <1>10, <2>1 DEF Expanded
<1>12. L \in 1 .. depth /\ a + 1 \in 1 .. Len(r[L]) + 1
  BY <1>1, <1>2, <1>10
<1>13. ASSUME NEW l \in 0 .. L - 2, NEW k \in 1 .. Len(r[l])
       PROVE  r[l][k].score = fresh(r, l, k)
  <2>1. l \in 0 .. depth /\ l # L /\ l # L - 1
    BY <1>1
  <2>2. k \in 1 .. Len(b[l])
    BY <1>10, <2>1
  <2>3. b[l][k].score = fresh(b, l, k)
    BY <2>2 DEF Propagating
  <2> QED
    BY <1>8, <1>9, <2>1, <2>2, <2>3
<1>14. ASSUME NEW k \in 1 .. Len(r[L - 1])
       PROVE  Partial(r, L - 1, k, a + 1)
  <2> DEFINE x  == b[L - 1][k].score
             f  == fresh(b, L - 1, k)
             old == {c \in Kids(b, L - 1, k) : c < a}
             new == {c \in Kids(r, L - 1, k) : c < a + 1}
  <2>1. k \in 1 .. Len(b[L - 1])
    BY <1>1, <1>10
  <2>2. /\ x = f \/ \E c \in old : x = b[L][c].score
        /\ IF maxToMove(L - 1) THEN x >= f /\ \A c \in old : x >= b[L][c].score
                               ELSE x <= f /\ \A c \in old : x <= b[L][c].score
    BY <1>1, <2>1 DEF Propagating, Partial
  <2>3. fresh(r, L - 1, k) = f
    BY <1>1, <1>9, <2>1
  <2>4. Kids(r, L - 1, k) = Kids(b, L - 1, k)
    BY <1>1, <1>9
  <2>5. \A c \in Kids(b, L - 1, k) : c \in 1 .. Len(b[L]) /\ b[L][c].parent = k
    BY <1>1 DEF Kids
  <2>6. \A c \in old : c \in 1 .. Len(b[L]) /\ c # a
    BY <1>2, <2>5
  <2>7. \A c \in old : r[L][c].score = b[L][c].score
    BY <1>1, <1>8, <2>6
  <2>8. \A c \in old : b[L][c].score \in Int
    BY <1>1, <2>6, NodeFacts
  <2>9. x \in Int /\ f \in Int
    <3>1. x \in Int
      BY <1>1, <2>1, NodeFacts
    <3>2. f \in Int
      <4>1. L - 1 < depth /\ L \in Nat \ {0}
        BY <1>1
      <4>2. IF maxToMove(L - 1) THEN b[L - 1][k].board \in MaxPos
                                ELSE b[L - 1][k].board \in MinPos
        BY <1>1, <2>1, NodeFacts
      <4>3. expandScore(b[L - 1][k].board, L) \in Int
        BY <4>1, <4>2, NextStatesFacts
      <4> QED
        BY <1>1, <4>1, <4>3 DEF fresh
    <3> QED
      BY <3>1, <3>2
  <2>10. CASE k # p
    <3>1. new = old
      <4>1. a \notin Kids(b, L - 1, k)
        BY <2>5, <2>10 DEF p
      <4>2. \A c \in Kids(b, L - 1, k) : c < a + 1 <=> c < a
        BY <1>2, <2>5, <4>1
      <4> QED
        BY <2>4, <4>2
    <3>2. r[L - 1][k].score = x
      BY <1>1, <1>8, <2>1, <2>10
    <3> QED
      BY <1>1, <2>2, <2>3, <2>7, <3>1, <3>2 DEF Partial
  <2>11. CASE k = p
    <3>1. new = old \cup {a}
      <4>1. a \in Kids(b, L - 1, k)
        BY <1>1, <1>2, <2>11 DEF Kids, p
      <4>2. \A c \in Kids(b, L - 1, k) : c < a + 1 <=> c < a \/ c = a
        BY <1>2, <2>5
      <4> QED
        BY <1>2, <2>4, <4>1, <4>2
    <3>2. r[L - 1][k].score = v /\ r[L][a].score = s /\ s \in Int
      BY <1>4, <1>5, <1>7, <2>11
    <3>3. maxToMove(L) <=> ~maxToMove(L - 1)
      BY <1>1, TurnFacts
    <3>4. v = IF maxToMove(L) THEN IF x <= s THEN x ELSE s
                              ELSE IF x >= s THEN x ELSE s
      BY <1>6, <2>11
    <3> HIDE DEF x, f, old, new
    <3>5. v = f \/ v = s \/ \E c \in old : v = r[L][c].score
      BY <2>2, <2>7, <3>4
    <3>6. CASE maxToMove(L - 1)
      <4>1. v >= f /\ v >= s /\ v >= x
        BY <2>2, <2>9, <3>2, <3>3, <3>4, <3>6
      <4>2. \A c \in old : v >= r[L][c].score
        BY <2>2, <2>7, <2>8, <2>9, <3>2, <3>3, <3>4, <3>6
      <4>3. \A c \in new : v >= r[L][c].score
        BY <3>1, <3>2, <4>1, <4>2
      <4> QED
        BY <1>1, <2>3, <3>1, <3>2, <3>5, <3>6, <4>1, <4>3 DEF Partial, new
    <3>7. CASE ~maxToMove(L - 1)
      <4>1. v <= f /\ v <= s /\ v <= x
        BY <2>2, <2>9, <3>2, <3>3, <3>4, <3>7
      <4>2. \A c \in old : v <= r[L][c].score
        BY <2>2, <2>7, <2>8, <2>9, <3>2, <3>3, <3>4, <3>7
      <4>3. \A c \in new : v <= r[L][c].score
        BY <3>1, <3>2, <4>1, <4>2
      <4> QED
        BY <1>1, <2>3, <3>1, <3>2, <3>5, <3>7, <4>1, <4>3 DEF Partial, new
    <3> QED
      BY <3>6, <3>7
  <2> QED
    BY <2>10, <2>11
<1>15. ASSUME NEW l \in L .. depth, NEW k \in 1 .. Len(r[l])
       PROVE  Done(r, l, k)
  <2>1. l \in 0 .. depth /\ l # L - 1
    BY <1>1
  <2>2. k \in 1 .. Len(b[l]) /\ Done(b, l, k)
    BY <1>10, <2>1 DEF Propagating
  <2>3. l < depth => \A c \in 1 .. Len(b[l + 1]) :
                       r[l + 1][c].score = b[l + 1][c].score
    <3>1. l < depth => l + 1 \in 0 .. depth /\ l + 1 # L /\ l + 1 # L - 1
      BY <1>1, <2>1
    <3> QED
      BY <1>8, <3>1
  <2>4. CASE r[l][k].score = b[l][k].score
    BY <1>7, <2>1, <2>2, <2>3, <2>4, DoneKept
  <2>5. CASE r[l][k].score # b[l][k].score
    <3>1. l = L /\ k = a
      BY <1>8, <2>1, <2>2, <2>5
    <3>2. maxToMove(L) /\ b[L][a].score > 100 /\ r[L][a].score = -2
      BY <1>5, <1>7, <2>5, <3>1
    <3>3. EvenDone(b, L, a)
      BY <2>2, <3>1, <3>2 DEF Done
    <3>4. -2 \in NodeScores /\ -2 # 100 /\ -2 # -100
      BY ScoreValues
    <3>5. ~(NoStalemate(b) /\ L < depth /\ MateMax(b[L][a].board) <= height(L))
      BY <1>4, <3>2, <3>3 DEF EvenDone, CHECKMATE
    <3>6. r[L][a].board = b[L][a].board
      BY <1>1, <1>2, <1>10
    <3>7. EvenDone(r, L, a)
      BY <1>9, <3>2, <3>4, <3>5, <3>6 DEF EvenDone, CHECKMATE
    <3> QED
      BY <3>1, <3>2, <3>7 DEF Done
  <2> QED
    BY <2>4, <2>5
<1>16. ASSUME NEW l \in L .. depth, NEW k \in 1 .. Len(r[l]),
              maxToMove(l), L < l \/ k < a + 1
       PROVE  r[l][k].score <= CHECKMATE
  <2>1. l \in 0 .. depth /\ l # L - 1
    BY <1>1
  <2>2. k \in 1 .. Len(b[l]) /\ Len(b[l]) \in Nat
    BY <1>10, <2>1 DEF Layered
  <2>3. CASE l = L /\ k = a
    BY <1>4, <1>5, <1>7, <1>16, <2>3 DEF CHECKMATE
  <2>4. CASE ~(l = L /\ k = a)
    <3>1. L < l \/ k < a
      BY <1>1, <1>2, <1>16, <2>2, <2>4
    <3>2. b[l][k].score <= CHECKMATE
      BY <1>16, <2>2, <3>1 DEF Propagating
    <3> QED
      BY <1>8, <2>1, <2>2, <2>4, <3>2
  <2> QED
    BY <2>3, <2>4
<1> QED
  BY <1>9, <1>11, <1>12, <1>13, <1>14, <1>15, <1>16 DEF Propagating

----------------------------------------------------------------------------
(***************************************************************************)
(* The min-max paths.                                                      *)
(***************************************************************************)

\* The tree that holds only the root.
RootTree == [l \in 0 .. depth |-> IF l = 0 THEN <<1>> ELSE << >>]

\* The trace starts with that tree.
LEMMA TraceStarts ==
  ASSUME DepthOK, NEW b, Layered(b), depth' = depth, NEW t, t = RootTree
  PROVE  Tracing(b, t, 1, 1)'
<1>1. depth \in Nat /\ depth >= 2 /\ 1 \in 0 .. depth /\ 0 \in 0 .. depth
  BY DepthFacts
<1>2. /\ t = [l \in 0 .. depth |-> t[l]] /\ t[0] = <<1>>
      /\ \A l \in 1 .. depth : t[l] = << >>
  BY <1>1 DEF RootTree
<1>3. /\ <<1>> \in Seq(1 .. 1) /\ Len(<<1>>) = 1 /\ 1 .. Len(<< >>) = {}
      /\ \A S : << >> \in Seq(S)
  OBVIOUS
<1>4. \A l \in 0 .. depth : t[l] \in Seq(1 .. Len(b[l]))
  <2>1. t[0] \in Seq(1 .. Len(b[0]))
    BY <1>2, <1>3 DEF Layered
  <2>2. \A l \in 1 .. depth : t[l] \in Seq(1 .. Len(b[l]))
    BY <1>2, <1>3
  <2>3. \A l \in 0 .. depth : l = 0 \/ l \in 1 .. depth
    BY <1>1
  <2> QED
    BY <2>1, <2>2, <2>3
<1>5. \A l \in 1 .. depth : 1 .. Len(t[l]) = {}
  BY <1>2, <1>3
<1>6. \A l \in 0 .. depth : \A i, j \in 1 .. Len(t[l]) : ~(i < j)
  <2>1. \A l \in 0 .. depth : l = 0 \/ l \in 1 .. depth
    BY <1>1
  <2>2. \A i, j \in 1 .. Len(t[0]) : ~(i < j)
    <3>1. Len(t[0]) = 1
      BY <1>2, <1>3
    <3>2. \A i, j \in 1 .. 1 : ~(i < j)
      OBVIOUS
    <3> QED
      BY ONLY <3>1, <3>2
  <2> QED
    BY <1>5, <2>1, <2>2
<1>7. TreeOK(b, t)'
  BY <1>2, <1>4, <1>5, <1>6 DEF TreeOK
<1>8. Len(b[1]) \in Nat
  BY <1>1 DEF Layered
<1>9. 1 \in 1 .. depth /\ 1 \in 1 .. Len(b[1]) + 1
  BY <1>1, <1>8
<1>10. \A l \in 1 + 1 .. depth : t[l] = << >>
  <2>1. \A l \in 1 + 1 .. depth : l \in 1 .. depth
    BY <1>1
  <2> QED
    BY <1>2, <2>1
<1>11. \A l \in 1 .. 1 : \A k \in 1 .. Len(b[l]) : ~(l < 1 \/ k < 1)
  BY <1>8
<1> QED
  BY <1>5, <1>7, <1>9, <1>10, <1>11 DEF Tracing

LEMMA AppendFacts ==
  ASSUME NEW S, NEW q \in Seq(S), NEW x \in S
  PROVE  /\ Append(q, x) \in Seq(S) /\ Len(Append(q, x)) = Len(q) + 1
         /\ \A j \in 1 .. Len(q) : Append(q, x)[j] = q[j]
         /\ Append(q, x)[Len(q) + 1] = x
OBVIOUS

\* One node is looked at, and appended if it is to be kept.
LEMMA TraceKeeps ==
  ASSUME DepthOK, NEW b, Layered(b), NEW t, NEW L, NEW a, Tracing(b, t, L, a),
         a <= Len(b[L]), NEW u,
         u = IF Kept(b, t, L, a) THEN [t EXCEPT ![L] = Append(@, a)] ELSE t
  PROVE  Tracing(b, u, L, a + 1)
<1>1. /\ depth \in Nat /\ L \in 1 .. depth /\ L \in 0 .. depth /\ L - 1 \in 0 .. depth
      /\ L - 1 # L /\ 0 # L
  BY DepthFacts DEF Tracing
<1>2. Len(b[L]) \in Nat /\ a \in 1 .. Len(b[L]) /\ a \in Nat
  BY <1>1 DEF Tracing, Layered
<1>3. /\ t = [l \in 0 .. depth |-> t[l]] /\ t[0] = <<1>>
      /\ \A l \in 0 .. depth : t[l] \in Seq(1 .. Len(b[l]))
      /\ \A l \in 0 .. depth : \A i, j \in 1 .. Len(t[l]) : i < j => t[l][i] < t[l][j]
      /\ \A l \in 1 .. depth : \A j \in 1 .. Len(t[l]) : Kept(b, t, l, t[l][j])
  BY DEF Tracing, TreeOK
<1>4. /\ \A j \in 1 .. Len(t[L]) : t[L][j] < a
      /\ \A l \in L + 1 .. depth : t[l] = << >>
      /\ \A l \in 1 .. L : \A k \in 1 .. Len(b[l]) :
           (l < L \/ k < a) /\ Kept(b, t, l, k) => InTree(t, l, k)
  BY DEF Tracing
<1>5. L \in 1 .. depth /\ a + 1 \in 1 .. Len(b[L]) + 1
  BY <1>1, <1>2
<1>6. t[L] \in Seq(1 .. Len(b[L])) /\ Len(t[L]) \in Nat
  BY <1>1, <1>3
<1>7. CASE ~Kept(b, t, L, a)
  <2>1. u = t
    BY <1>7
  <2>2. \A j \in 1 .. Len(t[L]) : t[L][j] < a + 1
    <3>1. \A j \in 1 .. Len(t[L]) : t[L][j] \in 1 .. Len(b[L])
      BY <1>6
    <3> QED
      BY <1>2, <1>4, <3>1
  <2>3. ASSUME NEW l \in 1 .. L, NEW k \in 1 .. Len(b[l]),
               l < L \/ k < a + 1, Kept(b, t, l, k)
        PROVE  InTree(t, l, k)
    <3>1. l \in 0 .. depth /\ l \in Nat
      BY <1>1
    <3>2. Len(b[l]) \in Nat
      BY <3>1 DEF Layered
    <3>3. l < L \/ k < a
      BY <1>1, <1>2, <1>7, <2>3, <3>1, <3>2
    <3> QED
      BY <1>4, <2>3, <3>3
  <2>4. TreeOK(b, t)
    BY DEF Tracing
  <2> QED
    BY <1>4, <1>5, <2>1, <2>2, <2>3, <2>4 DEF Tracing
<1>8. CASE Kept(b, t, L, a)
  <2> DEFINE n == Len(t[L])
  <2>1. u = [t EXCEPT ![L] = Append(@, a)]
    BY <1>8
  <2>2. /\ u = [l \in 0 .. depth |-> u[l]] /\ u[L] = Append(t[L], a)
        /\ \A l \in 0 .. depth : l # L => u[l] = t[l]
    BY ONLY <1>1, <1>3, <2>1
  <2>3. /\ u[L] \in Seq(1 .. Len(b[L])) /\ Len(u[L]) = n + 1
        /\ \A j \in 1 .. n : u[L][j] = t[L][j]
        /\ u[L][n + 1] = a
    <3>1. /\ Append(t[L], a) \in Seq(1 .. Len(b[L]))
          /\ Len(Append(t[L], a)) = Len(t[L]) + 1
          /\ \A j \in 1 .. Len(t[L]) : Append(t[L], a)[j] = t[L][j]
          /\ Append(t[L], a)[Len(t[L]) + 1] = a
      <4>1. a \in 1 .. Len(b[L]) /\ t[L] \in Seq(1 .. Len(b[L]))
        BY <1>2, <1>6
      <4> QED
        BY ONLY <4>1, AppendFacts
    <3> QED
      BY ONLY <2>2, <3>1, Zenon
  <2>4. \A j \in 1 .. Len(u[L]) : j \in 1 .. n \/ j = n + 1
    BY ONLY <1>6, <2>3
  <2>5. u[0] = <<1>> /\ u[L - 1] = t[L - 1]
    <3>1. 0 \in 0 .. depth
      BY <1>1
    <3> QED
      BY ONLY <1>1, <1>3, <2>2, <3>1
  <2>6. \A l \in 0 .. depth : u[l] \in Seq(1 .. Len(b[l]))
    BY ONLY <1>3, <2>2, <2>3
  <2>7. \A j \in 1 .. n : t[L][j] \in Nat
    BY ONLY <1>2, <1>6
  <2>8. ASSUME NEW l \in 0 .. depth, NEW i \in 1 .. Len(u[l]), NEW j \in 1 .. Len(u[l]),
               i < j
        PROVE  u[l][i] < u[l][j]
    <3>1. CASE l = L
      <4>1. i \in 1 .. n
        BY ONLY <1>6, <2>3, <2>4, <2>8, <3>1, i \in 1 .. Len(u[l]), j \in 1 .. Len(u[l])
      <4>2. CASE j \in 1 .. n
        BY <1>1, <1>3, <2>3, <2>8, <3>1, <4>1, <4>2
      <4>3. CASE j = n + 1
        BY <1>4, <2>3, <3>1, <4>1, <4>3
      <4> QED
        BY <2>4, <3>1, <4>2, <4>3
    <3>2. CASE l # L
      <4>1. u[l] = t[l]
        BY <2>2, <3>2
      <4> QED
        BY <1>3, <2>8, <4>1
    <3> QED
      BY <3>1, <3>2
  <2>9. \A l \in 1 .. L : \A k : Kept(b, u, l, k) <=> Kept(b, t, l, k)
    <3>1. ASSUME NEW l \in 1 .. L, NEW k PROVE Kept(b, u, l, k) <=> Kept(b, t, l, k)
      <4>1. l - 1 \in 0 .. depth /\ l - 1 # L
        BY <1>1
      <4>2. u[l - 1] = t[l - 1]
        BY <2>2, <4>1
      <4> QED
        BY <4>2 DEF Kept, InTree
    <3> QED
      BY <3>1
  <2>10. ASSUME NEW l \in 1 .. depth, NEW j \in 1 .. Len(u[l])
         PROVE  Kept(b, u, l, u[l][j])
    <3>1. CASE l = L
      <4>1. Kept(b, t, L, u[L][j])
        BY <1>1, <1>3, <1>8, <2>3, <2>4, <3>1
      <4>2. L \in 1 .. L
        BY <1>1
      <4> QED
        BY <2>9, <3>1, <4>1, <4>2
    <3>2. CASE l < L
      <4>1. l \in 1 .. L /\ l \in 0 .. depth /\ l # L
        BY <1>1, <3>2
      <4>2. u[l] = t[l]
        BY <2>2, <4>1
      <4> QED
        BY <1>3, <2>9, <4>1, <4>2
    <3>3. CASE l > L
      <4>1. l \in L + 1 .. depth /\ l \in 0 .. depth /\ l # L
        BY <1>1, <3>3
      <4>2. u[l] = << >>
        BY <1>4, <2>2, <4>1
      <4> QED
        BY <4>2
    <3>4. l < L \/ l = L \/ l > L
      BY <1>1
    <3> QED
      BY <3>1, <3>2, <3>3, <3>4
  <2>11. TreeOK(b, u)
    BY <2>2, <2>5, <2>6, <2>8, <2>10 DEF TreeOK
  <2>12. \A j \in 1 .. Len(u[L]) : u[L][j] < a + 1
    BY <1>2, <1>4, <2>3, <2>4, <2>7
  <2>13. \A l \in L + 1 .. depth : u[l] = << >>
    <3>1. \A l \in L + 1 .. depth : l \in 0 .. depth /\ l # L
      BY <1>1
    <3> QED
      BY <1>4, <2>2, <3>1
  <2>14. ASSUME NEW l \in 1 .. L, NEW k \in 1 .. Len(b[l]),
                l < L \/ k < a + 1, Kept(b, u, l, k)
         PROVE  InTree(u, l, k)
    <3>1. l \in 0 .. depth /\ l \in Nat
      BY <1>1
    <3>2. Len(b[l]) \in Nat
      BY <3>1 DEF Layered
    <3>3. Kept(b, t, l, k)
      BY <2>9, <2>14
    <3>4. CASE l < L
      <4>1. InTree(t, l, k) /\ u[l] = t[l]
        BY <1>1, <1>4, <2>2, <3>1, <3>3, <3>4
      <4> QED
        BY <4>1 DEF InTree
    <3>5. CASE ~(l < L)
      <4>1. l = L /\ k <= a
        BY <1>1, <1>2, <2>14, <3>2, <3>5
      <4>2. CASE k = a
        <5>1. n + 1 \in 1 .. Len(u[L]) /\ u[L][n + 1] = k
          BY <1>6, <2>3, <4>2
        <5> QED
          BY <4>1, <5>1 DEF InTree
      <4>3. CASE k # a
        <5>1. InTree(t, L, k)
          <6>1. k < a /\ L \in 1 .. L
            BY <1>1, <1>2, <3>2, <4>1, <4>3
          <6> QED
            BY <1>4, <3>3, <4>1, <6>1
        <5>2. PICK j \in 1 .. n : t[L][j] = k
          BY <5>1 DEF InTree
        <5>3. j \in 1 .. Len(u[L]) /\ u[L][j] = k
          BY <1>6, <2>3, <5>2
        <5> QED
          BY <4>1, <5>3 DEF InTree
      <4> QED
        BY <4>2, <4>3
    <3> QED
      BY <3>4, <3>5
  <2> QED
    BY <1>5, <2>11, <2>12, <2>13, <2>14 DEF Tracing
<1> QED
  BY <1>7, <1>8

\* The trace goes to the next layer, or ends.
LEMMA TraceNextKeeps ==
  ASSUME DepthOK, NEW b, Layered(b), NEW t, NEW L, NEW a, Tracing(b, t, L, a),
         a > Len(b[L])
  PROVE  IF L < depth THEN Tracing(b, t, L + 1, 1) ELSE L = depth /\ Traced(b, t)
<1>1. /\ depth \in Nat /\ L \in 1 .. depth /\ L \in 0 .. depth /\ L \in Nat
  BY DepthFacts DEF Tracing
<1>2. Len(b[L]) \in Nat /\ a \in Nat
  BY <1>1 DEF Tracing, Layered
<1>3. ASSUME NEW l \in 1 .. L, NEW k \in 1 .. Len(b[l]), Kept(b, t, l, k)
      PROVE  InTree(t, l, k)
  <2>1. l < L \/ k < a
    <3>1. CASE l = L
      BY <1>2, <3>1
    <3>2. CASE l # L
      BY <1>1, <3>2
    <3> QED
      BY <3>1, <3>2
  <2> QED
    BY <1>3, <2>1 DEF Tracing
<1>4. CASE L < depth
  <2>1. L + 1 \in 1 .. depth /\ L + 1 \in 0 .. depth /\ L + 1 \in L + 1 .. depth
    BY <1>1, <1>4
  <2>2. Len(b[L + 1]) \in Nat
    BY <2>1 DEF Layered
  <2>3. t[L + 1] = << >> /\ 1 .. Len(t[L + 1]) = {}
    BY <2>1 DEF Tracing
  <2>4. \A l \in (L + 1) + 1 .. depth : t[l] = << >>
    <3>1. \A l \in (L + 1) + 1 .. depth : l \in L + 1 .. depth
      BY <1>1
    <3> QED
      BY <3>1 DEF Tracing
  <2>5. ASSUME NEW l \in 1 .. L + 1, NEW k \in 1 .. Len(b[l]),
               l < L + 1 \/ k < 1, Kept(b, t, l, k)
        PROVE  InTree(t, l, k)
    <3>1. l \in 0 .. depth
      BY <1>1, <2>1
    <3>2. Len(b[l]) \in Nat
      BY <3>1 DEF Layered
    <3>3. l \in 1 .. L
      BY <1>1, <2>5, <3>2
    <3> QED
      BY <1>3, <2>5, <3>3
  <2>6. 1 \in 1 .. Len(b[L + 1]) + 1
    BY <2>2
  <2>7. Tracing(b, t, L + 1, 1)
    BY <2>1, <2>3, <2>4, <2>5, <2>6 DEF Tracing
  <2> QED
    BY <1>4, <2>7
<1>5. CASE ~(L < depth)
  <2>1. L = depth
    BY <1>1, <1>5
  <2> QED
    BY <1>3, <1>5, <2>1 DEF Tracing, Traced
<1> QED
  BY <1>4, <1>5

----------------------------------------------------------------------------
(***************************************************************************)
(* The inductive invariant.                                                *)
(***************************************************************************)

\* What is said of the layers depends on the call, which does not change.
LEMMA SteadyLayers ==
  ASSUME UNCHANGED <<board, depth>>, NEW b, NEW L, NEW a
  PROVE  /\ Layered(b)' <=> Layered(b)
         /\ Expanding(b, L, a)' <=> Expanding(b, L, a)
         /\ Expanded(b)' <=> Expanded(b)
         /\ Propagating(b, L, a)' <=> Propagating(b, L, a)
         /\ Scored(b)' <=> Scored(b)
<1>1. ASSUME NEW l, NEW k
      PROVE  fresh(b, l, k)' = fresh(b, l, k)
  BY DEF fresh
<1>2. ASSUME NEW l, NEW k, NEW e
      PROVE  Partial(b, l, k, e)' <=> Partial(b, l, k, e)
  BY DEF Partial, fresh
<1>3. ASSUME NEW l, NEW k
      PROVE  EvenDone(b, l, k)' <=> EvenDone(b, l, k)
  BY DEF EvenDone, NoStalemate, height
<1>4. ASSUME NEW l, NEW k
      PROVE  OddDone(b, l, k)' <=> OddDone(b, l, k)
  BY DEF OddDone, NoStalemate, height
<1>5. ASSUME NEW l, NEW k
      PROVE  Done(b, l, k)' <=> Done(b, l, k)
  BY <1>3, <1>4 DEF Done
<1>6. Layered(b)' <=> Layered(b)
  BY DEF Layered
<1>7. Expanding(b, L, a)' <=> Expanding(b, L, a)
  BY DEF Expanding
<1>8. Expanded(b)' <=> Expanded(b)
  BY DEF Expanded
<1>9. Propagating(b, L, a)' <=> Propagating(b, L, a)
  BY <1>1, <1>2, <1>5 DEF Propagating
<1>10. Scored(b)' <=> Scored(b)
  BY <1>5 DEF Scored
<1> QED
  BY <1>6, <1>7, <1>8, <1>9, <1>10

LEMMA SteadyTree ==
  ASSUME UNCHANGED <<depth, ret>>, NEW b, NEW t, NEW L, NEW a
  PROVE  /\ Tracing(b, t, L, a)' <=> Tracing(b, t, L, a)
         /\ Traced(b, t)' <=> Traced(b, t)
<1>1. Tracing(b, t, L, a)' <=> Tracing(b, t, L, a)
  BY DEF Tracing, TreeOK, Kept
<1>2. Traced(b, t)' <=> Traced(b, t)
  BY DEF Traced, TreeOK, Kept
<1> QED
  BY <1>1, <1>2

LEMMA InvariantInit == Init => EvaluateInv
BY DEF Init, EvaluateInv, DepthOK, NONE

\* What holds while each of the loops is running.
LEMMA Phases ==
  ASSUME EvaluateInv
  PROVE  /\ pc = "start" => bfs = << >> /\ tree = << >> /\ layer = 0 /\ at = 0
         /\ pc \in {"expand", "propagate", "trace"} =>
              ~OtherChecked(board) /\ Layered(bfs)
         /\ pc = "expand" => tree = << >> /\ Expanding(bfs, layer, at)
         /\ pc = "propagate" =>
              tree = << >> /\ Expanded(bfs) /\ Propagating(bfs, layer, at)
         /\ pc = "trace" =>
              /\ Expanded(bfs) /\ Scored(bfs) /\ ret = bfs[0][1].score
              /\ Tracing(bfs, tree, layer, at)
BY DEF EvaluateInv

LEMMA StartStep ==
  ASSUME EvaluateInv, Start
  PROVE  EvaluateInv'
<1>1. /\ pc = "start" /\ bfs = << >> /\ tree = << >> /\ layer = 0 /\ at = 0
      /\ UNCHANGED <<board, depth, tree>>
  BY Phases DEF Start
<1>2. board' \in RootPos /\ DepthOK' /\ DepthOK
  BY <1>1 DEF EvaluateInv, DepthOK
<1>3. CASE OtherChecked(board)
  <2>1. /\ ret' = CHECKMATE /\ pc' = "print" /\ UNCHANGED <<bfs, layer, at>>
    BY <1>3 DEF Start
  <2> QED
    BY <1>1, <1>2, <1>3, <2>1 DEF EvaluateInv, CHECKMATE
<1>4. CASE ~OtherChecked(board)
  <2>1. /\ pc' = "expand" /\ layer' = 1 /\ at' = 1 /\ UNCHANGED ret
        /\ bfs' = [l \in 0 .. depth |->
                     IF l = 0
                       THEN <<[parent |-> 0, board |-> board, score |-> NONE]>>
                       ELSE << >>]
    BY <1>4 DEF Start
  <2>2. Layered(bfs') /\ Expanding(bfs', 1, 1)
    BY <1>2, <2>1, StartKeeps DEF EvaluateInv
  <2>3. Layered(bfs)' /\ Expanding(bfs, layer, at)'
    BY <1>1, <2>1, <2>2, SteadyLayers
  <2>4. ret' \in Int
    BY <2>1 DEF EvaluateInv
  <2> QED
    BY <1>1, <1>2, <1>4, <2>1, <2>3, <2>4 DEF EvaluateInv
<1> QED
  BY <1>3, <1>4

LEMMA ExpandStep ==
  ASSUME EvaluateInv, Expand
  PROVE  EvaluateInv'
<1>1. /\ pc = "expand" /\ at <= Len(bfs[layer - 1]) /\ at' = at + 1
      /\ UNCHANGED <<board, depth, tree, pc, layer, ret>>
  BY DEF Expand
<1>2. AfterExpand(bfs, layer, at, bfs')
  BY DEF Expand, AfterExpand, ExpandedKids
<1>3. ~OtherChecked(board) /\ Layered(bfs) /\ tree = << >> /\ Expanding(bfs, layer, at)
  BY <1>1, Phases
<1>4. board \in RootPos /\ DepthOK /\ DepthOK' /\ ret \in Int
  BY <1>1 DEF EvaluateInv, DepthOK
<1>5. Layered(bfs') /\ Expanding(bfs', layer, at + 1)
  BY <1>1, <1>2, <1>3, <1>4, ExpandKeeps
<1>6. Layered(bfs)' /\ Expanding(bfs, layer, at)'
  BY <1>1, <1>5, SteadyLayers
<1> QED
  BY <1>1, <1>3, <1>4, <1>6 DEF EvaluateInv

LEMMA ExpandNextLayerStep ==
  ASSUME EvaluateInv, ExpandNextLayer
  PROVE  EvaluateInv'
<1>1. /\ pc = "expand" /\ at > Len(bfs[layer - 1]) /\ at' = 1
      /\ UNCHANGED <<board, depth, bfs, tree, ret>>
      /\ IF layer < depth THEN layer' = layer + 1 /\ UNCHANGED pc
                          ELSE pc' = "propagate" /\ UNCHANGED layer
  BY DEF ExpandNextLayer
<1>2. ~OtherChecked(board) /\ Layered(bfs) /\ tree = << >> /\ Expanding(bfs, layer, at)
  BY <1>1, Phases
<1>3. board \in RootPos /\ DepthOK /\ DepthOK' /\ ret \in Int
  BY <1>1 DEF EvaluateInv, DepthOK
<1>4. Layered(bfs)'
  BY <1>1, <1>2, SteadyLayers
<1>5. CASE layer < depth
  <2>1. Expanding(bfs', layer', at')
    BY <1>1, <1>2, <1>3, <1>5, NextLayerKeeps
  <2>2. Expanding(bfs, layer, at)'
    BY <1>1, <2>1, SteadyLayers
  <2> QED
    BY <1>1, <1>2, <1>3, <1>4, <1>5, <2>2 DEF EvaluateInv
<1>6. CASE ~(layer < depth)
  <2>1. Expanded(bfs') /\ Propagating(bfs', layer', at')
    BY <1>1, <1>2, <1>3, <1>6, LastLayerKeeps
  <2>2. Expanded(bfs)' /\ Propagating(bfs, layer, at)'
    BY <1>1, <2>1, SteadyLayers
  <2> QED
    BY <1>1, <1>2, <1>3, <1>4, <1>6, <2>2 DEF EvaluateInv
<1> QED
  BY <1>5, <1>6

LEMMA PropagateStep ==
  ASSUME EvaluateInv, Propagate
  PROVE  EvaluateInv'
<1>1. /\ pc = "propagate" /\ at <= Len(bfs[layer]) /\ at' = at + 1
      /\ UNCHANGED <<board, depth, tree, pc, layer, ret>>
  BY DEF Propagate
<1>2. /\ ~OtherChecked(board) /\ Layered(bfs) /\ tree = << >>
      /\ Expanded(bfs) /\ Propagating(bfs, layer, at)
  BY <1>1, Phases
<1>3. board \in RootPos /\ DepthOK /\ DepthOK' /\ ret \in Int
  BY <1>1 DEF EvaluateInv, DepthOK
<1>4. AfterPropagate(bfs, layer, at, bfs')
  <2>1. layer # layer - 1
    BY <1>3, DepthFacts, <1>2 DEF Propagating
  <2> QED
    BY <1>2, <2>1 DEF Propagate, AfterPropagate, ownScore, parentScore, Layered
<1>5. Layered(bfs') /\ Expanded(bfs') /\ Propagating(bfs', layer, at + 1)
  BY <1>1, <1>2, <1>3, <1>4, PropagateKeeps
<1>6. Layered(bfs)' /\ Expanded(bfs)' /\ Propagating(bfs, layer, at)'
  BY <1>1, <1>5, SteadyLayers
<1> QED
  BY <1>1, <1>2, <1>3, <1>6 DEF EvaluateInv

LEMMA PropagateNextLayerStep ==
  ASSUME EvaluateInv, PropagateNextLayer
  PROVE  EvaluateInv'
<1>1. /\ pc = "propagate" /\ at > Len(bfs[layer]) /\ at' = 1
      /\ UNCHANGED <<board, depth, bfs>>
      /\ IF layer > 1
           THEN layer' = layer - 1 /\ UNCHANGED <<pc, tree, ret>>
           ELSE /\ pc' = "trace" /\ UNCHANGED layer
                /\ tree' = RootTree
                /\ ret' = bfs[0][1].score
  BY DEF PropagateNextLayer, RootTree
<1>2. /\ ~OtherChecked(board) /\ Layered(bfs) /\ tree = << >>
      /\ Expanded(bfs) /\ Propagating(bfs, layer, at)
  BY <1>1, Phases
<1>3. board \in RootPos /\ DepthOK /\ DepthOK' /\ ret \in Int
  BY <1>1 DEF EvaluateInv, DepthOK
<1>4. Layered(bfs)' /\ Expanded(bfs)'
  BY <1>1, <1>2, SteadyLayers
<1>5. IF layer > 1 THEN Propagating(bfs, layer - 1, 1) ELSE layer = 1 /\ Scored(bfs)
  BY <1>1, <1>2, <1>3, LayerBeforeKeeps
<1>6. CASE layer > 1
  <2>1. Propagating(bfs', layer', at')
    BY <1>1, <1>5, <1>6
  <2>2. Propagating(bfs, layer, at)'
    BY <1>1, <2>1, SteadyLayers
  <2> QED
    BY <1>1, <1>2, <1>3, <1>4, <1>6, <2>2 DEF EvaluateInv
<1>7. CASE ~(layer > 1)
  <2>1. layer' = 1 /\ Scored(bfs)'
    BY <1>1, <1>5, <1>7, SteadyLayers
  <2>2. ret' = bfs'[0][1].score /\ ret' \in Int
    <3>1. 0 \in 0 .. depth /\ 1 \in 1 .. Len(bfs[0])
      BY <1>2, <1>3, DepthFacts DEF Layered
    <3>2. bfs[0][1].score \in Int
      BY <1>2, <3>1, NodeFacts
    <3> QED
      BY <1>1, <1>7, <3>2
  <2>3. Tracing(bfs, tree, layer, at)'
    <3>1. /\ Layered(bfs') /\ layer' = 1 /\ at' = 1 /\ depth' = depth
          /\ tree' = RootTree
      BY <1>1, <1>2, <1>7, <2>1
    <3> QED
      BY <1>3, <3>1, TraceStarts
  <2> QED
    BY <1>1, <1>2, <1>3, <1>4, <1>7, <2>1, <2>2, <2>3 DEF EvaluateInv
<1> QED
  BY <1>6, <1>7

LEMMA TraceStep ==
  ASSUME EvaluateInv, Trace
  PROVE  EvaluateInv'
<1>1. /\ pc = "trace" /\ at <= Len(bfs[layer]) /\ at' = at + 1
      /\ UNCHANGED <<board, depth, bfs, pc, layer, ret>>
  BY DEF Trace
<1>2. tree' = IF Kept(bfs, tree, layer, at)
                THEN [tree EXCEPT ![layer] = Append(@, at)] ELSE tree
  BY DEF Trace, keep, onPath, Kept, InTree
<1>3. /\ ~OtherChecked(board) /\ Layered(bfs) /\ Expanded(bfs) /\ Scored(bfs)
      /\ ret = bfs[0][1].score /\ Tracing(bfs, tree, layer, at)
  BY <1>1, Phases
<1>4. board \in RootPos /\ DepthOK /\ DepthOK' /\ ret \in Int
  BY <1>1 DEF EvaluateInv, DepthOK
<1>5. Layered(bfs)' /\ Expanded(bfs)' /\ Scored(bfs)'
  BY <1>1, <1>3, SteadyLayers
<1>6. Tracing(bfs, tree', layer, at + 1)
  BY <1>1, <1>2, <1>3, <1>4, TraceKeeps
<1>7. Tracing(bfs, tree, layer, at)'
  BY <1>1, <1>6, SteadyTree
<1> QED
  BY <1>1, <1>3, <1>4, <1>5, <1>7 DEF EvaluateInv

LEMMA TraceNextLayerStep ==
  ASSUME EvaluateInv, TraceNextLayer
  PROVE  EvaluateInv'
<1>1. /\ pc = "trace" /\ at > Len(bfs[layer]) /\ at' = 1
      /\ UNCHANGED <<board, depth, bfs, tree, ret>>
      /\ IF layer < depth THEN layer' = layer + 1 /\ UNCHANGED pc
                          ELSE pc' = "print" /\ UNCHANGED layer
  BY DEF TraceNextLayer
<1>2. /\ ~OtherChecked(board) /\ Layered(bfs) /\ Expanded(bfs) /\ Scored(bfs)
      /\ ret = bfs[0][1].score /\ Tracing(bfs, tree, layer, at)
  BY <1>1, Phases
<1>3. board \in RootPos /\ DepthOK /\ DepthOK' /\ ret \in Int
  BY <1>1 DEF EvaluateInv, DepthOK
<1>4. Layered(bfs)' /\ Expanded(bfs)' /\ Scored(bfs)'
  BY <1>1, <1>2, SteadyLayers
<1>5. IF layer < depth THEN Tracing(bfs, tree, layer + 1, 1)
                       ELSE layer = depth /\ Traced(bfs, tree)
  BY <1>1, <1>2, <1>3, TraceNextKeeps
<1>6. CASE layer < depth
  <2>1. Tracing(bfs', tree', layer', at')
    BY <1>1, <1>5, <1>6
  <2>2. Tracing(bfs, tree, layer, at)'
    BY <1>1, <2>1, SteadyTree
  <2> QED
    BY <1>1, <1>2, <1>3, <1>4, <1>6, <2>2 DEF EvaluateInv
<1>7. CASE ~(layer < depth)
  <2>1. Traced(bfs', tree') /\ layer' = depth'
    BY <1>1, <1>5, <1>7
  <2>2. Traced(bfs, tree)'
    BY <1>1, <2>1, SteadyTree
  <2> QED
    BY <1>1, <1>2, <1>3, <1>4, <1>7, <2>1, <2>2 DEF EvaluateInv
<1> QED
  BY <1>6, <1>7

\* Layers and trees that have been sized are not empty.
LEMMA Sized ==
  ASSUME DepthOK
  PROVE  /\ \A b : Layered(b) => b # << >>
         /\ \A b, t : TreeOK(b, t) => t # << >>
<1>1. 0 \in 0 .. depth /\ 0 \notin DOMAIN << >>
  BY DepthFacts
<1>2. \A b : Layered(b) => DOMAIN b = 0 .. depth
  BY DEF Layered
<1>3. \A b, t : TreeOK(b, t) => DOMAIN t = 0 .. depth
  BY DEF TreeOK
<1> QED
  BY <1>1, <1>2, <1>3

LEMMA PrintTreeStep ==
  ASSUME EvaluateInv, PrintTree
  PROVE  EvaluateInv'
<1>1. /\ pc = "print" /\ pc' = (IF tree = << >> THEN "crash" ELSE "end")
      /\ UNCHANGED <<board, depth, bfs, tree, layer, at, ret>>
  BY DEF PrintTree
<1>2. board \in RootPos /\ DepthOK /\ DepthOK' /\ ret \in Int
  BY <1>1 DEF EvaluateInv, DepthOK
<1>3. CASE tree = << >>
  <2>1. \A b : ~Traced(b, tree)
    BY <1>2, <1>3, Sized DEF Traced
  <2>2. bfs = << >> /\ layer = 0 /\ at = 0 /\ OtherChecked(board)
    BY <1>1, <2>1 DEF EvaluateInv
  <2> QED
    BY <1>1, <1>2, <1>3, <2>2 DEF EvaluateInv
<1>4. CASE tree # << >>
  <2>1. /\ ~OtherChecked(board) /\ Layered(bfs) /\ Expanded(bfs) /\ Scored(bfs)
        /\ ret = bfs[0][1].score /\ Traced(bfs, tree) /\ layer = depth /\ at = 1
    BY <1>1, <1>4 DEF EvaluateInv
  <2>2. Layered(bfs)' /\ Expanded(bfs)' /\ Scored(bfs)'
    BY <1>1, <2>1, SteadyLayers
  <2>3. Traced(bfs, tree)'
    BY <1>1, <2>1, SteadyTree
  <2> QED
    BY <1>1, <1>2, <1>4, <2>1, <2>2, <2>3 DEF EvaluateInv
<1> QED
  BY <1>3, <1>4

\* The layers, the scores and the solution tree are at every step what the
\* loop that is running has made of them: the inductive invariant of evaluate.
THEOREM EvaluateInvariant == Spec => []EvaluateInv
<1>1. Init => EvaluateInv
  BY InvariantInit
<1>2. ASSUME EvaluateInv, UNCHANGED vars
      PROVE  EvaluateInv'
  <2>1. UNCHANGED <<board, depth, bfs, tree, pc, layer, at, ret>>
    BY <1>2 DEF vars
  <2>2. DepthOK' <=> DepthOK
    BY <2>1 DEF DepthOK
  <2>3. /\ Layered(bfs)' <=> Layered(bfs)
        /\ Expanding(bfs, layer, at)' <=> Expanding(bfs, layer, at)
        /\ Expanded(bfs)' <=> Expanded(bfs)
        /\ Propagating(bfs, layer, at)' <=> Propagating(bfs, layer, at)
        /\ Scored(bfs)' <=> Scored(bfs)
    BY <2>1, SteadyLayers
  <2>4. /\ Tracing(bfs, tree, layer, at)' <=> Tracing(bfs, tree, layer, at)
        /\ Traced(bfs, tree)' <=> Traced(bfs, tree)
    BY <2>1, SteadyTree
  <2> QED
    BY <1>2, <2>1, <2>2, <2>3, <2>4 DEF EvaluateInv
<1>3. EvaluateInv /\ [Next]_vars => EvaluateInv'
  BY <1>2, StartStep, ExpandStep, ExpandNextLayerStep, PropagateStep,
     PropagateNextLayerStep, TraceStep, TraceNextLayerStep, PrintTreeStep
  DEF Next
<1> QED
  BY <1>1, <1>3, PTL DEF Spec

----------------------------------------------------------------------------
(***************************************************************************)
(* What the invariant says of the answer.                                  *)
(***************************************************************************)

\* The program is in a defined state: the layers hold boards of the side to
\* move, each with a parent in the layer before, and the solution tree holds
\* nodes of the layers.
THEOREM TypeCorrect == Spec => []TypeOK
<1>1. EvaluateInv => TypeOK
  <2>1. SUFFICES ASSUME EvaluateInv PROVE TypeOK
    OBVIOUS
  <2>2. DepthOK /\ board \in RootPos /\ ret \in Int
    BY <2>1 DEF EvaluateInv
  <2>3. depth \in 1 .. 2 * Levels /\ depth \in Nat
    BY <2>2, DepthFacts
  <2>4. CASE bfs = << >> /\ tree = << >> /\ layer = 0 /\ at = 0
             /\ pc \in {"start", "print", "crash"}
    BY <2>2, <2>3, <2>4 DEF TypeOK
  <2>5. CASE Layered(bfs) /\ (tree = << >> \/ TreeOK(bfs, tree))
             /\ layer \in 0 .. depth /\ at \in Nat
             /\ pc \in {"expand", "propagate", "trace", "print", "end"}
    <3>1. bfs # << >>
      BY <2>2, <2>5, Sized
    <3>2. /\ DOMAIN bfs = 0 .. depth
          /\ \A l \in 0 .. depth : bfs[l] \in Seq(Node(l))
          /\ \A l \in 1 .. depth : \A k \in 1 .. Len(bfs[l]) :
               bfs[l][k].parent \in 1 .. Len(bfs[l - 1])
      BY <2>5 DEF Layered
    <3>3. tree # << >> =>
            /\ DOMAIN tree = 0 .. depth
            /\ \A l \in 0 .. depth : tree[l] \in Seq(1 .. Len(bfs[l]))
      BY <2>5 DEF TreeOK
    <3> QED
      BY <2>2, <2>3, <2>5, <3>1, <3>2, <3>3 DEF TypeOK
  <2>6. ASSUME Layered(bfs)
        PROVE  /\ Expanding(bfs, layer, at) => layer \in 0 .. depth /\ at \in Nat
               /\ Propagating(bfs, layer, at) => layer \in 0 .. depth /\ at \in Nat
               /\ Tracing(bfs, tree, layer, at) =>
                    layer \in 0 .. depth /\ at \in Nat /\ TreeOK(bfs, tree)
               /\ Traced(bfs, tree) => TreeOK(bfs, tree)
    <3>1. ASSUME NEW L \in 1 .. depth
          PROVE  /\ L \in 0 .. depth
                 /\ Len(bfs[L]) \in Nat /\ Len(bfs[L - 1]) \in Nat
      <4>1. L \in 0 .. depth /\ L - 1 \in 0 .. depth
        BY <2>3
      <4> QED
        BY <2>6, <4>1 DEF Layered
    <3>2. \A n \in Nat : \A a \in 1 .. n + 1 : a \in Nat
      OBVIOUS
    <3>3. Expanding(bfs, layer, at) => layer \in 0 .. depth /\ at \in Nat
      BY <3>1, <3>2 DEF Expanding
    <3>4. Propagating(bfs, layer, at) => layer \in 0 .. depth /\ at \in Nat
      BY <3>1, <3>2 DEF Propagating
    <3>5. Tracing(bfs, tree, layer, at) =>
            layer \in 0 .. depth /\ at \in Nat /\ TreeOK(bfs, tree)
      BY <3>1, <3>2 DEF Tracing
    <3> QED
      BY <3>3, <3>4, <3>5 DEF Traced
  <2>7. depth \in 0 .. depth /\ 1 \in Nat
    BY <2>3
  <2> QED
    BY <2>1, <2>4, <2>5, <2>6, <2>7 DEF EvaluateInv
<1> QED
  BY <1>1, EvaluateInvariant, PTL

\* What there is when the answer is.
LEMMA Answer ==
  ASSUME EvaluateInv, answered
  PROVE  /\ DepthOK /\ Layered(bfs) /\ Expanded(bfs) /\ Scored(bfs)
         /\ ret = bfs[0][1].score /\ Traced(bfs, tree)
         /\ board \in MaxPos /\ bfs[0][1].board = board /\ EvenDone(bfs, 0, 1)
         /\ 1 \in 1 .. Len(bfs[0]) /\ 0 \in 0 .. depth - 1 /\ 0 < depth
         /\ maxToMove(0) /\ height(0) = depth \div 2
<1>1. /\ DepthOK /\ Layered(bfs) /\ Expanded(bfs) /\ Scored(bfs)
      /\ ret = bfs[0][1].score /\ Traced(bfs, tree) /\ board \in MaxPos
  BY GameAssumption DEF EvaluateInv, answered
<1>2. /\ maxToMove(0) /\ height(0) = depth \div 2 /\ 0 \in 0 .. depth
      /\ 0 \in 0 .. depth - 1 /\ 0 < depth
  BY <1>1, DepthFacts
<1>3. 1 \in 1 .. Len(bfs[0]) /\ bfs[0][1].board = board
  BY <1>1 DEF Layered
<1>4. EvenDone(bfs, 0, 1)
  BY <1>1, <1>2, <1>3 DEF Scored, Done
<1> QED
  BY <1>1, <1>2, <1>3, <1>4

\* A score of CHECKMATE is a forced line to a mate or, at the horizon, to a
\* check.
THEOREM WinForced == Spec => []WinIsForced
<1>1. EvaluateInv => WinIsForced
  <2>1. SUFFICES ASSUME EvaluateInv, answered, ret = CHECKMATE
                 PROVE  \E q \in MaxMoves(board) : Cornered(q, depth \div 2)
    BY DEF WinIsForced
  <2>2. /\ DepthOK /\ Layered(bfs) /\ Expanded(bfs) /\ bfs[0][1].score = CHECKMATE
        /\ bfs[0][1].board = board /\ 1 \in 1 .. Len(bfs[0]) /\ 0 \in 0 .. depth - 1
        /\ 0 < depth /\ maxToMove(0) /\ height(0) = depth \div 2
    BY <2>1, Answer
  <2>3. PICK c \in Kids(bfs, 0, 1) : Cornered(bfs[0 + 1][c].board, height(0))
    BY <2>1, <2>2, Answer DEF EvenDone
  <2>4. bfs[0 + 1][c].board \in Moves(0, board)
    BY <2>2, KidsFacts
  <2> QED
    BY <2>2, <2>3, <2>4 DEF Moves
<1> QED
  BY <1>1, EvaluateInvariant, PTL

\* A score of -CHECKMATE is a forced mate of the side that moves first.
THEOREM LossReal == Spec => []LossIsReal
<1>1. EvaluateInv => LossIsReal
  <2>1. SUFFICES ASSUME EvaluateInv, answered, ret = -CHECKMATE
                 PROVE  Doomed(board, depth \div 2)
    BY DEF LossIsReal
  <2> QED
    BY <2>1, Answer DEF EvenDone
<1> QED
  BY <1>1, EvaluateInvariant, PTL

\* A mate within the rounds gets the score CHECKMATE unless the layers hold a
\* stalemate of the other side.
THEOREM MateFoundOrMasked == Spec => []MateSeen
<1>1. EvaluateInv => MateSeen
  <2>1. SUFFICES ASSUME EvaluateInv, answered, MateMax(board) <= depth \div 2,
                        ret # CHECKMATE
                 PROVE  \E l \in 1 .. depth - 1 : \E k \in 1 .. Len(bfs[l]) :
                          /\ ~maxToMove(l) /\ MinMoves(bfs[l][k].board) = {}
                          /\ ~MinChecked(bfs[l][k].board)
    BY DEF MateSeen
  <2>2. ~NoStalemate(bfs)
    BY <2>1, Answer DEF EvenDone
  <2> QED
    BY <2>2 DEF NoStalemate
<1> QED
  BY <1>1, EvaluateInvariant, PTL

\* In the tree of a win the boards of the first side are those that win: the
\* trace keeps none with a smaller score.
LEMMA KeptBoardsWin ==
  ASSUME EvaluateInv, answered, ret = CHECKMATE,
         NEW l \in 0 .. depth, maxToMove(l),
         NEW k \in 1 .. Len(bfs[l]), InTree(tree, l, k)
  PROVE  bfs[l][k].score = 100
<1>1. /\ DepthOK /\ Layered(bfs) /\ Scored(bfs)
      /\ TreeOK(bfs, tree) /\ ret = 100 /\ bfs[0][1].score = 100
  BY Answer DEF Traced, CHECKMATE
<1>2. depth \in Nat /\ l \in Nat /\ l <= depth
  BY <1>1, DepthFacts
<1>3. CASE l = 0
  <2>1. Len(bfs[0]) = 1
    BY <1>1 DEF Layered
  <2>2. k = 1
    BY <1>3, <2>1
  <2> QED
    BY <1>1, <1>3, <2>2
<1>4. CASE l # 0
  <2> DEFINE p == bfs[l][k].parent
  <2>1. /\ l \in 1 .. depth /\ l - 1 \in Nat /\ (l - 1) + 1 = l
        /\ l - 1 \in 0 .. depth
    BY <1>2, <1>4
  <2>2. ~maxToMove(l - 1)
    BY <2>1, TurnFacts
  <2>3. l - 1 \in 1 .. depth
    <3>1. l - 1 # 0
      BY <1>1, <2>2, DepthFacts
    <3> QED
      BY <1>2, <2>1, <3>1
  <2>4. Kept(bfs, tree, l, k)
    <3>1. PICK i \in 1 .. Len(tree[l]) : tree[l][i] = k
      BY DEF InTree
    <3>2. Kept(bfs, tree, l, tree[l][i])
      BY <1>1, <2>1 DEF TreeOK
    <3> QED
      BY <3>1, <3>2
  <2>5. InTree(tree, l - 1, p) /\ bfs[l][k].score <= 100
    BY <1>1, <2>4 DEF Kept
  <2>6. p \in 1 .. Len(bfs[l - 1])
    BY <1>1, <2>1 DEF Layered
  <2>7. Kept(bfs, tree, l - 1, p)
    <3>1. PICK i \in 1 .. Len(tree[l - 1]) : tree[l - 1][i] = p
      BY <2>5 DEF InTree
    <3>2. Kept(bfs, tree, l - 1, tree[l - 1][i])
      BY <1>1, <2>3, <3>1 DEF TreeOK
    <3> QED
      BY <3>1, <3>2
  <2>8. bfs[l - 1][p].score >= 100
    BY <1>1, <2>2, <2>7 DEF Kept
  <2>9. OddDone(bfs, l - 1, p)
    BY <1>1, <2>1, <2>2, <2>6 DEF Scored, Done
  <2>10. k \in Kids(bfs, l - 1, p)
    BY <2>1 DEF Kids
  <2>11. bfs[l - 1][p].score <= bfs[l][k].score
    BY <2>1, <2>9, <2>10 DEF OddDone
  <2>12. bfs[l - 1][p].score \in Int /\ bfs[l][k].score \in Int
    BY <1>1, <2>1, <2>6, NodeFacts
  <2> QED
    BY <2>5, <2>8, <2>11, <2>12
<1> QED
  BY <1>3, <1>4

\* The tree of a win has a move for the first side on each of its boards above
\* the horizon, and answers every reply.
THEOREM SolutionAnswersAll == Spec => []SolutionComplete
<1>1. EvaluateInv => SolutionComplete
  <2>1. SUFFICES ASSUME EvaluateInv, answered, ret = CHECKMATE,
                        NEW l \in 0 .. depth - 1, NEW j \in 1 .. Len(tree[l])
                 PROVE  IF maxToMove(l)
                          THEN \E c \in Kids(bfs, l, tree[l][j]) : onPath(l + 1, c)
                          ELSE \A c \in Kids(bfs, l, tree[l][j]) : onPath(l + 1, c)
    BY DEF SolutionComplete, Kids
  <2> DEFINE k == tree[l][j]
  <2>2. /\ DepthOK /\ Layered(bfs) /\ Expanded(bfs) /\ Scored(bfs)
        /\ Traced(bfs, tree) /\ TreeOK(bfs, tree) /\ ret = 100
        /\ bfs[0][1].score = 100
    BY <2>1, Answer DEF Traced, CHECKMATE
  <2>3. /\ depth \in Nat /\ l \in Nat /\ l < depth /\ l \in 0 .. depth
        /\ l + 1 \in 1 .. depth /\ l + 1 \in 0 .. depth /\ (l + 1) - 1 = l
    BY <2>2, DepthFacts
  <2>4. maxToMove(l + 1) <=> ~maxToMove(l)
    BY <2>3, TurnFacts
  <2>5. k \in 1 .. Len(bfs[l]) /\ InTree(tree, l, k)
    BY <2>2, <2>3 DEF TreeOK, InTree
  <2>6. Done(bfs, l, k) /\ bfs[l][k].score \in Int
    BY <2>2, <2>3, <2>5, NodeFacts DEF Scored
  <2>7. \A c \in Kids(bfs, l, k) :
          /\ c \in 1 .. Len(bfs[l + 1]) /\ bfs[l + 1][c].parent = k
    BY DEF Kids
  <2>8. ASSUME NEW c \in Kids(bfs, l, k),
               IF maxToMove(l + 1) THEN bfs[l + 1][c].score <= 100
                                   ELSE bfs[l + 1][c].score >= 100
        PROVE  onPath(l + 1, c)
    <3>1. Kept(bfs, tree, l + 1, c)
      BY <2>2, <2>3, <2>5, <2>7, <2>8 DEF Kept
    <3>2. InTree(tree, l + 1, c)
      BY <2>2, <2>3, <2>7, <3>1 DEF Traced
    <3> QED
      BY <3>2 DEF InTree, onPath
  <2>9. CASE ~maxToMove(l)
    <3>1. \A c \in Kids(bfs, l, k) : bfs[l + 1][c].score <= 100
      BY <2>2, <2>3, <2>4, <2>7, <2>9 DEF Scored, CHECKMATE
    <3> QED
      BY <2>4, <2>8, <2>9, <3>1
  <2>10. CASE maxToMove(l)
    <3>1. bfs[l][k].score = 100
      BY <2>1, <2>3, <2>5, <2>10, KeptBoardsWin
    <3>2. PICK c \in Kids(bfs, l, k) : bfs[l + 1][c].score = 100
      BY <2>3, <2>6, <2>10, <3>1 DEF Done, EvenDone, CHECKMATE
    <3> QED
      BY <2>4, <2>8, <2>10, <3>2
  <2> QED
    BY <2>9, <2>10
<1> QED
  BY <1>1, EvaluateInvariant, PTL

\* Every move of the first side in the tree of a win is a forced line to a mate
\* or, at the horizon, to a check.  Its score is not below the root's since it is
\* kept, and not above since its parent, which is kept too, takes the best.
THEOREM PrintedMovesForced == Spec => []PrintedMovesWin
<1>1. EvaluateInv => PrintedMovesWin
  <2>1. SUFFICES ASSUME EvaluateInv, answered, ret = CHECKMATE,
                        NEW l \in 1 .. depth, NEW j \in 1 .. Len(tree[l]),
                        ~maxToMove(l)
                 PROVE  Cornered(bfs[l][tree[l][j]].board, height(l))
    BY DEF PrintedMovesWin, height
  <2> DEFINE k == tree[l][j]
             p == bfs[l][k].parent
  <2>2. /\ DepthOK /\ Layered(bfs) /\ Scored(bfs)
        /\ TreeOK(bfs, tree) /\ ret = 100
    BY <2>1, Answer DEF Traced, CHECKMATE
  <2>3. /\ l - 1 \in Nat /\ (l - 1) + 1 = l /\ l - 1 < depth
        /\ l \in 0 .. depth /\ l - 1 \in 0 .. depth
    BY <2>2, DepthFacts
  <2>4. maxToMove(l - 1)
    BY <2>1, <2>3, TurnFacts
  <2>5. k \in 1 .. Len(bfs[l]) /\ Kept(bfs, tree, l, k)
    <3>1. /\ tree[l] \in Seq(1 .. Len(bfs[l]))
          /\ \A i \in 1 .. Len(tree[l]) : Kept(bfs, tree, l, tree[l][i])
      BY <2>2, <2>3 DEF TreeOK
    <3> QED
      BY <3>1
  <2>6. InTree(tree, l - 1, p) /\ bfs[l][k].score >= 100
    BY <2>1, <2>2, <2>5 DEF Kept
  <2>7. p \in 1 .. Len(bfs[l - 1]) /\ k \in Kids(bfs, l - 1, p)
    BY <2>2, <2>3, <2>5 DEF Layered, Kids
  <2>8. bfs[l - 1][p].score = 100
    BY <2>1, <2>3, <2>4, <2>6, <2>7, KeptBoardsWin
  <2>9. EvenDone(bfs, l - 1, p)
    BY <2>2, <2>3, <2>4, <2>7 DEF Scored, Done
  <2>10. bfs[l][k].score <= 100
    BY <2>3, <2>7, <2>8, <2>9 DEF EvenDone, CHECKMATE
  <2>11. bfs[l][k].score \in Int
    BY <2>2, <2>3, <2>5, NodeFacts
  <2>12. bfs[l][k].score = 100
    BY <2>6, <2>10, <2>11
  <2>13. OddDone(bfs, l, k)
    BY <2>1, <2>2, <2>3, <2>5 DEF Scored, Done
  <2> QED
    BY <2>12, <2>13 DEF OddDone, CHECKMATE
<1> QED
  BY <1>1, EvaluateInvariant, PTL

----------------------------------------------------------------------------
(***************************************************************************)
(* The printing of the tree.                                               *)
(***************************************************************************)

\* A set of natural numbers that is not empty has a least element, which
\* takes the place of induction in what follows.
LEMMA LeastNat ==
  ASSUME NEW S, S \subseteq Nat, S # {}
  PROVE  \E n \in S : \A m \in S : n <= m
<1> DEFINE R == OpToRel(<, Nat)
<1>1. R = {ss \in Nat \X Nat : ss[1] < ss[2]}
  BY Zenon DEF OpToRel
<1>2. IsWellFoundedOn(R, Nat)
  BY NatLessThanWellFounded, Zenon
<1> HIDE DEF R
<1>3. \E x \in S : \A y \in S : ~(<<y, x>> \in R)
  BY <1>2, WFMin
<1>4. \A x, y \in Nat : y < x => <<y, x>> \in R
  BY <1>1
<1>5. PICK x \in S : \A y \in S : ~(<<y, x>> \in R)
  BY <1>3
<1>6. ASSUME NEW y \in S
      PROVE  x <= y
  <2>1. x \in Nat /\ y \in Nat
    OBVIOUS
  <2>2. ~(y < x)
    BY <1>4, <1>5, <2>1
  <2> QED
    BY <2>1, <2>2
<1> QED
  BY <1>6

\* The children of a node lie side by side in the tree as in the layers, so
\* that the run dfsPrintTree follows is all of them.
LEMMA RunIsChildren ==
  ASSUME DepthOK, Layered(bfs), TreeOK(bfs, tree), NEW l \in 0 .. depth - 1, NEW k
  PROVE  run(l, k) = children(l, k)
<1>1. l + 1 \in 1 .. depth /\ l + 1 \in 0 .. depth
  BY DepthFacts
<1>2. /\ tree[l + 1] \in Seq(1 .. Len(bfs[l + 1])) /\ Len(tree[l + 1]) \in Nat
      /\ \A i \in 1 .. Len(tree[l + 1]) : tree[l + 1][i] \in 1 .. Len(bfs[l + 1])
  BY <1>1 DEF TreeOK
<1>3. Len(bfs[l + 1]) \in Nat
  BY <1>1 DEF Layered
<1>4. \A i, j \in 1 .. Len(tree[l + 1]) :
        i <= j => tree[l + 1][i] <= tree[l + 1][j]
  <2>1. ASSUME NEW i \in 1 .. Len(tree[l + 1]), NEW j \in 1 .. Len(tree[l + 1]), i <= j
        PROVE  tree[l + 1][i] <= tree[l + 1][j]
    <3>1. tree[l + 1][i] \in Int /\ tree[l + 1][j] \in Int
      BY <1>2, <1>3
    <3>2. CASE i = j
      BY <3>1, <3>2
    <3>3. CASE i # j
      <4>1. i < j
        BY <1>2, <2>1, <3>3
      <4>2. tree[l + 1][i] < tree[l + 1][j]
        BY <1>1, <4>1 DEF TreeOK
      <4> QED
        BY <3>1, <4>2
    <3> QED
      BY <3>2, <3>3
  <2> QED
    BY <2>1
<1> DEFINE parent(i) == bfs[l + 1][tree[l + 1][i]].parent
<1>5. \A i, j \in 1 .. Len(tree[l + 1]) : i <= j => parent(i) <= parent(j)
  BY <1>1, <1>2, <1>4 DEF Layered
<1>6. \A i \in 1 .. Len(tree[l + 1]) : parent(i) \in Int
  BY <1>1, <1>2, NodeFacts
<1>7. children(l, k) = {j \in 1 .. Len(tree[l + 1]) : parent(j) = k}
  BY DEF children
<1> HIDE DEF parent
<1>8. ASSUME NEW i \in children(l, k), NEW j \in children(l, k), NEW m \in i .. j
      PROVE  m \in children(l, k)
  <2>1. /\ i \in 1 .. Len(tree[l + 1]) /\ j \in 1 .. Len(tree[l + 1])
        /\ parent(i) = k /\ parent(j) = k
    BY <1>7
  <2>2. m \in 1 .. Len(tree[l + 1]) /\ i <= m /\ m <= j
    BY <1>2, <2>1
  <2>3. parent(i) <= parent(m) /\ parent(m) <= parent(j)
    BY <1>5, <2>1, <2>2
  <2>4. parent(m) = k
    BY <1>6, <2>1, <2>2, <2>3
  <2> QED
    BY <1>7, <2>2, <2>4
<1> QED
  BY <1>8 DEF run

\* Below all the places of one layer are all the places of the next.
LEMMA AllPlaces ==
  ASSUME DepthOK, Layered(bfs), TreeOK(bfs, tree), NEW l \in 0 .. depth - 1
  PROVE  UNION {run(l, tree[l][j]) : j \in 1 .. Len(tree[l])} = 1 .. Len(tree[l + 1])
<1>1. l + 1 \in 1 .. depth /\ (l + 1) - 1 = l
  BY DepthFacts
<1>2. ASSUME NEW c \in 1 .. Len(tree[l + 1])
      PROVE  \E j \in 1 .. Len(tree[l]) : c \in run(l, tree[l][j])
  <2>1. InTree(tree, l, bfs[l + 1][tree[l + 1][c]].parent)
    BY <1>1 DEF TreeOK, Kept
  <2>2. PICK j \in 1 .. Len(tree[l]) : tree[l][j] = bfs[l + 1][tree[l + 1][c]].parent
    BY <2>1 DEF InTree
  <2>3. c \in children(l, tree[l][j])
    BY <2>2 DEF children
  <2> QED
    BY <2>3, RunIsChildren
<1>3. \A k : run(l, k) \subseteq 1 .. Len(tree[l + 1])
  BY DEF run, children
<1> QED
  BY <1>2, <1>3

\* The places that are printed are all the places of the tree.
LEMMA PlacesWhole ==
  ASSUME DepthOK, Layered(bfs), TreeOK(bfs, tree)
  PROVE  \A l \in 0 .. depth : places[l] = 1 .. Len(tree[l])
<1> DEFINE P(f) == f = [l \in 0 .. depth |->
                          IF l = 0 THEN {1}
                          ELSE UNION {run(l - 1, tree[l - 1][j]) : j \in f[l - 1]}]
           w == [l \in 0 .. depth |-> 1 .. Len(tree[l])]
<1>1. depth \in Nat /\ 0 \in 0 .. depth
  BY DepthFacts
<1>2. 1 .. Len(tree[0]) = {1}
  <2>1. tree[0] = <<1>>
    BY DEF TreeOK
  <2>2. Len(<<1>>) = 1 /\ 1 .. 1 = {1}
    BY ONLY TRUE
  <2> QED
    BY ONLY <2>1, <2>2
<1>3. ASSUME NEW l \in 0 .. depth, l # 0
      PROVE  /\ l - 1 \in 0 .. depth /\ l - 1 \in 0 .. depth - 1
             /\ UNION {run(l - 1, tree[l - 1][j]) : j \in 1 .. Len(tree[l - 1])}
                  = 1 .. Len(tree[l])
  <2>1. l - 1 \in 0 .. depth /\ l - 1 \in 0 .. depth - 1 /\ (l - 1) + 1 = l
    BY <1>1, <1>3
  <2> QED
    BY <2>1, AllPlaces
<1>4. P(w)
  <2>1. \A l \in 0 .. depth : w[l] = 1 .. Len(tree[l])
    OBVIOUS
  <2>2. \A l \in 0 .. depth :
          w[l] = IF l = 0 THEN {1}
                 ELSE UNION {run(l - 1, tree[l - 1][j]) : j \in w[l - 1]}
    BY <1>2, <1>3, <2>1
  <2> QED
    BY <2>2
<1>5. places = CHOOSE f : P(f)
  BY DEF places
<1>6. P(places)
  <2> HIDE DEF P
  <2> QED
    BY <1>4, <1>5
<1>7. \A l \in 0 .. depth :
        places[l] = IF l = 0 THEN {1}
                    ELSE UNION {run(l - 1, tree[l - 1][j]) : j \in places[l - 1]}
  BY <1>6
<1> DEFINE Wrong == {l \in 0 .. depth : places[l] # 1 .. Len(tree[l])}
<1>8. Wrong = {}
  <2>1. SUFFICES ASSUME Wrong # {} PROVE FALSE
    OBVIOUS
  <2>2. Wrong \subseteq Nat
    BY <1>1
  <2>3. PICK l \in Wrong : \A m \in Wrong : l <= m
    BY <2>1, <2>2, LeastNat
  <2>4. l \in 0 .. depth /\ places[l] # 1 .. Len(tree[l])
    BY <2>3
  <2>5. l # 0
    BY <1>2, <1>7, <2>4
  <2>6. l - 1 \notin Wrong
    BY <2>2, <2>3
  <2>7. places[l - 1] = 1 .. Len(tree[l - 1])
    BY <1>3, <2>4, <2>5, <2>6
  <2>8. places[l] = 1 .. Len(tree[l])
    BY <1>3, <1>7, <2>4, <2>5, <2>7
  <2> QED
    BY <2>4, <2>8
<1> QED
  BY <1>8

\* dfsPrintTree prints every node of the solution tree, and main reads beyond
\* the tree only where evaluate returned before it had one.
THEOREM WholeTreePrinted == Spec => []PrintsWholeTree
<1>1. Init => PrintsWholeTree
  BY DEF Init, PrintsWholeTree
<1>2. ASSUME EvaluateInv, PrintsWholeTree, [Next]_vars
      PROVE  PrintsWholeTree'
  <2>1. CASE PrintTree
    <3>1. /\ pc = "print" /\ UNCHANGED <<board, depth, tree>>
          /\ IF tree = << >> THEN pc' = "crash" /\ UNCHANGED printed
                             ELSE pc' = "end" /\ printed' = places
      BY <2>1 DEF PrintTree
    <3>2. CASE tree = << >>
      <4>1. \A b : ~Traced(b, tree)
        BY <1>2, <3>2, Sized DEF Traced, EvaluateInv
      <4>2. OtherChecked(board)
        BY <1>2, <3>1, <4>1 DEF EvaluateInv
      <4> QED
        BY <3>1, <3>2, <4>2 DEF PrintsWholeTree
    <3>3. CASE tree # << >>
      <4>1. DepthOK /\ Layered(bfs) /\ TreeOK(bfs, tree)
        BY <1>2, <3>1, <3>3 DEF EvaluateInv, Traced
      <4>2. \A l \in 0 .. depth : places[l] = 1 .. Len(tree[l])
        BY <4>1, PlacesWhole
      <4> QED
        BY <3>1, <3>3, <4>2 DEF PrintsWholeTree
    <3> QED
      BY <3>2, <3>3
  <2>2. CASE UNCHANGED vars
    BY <1>2, <2>2 DEF PrintsWholeTree, vars
  <2>3. CASE Start \/ Expand \/ ExpandNextLayer \/ Propagate \/ PropagateNextLayer
             \/ Trace \/ TraceNextLayer
    <3>1. pc' \notin {"end", "crash"}
      BY <2>3 DEF Start, Expand, ExpandNextLayer, Propagate, PropagateNextLayer,
                  Trace, TraceNextLayer
    <3> QED
      BY <3>1 DEF PrintsWholeTree
  <2> QED
    BY <1>2, <2>1, <2>2, <2>3 DEF Next
<1> QED
  BY <1>1, <1>2, EvaluateInvariant, PTL DEF Spec
=============================================================================
