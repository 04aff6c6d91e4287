------------------------- MODULE MateSearchPathProofs -------------------------
(***************************************************************************)
(* What printPath relies on, for every game, every number of levels, every *)
(* order of the moves and every pruning of circular moves: the root round  *)
(* has a move, the move of a mate wins, and the solution trees beside the  *)
(* replies hold moves that are legal after them.                           *)
(***************************************************************************)
EXTENDS MateSearchSteps

\* The node stored for a signature holds a legal move of every board with it.
ForestOK(c) ==
  /\ \A s \in DOMAIN c.solutionMap : c.solutionMap[s] \in 1 .. Len(c.forest)
  /\ \A p \in MaxPos : Sig(p) \in DOMAIN c.solutionMap =>
       c.forest[c.solutionMap[Sig(p)]].data \in MaxMoves(p)

\* Nothing is forgotten between two caches: nodes keep their place and move.
ForestGrows(c, d) ==
  /\ Len(c.forest) \in Nat /\ Len(d.forest) \in Nat
  /\ Len(d.forest) >= Len(c.forest)
  /\ \A k \in 1 .. Len(c.forest) : d.forest[k].data = c.forest[k].data

\* Above the last level, the trees of round i answer the replies handled.
TreesOK(f, i, c) ==
  levelsLeft(i) > 1 =>
    /\ Len(f.trees) = Len(f.minStepStates)
    /\ \A k \in 1 .. Len(f.trees) :
         /\ f.trees[k] \in 1 .. Len(c.forest)
         /\ c.forest[f.trees[k]].data \in MaxMoves(f.minStepStates[k])

\* A round that returns has tried its moves, or has a mate to show.
Returned(f, i, c, result) ==
  IF result # CHECKMATE THEN f.left = {}
  ELSE /\ f.step \in MaxMoves(f.cur)
       /\ MateMin(f.step) <= levelsLeft(i)
       /\ TreesOK(f, i, c)

\* The root round has made a move as soon as it has tried one: it passes over
\* none.
RootMoved(f) == f.left = MaxMoves(f.cur) \/ f.step \in MaxMoves(f.cur)

PathInv ==
  /\ ForestOK(cache)
  /\ \A i \in 1 .. Len(stack) - 1 : TreesOK(stack[i], i, cache)
  /\ ctl = "min" => TreesOK(top, Len(stack), cache)
  /\ ctl \in {"return", "done"} => Returned(top, Len(stack), cache, score)
  /\ RootMoved(stack[1])

----------------------------------------------------------------------------
\* The trees of a round survive what is added to the forest.
LEMMA GrowthKeepsTrees ==
  ASSUME NEW f, NEW i, NEW c, NEW d, ForestGrows(c, d), TreesOK(f, i, c)
  PROVE  TreesOK(f, i, d)
<1>1. SUFFICES ASSUME levelsLeft(i) > 1
               PROVE  /\ Len(f.trees) = Len(f.minStepStates)
                      /\ \A k \in 1 .. Len(f.trees) :
                           /\ f.trees[k] \in 1 .. Len(d.forest)
                           /\ d.forest[f.trees[k]].data \in MaxMoves(f.minStepStates[k])
  BY DEF TreesOK
<1>2. /\ Len(f.trees) = Len(f.minStepStates)
      /\ \A k \in 1 .. Len(f.trees) :
           /\ f.trees[k] \in 1 .. Len(c.forest)
           /\ c.forest[f.trees[k]].data \in MaxMoves(f.minStepStates[k])
  BY <1>1 DEF TreesOK
<1>3. ASSUME NEW k \in 1 .. Len(f.trees)
      PROVE  /\ f.trees[k] \in 1 .. Len(d.forest)
             /\ d.forest[f.trees[k]].data = c.forest[f.trees[k]].data
  <2>1. f.trees[k] \in 1 .. Len(c.forest)
    BY <1>2
  <2> QED
    BY <2>1 DEF ForestGrows
<1> QED
  BY <1>2, <1>3

LEMMA SameForestGrows ==
  ASSUME NEW c, NEW d, CacheType(c), SameForest(c, d)
  PROVE  ForestGrows(c, d) /\ (ForestOK(c) => ForestOK(d))
<1>1. Len(c.forest) \in Nat
  BY DEF CacheType
<1> QED
  BY <1>1 DEF SameForest, ForestGrows, ForestOK

\* A step of the search leads to a state that satisfies the invariant.
LEMMA NextPath ==
  ASSUME SearchInv, PathInv, levels' = levels, NEW n, OnlyLast(n),
         n <= Len(stack) \/ ctl = "min",
         ForestGrows(cache, cache'), ForestOK(cache'),
         ctl' = "min" => TreesOK(stack'[n], n, cache'),
         ctl' \in {"return", "done"} => Returned(stack'[n], n, cache', score'),
         n = 1 => RootMoved(stack'[1])
  PROVE  PathInv'
<1>1. /\ n \in Nat /\ n > 0 /\ n - 1 <= Len(stack) /\ Len(stack') = n
      /\ Len(stack) \in Nat /\ Len(stack) > 0
  BY TopFacts DEF OnlyLast
<1>2. top' = stack'[n]
  BY <1>1 DEF top
<1>3. ASSUME NEW i \in 1 .. n - 1
      PROVE  TreesOK(stack'[i], i, cache')
  <2>1. stack'[i] = stack[i] /\ i \in 1 .. Len(stack)
    BY <1>1 DEF OnlyLast
  <2>2. CASE i = Len(stack)
    <3>1. ctl = "min"
      BY <1>1, <2>2
    <3>2. TreesOK(stack[i], i, cache)
      BY <2>2, <3>1 DEF PathInv, top
    <3> QED
      BY <2>1, <3>2, GrowthKeepsTrees
  <2>3. CASE i # Len(stack)
    <3>1. i \in 1 .. Len(stack) - 1
      BY <1>1, <2>1, <2>3
    <3>2. TreesOK(stack[i], i, cache)
      BY <3>1 DEF PathInv
    <3> QED
      BY <2>1, <3>2, GrowthKeepsTrees
  <2> QED
    BY <2>2, <2>3
<1>4. RootMoved(stack'[1])
  <2>1. CASE n = 1
    BY <2>1
  <2>2. CASE n # 1
    BY <1>1, <2>2 DEF OnlyLast, PathInv
  <2> QED
    BY <2>1, <2>2
<1>5. (\A i \in 1 .. Len(stack) - 1 : TreesOK(stack[i], i, cache))'
  BY <1>1, <1>3 DEF TreesOK, levelsLeft
<1>6. (ctl = "min" => TreesOK(top, Len(stack), cache))'
  BY <1>1, <1>2 DEF TreesOK, levelsLeft
<1>7. (ctl \in {"return", "done"} => Returned(top, Len(stack), cache, score))'
  BY <1>1, <1>2 DEF Returned, TreesOK, levelsLeft
<1>8. ForestOK(cache)' /\ RootMoved(stack[1])'
  BY <1>4 DEF ForestOK, RootMoved
<1> QED
  BY <1>5, <1>6, <1>7, <1>8 DEF PathInv

\* Steps that leave the forest alone.
LEMMA NextPathSameForest ==
  ASSUME SearchInv, PathInv, levels' = levels, NEW n, OnlyLast(n),
         n <= Len(stack) \/ ctl = "min", SameForest(cache, cache'),
         ctl' = "min" => TreesOK(stack'[n], n, cache),
         ctl' \in {"return", "done"} => Returned(stack'[n], n, cache, score'),
         n = 1 => RootMoved(stack'[1])
  PROVE  PathInv'
<1>1. CacheType(cache) /\ ForestOK(cache)
  BY DEF SearchInv, PathInv
<1>2. ForestGrows(cache, cache') /\ ForestOK(cache')
  BY <1>1, SameForestGrows
<1>3. ctl' = "min" => TreesOK(stack'[n], n, cache')
  BY <1>2, GrowthKeepsTrees
<1>4. ctl' \in {"return", "done"} => Returned(stack'[n], n, cache', score')
  BY <1>2, GrowthKeepsTrees DEF Returned
<1> QED
  BY <1>2, <1>3, <1>4, NextPath

\* A round that keeps its moves keeps what it has tried.
LEMMA SameRoundMoved ==
  ASSUME NEW f, NEW g, SameRound(f, g), RootMoved(f)
  PROVE  RootMoved(g)
BY DEF SameRound, RootMoved

\* One more reply is handled, and answered by the node k.
LEMMA TreesAppend ==
  ASSUME NEW f \in Frames, NEW g, NEW i, NEW c, NEW d, TreesOK(f, i, c),
         ForestGrows(c, d), NEW p \in MaxPos, NEW k \in 1 .. Len(d.forest),
         d.forest[k].data \in MaxMoves(p),
         g.minStepStates = Append(f.minStepStates, p),
         g.trees = Append(f.trees, k)
  PROVE  TreesOK(g, i, d)
<1> SUFFICES ASSUME levelsLeft(i) > 1
             PROVE  /\ Len(g.trees) = Len(g.minStepStates)
                    /\ \A j \in 1 .. Len(g.trees) :
                         /\ g.trees[j] \in 1 .. Len(d.forest)
                         /\ d.forest[g.trees[j]].data \in MaxMoves(g.minStepStates[j])
  BY DEF TreesOK
<1>1. f.trees \in Seq(Nat) /\ f.minStepStates \in Seq(MaxPos)
  BY DEF Frames
<1>2. /\ Len(f.trees) = Len(f.minStepStates)
      /\ \A j \in 1 .. Len(f.trees) :
           /\ f.trees[j] \in 1 .. Len(d.forest)
           /\ d.forest[f.trees[j]].data \in MaxMoves(f.minStepStates[j])
  <2>1. TreesOK(f, i, d)
    BY GrowthKeepsTrees
  <2> QED
    BY <2>1 DEF TreesOK
<1> DEFINE m == Len(f.trees)
<1>3. m \in Nat /\ k \in Nat
  BY <1>1 DEF ForestGrows
<1>4. /\ Len(g.trees) = m + 1 /\ Len(g.minStepStates) = m + 1
      /\ g.trees[m + 1] = k /\ g.minStepStates[m + 1] = p
      /\ \A j \in 1 .. m : g.trees[j] = f.trees[j]
      /\ \A j \in 1 .. m : g.minStepStates[j] = f.minStepStates[j]
  BY <1>1, <1>2, <1>3
<1>5. ASSUME NEW j \in 1 .. m + 1
      PROVE  /\ g.trees[j] \in 1 .. Len(d.forest)
             /\ d.forest[g.trees[j]].data \in MaxMoves(g.minStepStates[j])
  <2> HIDE DEF m
  <2>1. CASE j = m + 1
    BY <1>4, <2>1
  <2>2. CASE j \in 1 .. m
    BY <1>2, <1>4, <2>2 DEF m
  <2>3. j = m + 1 \/ j \in 1 .. m
    BY <1>3
  <2> QED
    BY <2>1, <2>2, <2>3
<1> QED
  BY <1>4, <1>5

----------------------------------------------------------------------------
\* expandMaxStep passes over a circular move: not in the root round.
LEMMA SkipCircularPath ==
  ASSUME SearchInv, PathInv, NEW q \in top.left, SkipCircular(q), levels' = levels
  PROVE  PathInv'
<1>1. /\ OnlyLast(Len(stack)) /\ Len(stack) > 1
      /\ UNCHANGED <<cache, ctl, score>> /\ ctl = "max"
  BY SkipCircularShape
<1> QED
  BY <1>1, TopFacts, NextPathSameForest DEF SameForest

\* expandMaxStep makes a move.
LEMMA MaxStepPath ==
  ASSUME SearchInv, PathInv, NEW q \in top.left, MaxStep(q), levels' = levels
  PROVE  PathInv'
<1> DEFINE n == Len(stack)
           g == stack'[n]
<1>1. /\ OnlyLast(n) /\ q \in MaxMoves(top.cur) /\ g.cur = top.cur /\ g.step = q
      /\ g.minStepStates = << >> /\ g.trees = << >>
      /\ cache' = cache /\ ctl' \in {"max", "min"}
  BY MaxStepShape
<1>2. TreesOK(g, n, cache)
  BY <1>1 DEF TreesOK
<1>3. n = 1 => RootMoved(stack'[1])
  BY <1>1 DEF RootMoved
<1>4. n <= Len(stack) /\ SameForest(cache, cache')
  BY <1>1, TopFacts DEF SameForest
<1> HIDE DEF n
<1> QED
  BY <1>1, <1>2, <1>3, <1>4, NextPathSameForest

\* expandMaxStep has tried every move.
LEMMA MaxExhaustedPath ==
  ASSUME SearchInv, PathInv, MaxExhausted, levels' = levels
  PROVE  PathInv'
<1> DEFINE n == Len(stack)
<1>1. /\ top.left = {} /\ ctl' = "return" /\ score' = NONE
      /\ stack' = stack /\ cache' = cache
  BY DEF MaxExhausted
<1>2. OnlyLast(n) /\ stack'[n] = top
  BY <1>1, TopFacts DEF OnlyLast
<1>3. Returned(top, n, cache, score')
  BY <1>1 DEF Returned, NONE, CHECKMATE
<1>4. RootMoved(stack'[1])
  BY <1>1 DEF PathInv
<1> QED
  BY <1>1, <1>2, <1>3, <1>4, TopFacts, NextPathSameForest DEF SameForest

\* A reply is found to escape without a search.
LEMMA ReplyEscapesPath ==
  ASSUME SearchInv, PathInv, ctl = "min", NEW p \in top.replies,
         EndMinStep(setTop(stack, replied(top, p, top.trees)), cache, NONE),
         levels' = levels
  PROVE  PathInv'
<1> DEFINE n == Len(stack)
<1>1. /\ OnlyLast(n) /\ SameRound(top, stack'[n]) /\ ctl' = "max"
      /\ SameForest(cache, cache')
  BY ReplyEscapesShape
<1>2. n = 1 => RootMoved(stack'[1])
  BY <1>1, SameRoundMoved DEF PathInv, top
<1> QED
  BY <1>1, <1>2, NextPathSameForest

\* The cache knows a mate after the reply, and its solution.
LEMMA MinReplyMatedPath ==
  ASSUME SearchInv, SearchInv', PathInv, NEW p \in top.replies,
         MinReplyMated(p), levels' = levels
  PROVE  PathInv'
<1> DEFINE n == Len(stack)
           g == stack'[n]
           k == getSolution(cache, Sig(p))
<1>1. OnlyLast(n) /\ SameRound(top, g)
  BY MinReplyMatedShape
<1>2. /\ g.minStepStates = Append(top.minStepStates, p)
      /\ g.trees = Append(top.trees, k)
  BY MinReplyMatedShape
<1>3. /\ p \in MaxPos /\ Sig(p) \in DOMAIN cache.solutionMap
      /\ UNCHANGED <<cache, score>> /\ ctl = "min" /\ ctl' = "min"
  BY MinReplyMatedShape
<1>4. k \in 1 .. Len(cache.forest) /\ cache.forest[k].data \in MaxMoves(p)
  BY <1>3 DEF getSolution, PathInv, ForestOK
<1>5. TreesOK(top, n, cache) /\ top \in Frames /\ ForestGrows(cache, cache)
  <2>1. CacheType(cache)
    BY DEF SearchInv
  <2> QED
    BY <1>3, <2>1, TopFacts, SameForestGrows DEF PathInv, SameForest
<1> HIDE DEF k, g
<1>6. TreesOK(g, n, cache)
  BY <1>2, <1>3, <1>4, <1>5, TreesAppend
<1>7. n = 1 => RootMoved(stack'[1])
  BY <1>1, SameRoundMoved DEF PathInv, top, g
<1> QED
  BY <1>1, <1>3, <1>6, <1>7, NextPathSameForest DEF g, SameForest

\* A round that is entered, and what it returns if it has no moves.
LEMMA EntryPath ==
  ASSUME NEW p \in MaxPos, NEW i, NEW c
  PROVE  /\ RootMoved(newFrame(p))
         /\ entryCtl(p) \in {"return", "done"} =>
              Returned(newFrame(p), i, c, entryScore(p))
<1>1. RootMoved(newFrame(p))
  BY DEF RootMoved, newFrame
<1>2. ASSUME entryCtl(p) \in {"return", "done"}
      PROVE  newFrame(p).left = {} /\ entryScore(p) # CHECKMATE
  <2>1. MaxMoves(p) = {}
    BY <1>2 DEF entryCtl
  <2>2. entryScore(p) # CHECKMATE
    BY EntryFacts
  <2> QED
    BY <2>1, <2>2 DEF newFrame
<1> QED
  BY <1>1, <1>2 DEF Returned

\* A reply is searched by a round of its own.
LEMMA MinReplyExpandPath ==
  ASSUME SearchInv, PathInv, NEW p \in top.replies, MinReplyExpand(p),
         levels' = levels
  PROVE  PathInv'
<1> DEFINE n == Len(stack) + 1
<1>1. /\ OnlyLast(n) /\ stack'[n] = newFrame(p) /\ p \in MaxPos
      /\ cache' = cache /\ ctl = "min"
      /\ ctl' = entryCtl(p) /\ score' = entryScore(p)
  BY MinReplyExpandShape
<1>2. ctl' # "min"
  BY <1>1 DEF entryCtl
<1>3. /\ RootMoved(newFrame(p))
      /\ ctl' \in {"return", "done"} => Returned(newFrame(p), n, cache, score')
  BY <1>1, EntryPath
<1> HIDE DEF n
<1> QED
  BY <1>1, <1>2, <1>3, NextPathSameForest DEF SameForest

\* All replies have been handled: a mate is returned with its trees.
LEMMA MinExhaustedPath ==
  ASSUME SearchInv, PathInv, MinExhausted, levels' = levels
  PROVE  PathInv'
<1> DEFINE n == Len(stack)
<1>1. /\ OnlyLast(n) /\ stack'[n] = top /\ ctl = "min"
      /\ ctl' = IF score' = CHECKMATE THEN "return" ELSE "max"
      /\ SameForest(cache, cache')
  BY MinExhaustedShape
<1>2. /\ score' = CHECKMATE => MinChecked(top.step) \/ MinMoves(top.step) # {}
      /\ top.replies = {}
  BY MinExhaustedShape DEF MinExhausted, CHECKMATE, STALLMATE
<1>3. MinStepOK(top, n, cache) /\ TreesOK(top, n, cache)
  BY <1>1 DEF SearchInv, PathInv
<1>4. top.step \in MinPos /\ top.step \in MaxMoves(top.cur)
  BY <1>3, TopFacts, GameAssumption DEF MinStepOK
<1>5. ASSUME score' = CHECKMATE
      PROVE  MateMin(top.step) <= levelsLeft(n)
  <2>1. CASE MinMoves(top.step) = {}
    BY <1>2, <1>4, <1>5, <2>1, TopFacts, MateAssumption
  <2>2. CASE MinMoves(top.step) # {}
    <3>1. /\ levelsLeft(n) > 1
          /\ \A p \in MinMoves(top.step) : MateMax(p) <= levelsLeft(n) - 1
      BY <1>2, <1>3, <2>2 DEF MinStepOK
    <3> QED
      BY <1>4, <2>2, <3>1, TopFacts, MateAssumption
  <2> QED
    BY <2>1, <2>2
<1>6. ctl' \in {"return", "done"} => Returned(top, n, cache, score')
  BY <1>1, <1>3, <1>4, <1>5 DEF Returned
<1>7. n = 1 => RootMoved(stack'[1])
  BY <1>1 DEF PathInv, top
<1>8. ctl' # "min"
  BY <1>1
<1> QED
  BY <1>1, <1>6, <1>7, <1>8, NextPathSameForest

\* handleMinStepBoard, after a search of the reply that found no mate.
LEMMA ChildEscapesPath ==
  ASSUME SearchInv, PathInv, ChildEscapes, levels' = levels
  PROVE  PathInv'
<1> DEFINE n == Len(stack) - 1
<1>1. n \in 1 .. Len(stack) - 1 /\ OnlyLast(n) /\ SameRound(stack[n], stack'[n])
  BY ChildEscapesShape
<1>2. ctl' = "max" /\ SameForest(cache, cache')
  BY ChildEscapesShape
<1>3. n <= Len(stack)
  BY <1>1, TopFacts
<1> HIDE DEF n
<1>4. n = 1 => RootMoved(stack'[1])
  BY <1>1, SameRoundMoved DEF PathInv
<1> QED
  BY <1>1, <1>2, <1>3, <1>4, NextPathSameForest

\* handleMinStepBoard, after a search of the reply that found a mate: the
\* child's move becomes, unless the signature has a node already, the node
\* that answers the reply.
LEMMA ChildMatedPath ==
  ASSUME SigFaithful, SearchInv, PathInv, ChildMated, levels' = levels
  PROVE  PathInv'
<1> DEFINE n == Len(stack) - 1
           g == stack'[n]
           p == top.cur
           k == keyIndex(cache, Sig(p))
<1>1. n \in 1 .. Len(stack) - 1 /\ OnlyLast(n) /\ SameRound(stack[n], g)
  BY ChildMatedShape
<1>2. /\ g.minStepStates = Append(stack[n].minStepStates, p)
      /\ g.trees = Append(stack[n].trees, k)
  BY ChildMatedShape
<1>3. ctl = "return" /\ score = CHECKMATE /\ ctl' = "min"
  BY ChildMatedShape
<1>4. PICK b : /\ CacheType(b) /\ SameForest(cache, b)
               /\ cache' = storeSolution(b, Sig(p), top.step,
                                         top.minStepStates, top.trees)
  BY ChildMatedShape
<1>5. /\ p \in MaxPos /\ Sig(p) \in Sigs /\ top.step \in MinPos \cup {NoPos}
      /\ top.minStepStates \in Seq(MaxPos) /\ top.trees \in Seq(Nat)
  BY TopFacts, SearchAssumption DEF Frames
<1>6. Returned(top, Len(stack), cache, score) /\ ForestOK(cache)
  BY <1>3 DEF PathInv
<1>7. top.step \in MaxMoves(p)
  BY <1>3, <1>6 DEF Returned
<1>8. n <= Len(stack) /\ n \in 1 .. Len(stack)
  BY <1>1, TopFacts
<1>9. /\ cache'.solutionMap = put(cache.solutionMap, Sig(p), k)
      /\ Len(cache.forest) \in Nat /\ Len(cache'.forest) \in Nat
      /\ Len(cache'.forest) > Len(cache.forest)
      /\ k \in 1 .. Len(cache.forest) + 1
      /\ \A i \in 1 .. Len(cache.forest) :
           cache'.forest[i].data = cache.forest[i].data
      /\ cache'.forest[Len(cache.forest) + 1].data = top.step
  <2>1. /\ b.solutionMap = cache.solutionMap /\ b.forest = cache.forest
        /\ keyIndex(b, Sig(p)) = k
    BY <1>4 DEF SameForest, keyIndex
  <2>2. \A s \in DOMAIN b.solutionMap : b.solutionMap[s] \in 1 .. Len(b.forest)
    BY <1>6, <2>1 DEF ForestOK
  <2> HIDE DEF k, p
  <2>3. Grown(b, cache', Sig(p), top.step)
    BY <1>4, <1>5, <2>2, StoreGrows
  <2> QED
    BY <2>1, <2>3 DEF Grown
<1>10. ForestGrows(cache, cache')
  BY <1>9 DEF ForestGrows
<1>11. k \in 1 .. Len(cache'.forest)
  BY <1>9
<1>12. ASSUME NEW x \in MaxPos, Sig(x) = Sig(p)
       PROVE  cache'.forest[k].data \in MaxMoves(x)
  <2>1. CASE Sig(p) \in DOMAIN cache.solutionMap
    <3>1. k = cache.solutionMap[Sig(x)] /\ k \in 1 .. Len(cache.forest)
      BY <1>6, <1>12, <2>1 DEF keyIndex, ForestOK
    <3>2. cache.forest[k].data \in MaxMoves(x)
      BY <1>6, <1>12, <2>1, <3>1 DEF ForestOK
    <3> QED
      BY <1>9, <3>1, <3>2
  <2>2. CASE Sig(p) \notin DOMAIN cache.solutionMap
    <3>1. k = Len(cache.forest) + 1
      BY <2>2 DEF keyIndex
    <3>2. MaxMoves(x) = MaxMoves(p)
      BY <1>5, <1>12 DEF SigFaithful
    <3> QED
      BY <1>7, <1>9, <3>1, <3>2
  <2> QED
    BY <2>1, <2>2
<1> HIDE DEF k
<1>13. ForestOK(cache')
  <2>1. /\ DOMAIN cache'.solutionMap = DOMAIN cache.solutionMap \cup {Sig(p)}
        /\ \A s \in DOMAIN cache'.solutionMap :
             cache'.solutionMap[s] = IF s = Sig(p) THEN k ELSE cache.solutionMap[s]
    BY <1>9 DEF put
  <2>2. ASSUME NEW s \in DOMAIN cache'.solutionMap
        PROVE  cache'.solutionMap[s] \in 1 .. Len(cache'.forest)
    BY <1>6, <1>9, <1>11, <2>1 DEF ForestOK
  <2>3. ASSUME NEW x \in MaxPos, Sig(x) \in DOMAIN cache'.solutionMap
        PROVE  cache'.forest[cache'.solutionMap[Sig(x)]].data \in MaxMoves(x)
    <3>1. CASE Sig(x) = Sig(p)
      BY <1>12, <2>1, <2>3, <3>1
    <3>2. CASE Sig(x) # Sig(p)
      <4>1. /\ Sig(x) \in DOMAIN cache.solutionMap
            /\ cache'.solutionMap[Sig(x)] = cache.solutionMap[Sig(x)]
        BY <2>1, <2>3, <3>2
      <4>2. /\ cache.solutionMap[Sig(x)] \in 1 .. Len(cache.forest)
            /\ cache.forest[cache.solutionMap[Sig(x)]].data \in MaxMoves(x)
        BY <1>6, <4>1 DEF ForestOK
      <4> QED
        BY <1>9, <4>1, <4>2
    <3> QED
      BY <3>1, <3>2
  <2> QED
    BY <2>2, <2>3 DEF ForestOK
<1>14. TreesOK(g, n, cache')
  <2>1. TreesOK(stack[n], n, cache)
    BY <1>1 DEF PathInv
  <2>2. stack[n] \in Frames
    BY <1>8, TopFacts
  <2>3. cache'.forest[k].data \in MaxMoves(p)
    BY <1>5, <1>12
  <2> HIDE DEF n, g, p
  <2> QED
    BY <1>2, <1>5, <1>10, <1>11, <2>1, <2>2, <2>3, TreesAppend
<1> HIDE DEF n
<1>15. n = 1 => RootMoved(stack'[1])
  BY <1>1, SameRoundMoved DEF PathInv
<1> QED
  BY <1>1, <1>3, <1>8, <1>10, <1>13, <1>14, <1>15, NextPath

----------------------------------------------------------------------------
\* The first round, on an empty forest.
LEMMA PathInit == Init => PathInv
<1> SUFFICES ASSUME Init
             PROVE  PathInv
  OBVIOUS
<1>1. PICK p \in RootPos : /\ stack = <<newFrame(p)>>
                           /\ ctl = entryCtl(p) /\ score = entryScore(p)
  BY DEF Init
<1>2. p \in MaxPos
  BY GameAssumption
<1>3. Len(stack) = 1 /\ stack[1] = newFrame(p) /\ top = newFrame(p)
  BY <1>1 DEF top
<1>4. /\ RootMoved(newFrame(p))
      /\ ctl \in {"return", "done"} => Returned(newFrame(p), 1, cache, score)
  BY <1>1, <1>2, EntryPath
<1>5. ctl # "min"
  BY <1>1 DEF entryCtl
<1>6. ForestOK(cache)
  BY DEF Init, emptyCache, ForestOK
<1> QED
  BY <1>3, <1>4, <1>5, <1>6 DEF PathInv

\* A new root round, on the forest that the earlier searches have left.
LEMMA NewSearchPath ==
  ASSUME PathInv, NEW p \in RootPos, NEW l \in 1 .. Levels, NewSearch(p, l)
  PROVE  PathInv'
<1>1. /\ stack' = <<newFrame(p)>> /\ cache' = cache
      /\ ctl' = entryCtl(p) /\ score' = entryScore(p)
  BY DEF NewSearch
<1>2. p \in MaxPos
  BY GameAssumption
<1>3. Len(stack') = 1 /\ stack'[1] = newFrame(p) /\ top' = newFrame(p)
  BY <1>1 DEF top
<1>4. /\ RootMoved(newFrame(p))
      /\ ctl' \in {"return", "done"} =>
           newFrame(p).left = {} /\ score' # CHECKMATE
  <2>1. RootMoved(newFrame(p))
    BY <1>2, EntryPath
  <2>2. entryScore(p) # CHECKMATE
    BY <1>2, EntryFacts
  <2>3. entryCtl(p) \in {"return", "done"} => newFrame(p).left = {}
    BY DEF entryCtl, newFrame
  <2> QED
    BY <1>1, <2>1, <2>2, <2>3
<1>5. ctl' # "min"
  BY <1>1 DEF entryCtl
<1>6. ForestOK(cache)' /\ RootMoved(stack[1])'
  BY <1>1, <1>3, <1>4 DEF PathInv, ForestOK, RootMoved
<1>7. (ctl \in {"return", "done"} => Returned(top, Len(stack), cache, score))'
  BY <1>3, <1>4 DEF Returned
<1> QED
  BY <1>3, <1>5, <1>6, <1>7 DEF PathInv

\* Every step of the process preserves the invariant.
LEMMA StepKeepsPath ==
  ASSUME SigFaithful, SearchInv, SearchInv', PathInv, [Next]_vars
  PROVE  PathInv'
<1>1. CASE SearchStep
  <2>1. levels' = levels
    BY <1>1 DEF SearchStep
  <2>2. ASSUME NEW q \in top.left, SkipCircular(q) \/ MaxStep(q)
        PROVE  PathInv'
    BY <2>1, <2>2, SkipCircularPath, MaxStepPath
  <2>3. CASE MaxExhausted
    BY <2>1, <2>3, MaxExhaustedPath
  <2>4. ASSUME NEW p \in top.replies,
               \/ MinReplyLast(p) \/ MinReplyEscapes(p)
               \/ MinReplyMated(p) \/ MinReplyExpand(p)
        PROVE  PathInv'
    <3>1. CASE MinReplyLast(p)
      BY <2>1, <3>1, ReplyEscapesPath DEF MinReplyLast
    <3>2. CASE MinReplyEscapes(p)
      BY <2>1, <3>2, ReplyEscapesPath DEF MinReplyEscapes
    <3>3. CASE MinReplyMated(p)
      BY <2>1, <3>3, MinReplyMatedPath
    <3>4. CASE MinReplyExpand(p)
      BY <2>1, <3>4, MinReplyExpandPath
    <3> QED
      BY <2>4, <3>1, <3>2, <3>3, <3>4
  <2>5. CASE MinExhausted
    BY <2>1, <2>5, MinExhaustedPath
  <2>6. CASE ChildEscapes
    BY <2>1, <2>6, ChildEscapesPath
  <2>7. CASE ChildMated
    BY <2>1, <2>7, ChildMatedPath
  <2>8. CASE RootReturn
    <3>1. /\ ctl = "return" /\ ctl' = "done"
          /\ UNCHANGED <<levels, stack, cache, score>>
      BY <2>1, <2>8 DEF RootReturn
    <3> QED
      BY <3>1 DEF PathInv, ForestOK, TreesOK, Returned, RootMoved, top, levelsLeft
  <2> QED
    BY <1>1, <2>2, <2>3, <2>4, <2>5, <2>6, <2>7, <2>8 DEF SearchStep
<1>2. CASE PrintPath
  <2>1. /\ ctl' \in {"printed", "crash"} /\ UNCHANGED <<levels, stack, cache, score>>
    BY <1>2 DEF PrintPath
  <2> QED
    BY <2>1 DEF PathInv, ForestOK, TreesOK, RootMoved, top, levelsLeft
<1>3. ASSUME NEW p \in RootPos, NEW l \in 1 .. Levels, NewSearch(p, l)
      PROVE  PathInv'
  BY <1>3, NewSearchPath
<1>4. CASE UNCHANGED vars
  BY <1>4 DEF vars, PathInv, ForestOK, TreesOK, Returned, RootMoved, top, levelsLeft
<1> QED
  BY <1>1, <1>2, <1>3, <1>4 DEF Next

\* The invariant holds in every state of the search.
THEOREM PathInvariant ==
  ASSUME SigFaithful
  PROVE  Spec => [](SearchInv /\ PathInv /\ RootDone)
<1> DEFINE Inv == SearchInv /\ PathInv /\ RootDone
<1>1. Init => Inv
  BY SearchInit, PathInit, RootDoneInit
<1>2. Inv /\ [Next]_vars => Inv'
  <2> SUFFICES ASSUME Inv, [Next]_vars
               PROVE  Inv'
    OBVIOUS
  <2>1. SearchInv'
    BY StepKeeps
  <2>2. PathInv'
    BY <2>1, StepKeepsPath
  <2>3. RootDone'
    BY RootDoneKeeps
  <2> QED
    BY <2>1, <2>2, <2>3
<1> HIDE DEF Inv
<1>3. Spec => []Inv
  BY <1>1, <1>2, PTL DEF Spec
<1> QED
  BY <1>3, PTL DEF Inv

\* storeSolution and handleMinStepBoard keep the solution trees beside the
\* replies that they answer, in every game: each tree of a round that returns
\* a mate holds a move that is legal after its reply.
THEOREM TreesMatch ==
  ASSUME SigFaithful
  PROVE  Spec => []TreesAnswerReplies
<1>1. PathInv => TreesAnswerReplies
  BY DEF PathInv, Returned, TreesOK, TreesAnswerReplies
<1> QED
  BY <1>1, PathInvariant, PTL

\* printPath has a move to print on every board that has one, and the move of
\* a mate wins within the given levels, in every game.
THEOREM RootHasMove ==
  ASSUME SigFaithful
  PROVE  Spec => []PathHasMove
<1>1. SearchInv /\ PathInv /\ RootDone => PathHasMove
  <2> SUFFICES ASSUME SearchInv, PathInv, RootDone, ctl = "done",
                      MaxMoves(stack[1].cur) # {}
               PROVE  /\ stack[1].step \in MaxMoves(stack[1].cur)
                      /\ score = CHECKMATE => MateMin(stack[1].step) <= levels
    BY DEF PathHasMove
  <2>1. Len(stack) = 1 /\ top = stack[1]
    BY DEF RootDone, Finished, top
  <2>2. levelsLeft(1) = levels
    BY TopFacts, GameAssumption DEF levelsLeft
  <2>3. Returned(stack[1], 1, cache, score) /\ RootMoved(stack[1])
    BY <2>1 DEF PathInv
  <2> QED
    BY <2>2, <2>3 DEF Returned, RootMoved
<1> QED
  BY <1>1, PathInvariant, PTL
=============================================================================
