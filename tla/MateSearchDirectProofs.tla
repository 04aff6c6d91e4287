------------------------ MODULE MateSearchDirectProofs ------------------------
(***************************************************************************)
(* Which mates the depth-first search finds: for every game, every number  *)
(* of levels, every order of the moves and whatever isCircularMove         *)
(* discards, a direct mate within the given levels is found, by one search *)
(* after the other on the cache that the earlier ones have filled.         *)
(***************************************************************************)
EXTENDS MateSearchDirect, MateSearchSteps

\* What the tables deny is not there.
EscapesOK(c) ==
  /\ \A q \in MinPos :
       bounds(c.maxSignatures, Sig(q)).first > 0 =>
         DirectMin(q) > bounds(c.maxSignatures, Sig(q)).first
  /\ \A p \in MaxPos :
       bounds(c.minSignatures, Sig(p)).first > 0 =>
         DirectMax(p) >= bounds(c.minSignatures, Sig(p)).first

\* A move that round i need not make: it does not lead to a direct mate, or
\* is one that some round on these squares passes over.
Spent(f, i, q) ==
  \/ DirectMin(q) > levelsLeft(i)
  \/ i > 1 /\ mayBeCircular(f.cur, q)

\* The moves that round i has dealt with are spent; the one whose replies are
\* being searched still may mate.
Refuted(f, i) == \A q \in MaxMoves(f.cur) \ f.left : Spent(f, i, q)

Tried(f, i) == \A q \in MaxMoves(f.cur) \ f.left : q = f.step \/ Spent(f, i, q)

\* What the return of round i on board p without a mate says.
NoneLeft(p, i) ==
  IF i > 1 THEN DirectMax(p) > levelsLeft(i) ELSE ~MustFind(p, levelsLeft(i))

DirectInv ==
  /\ EscapesOK(cache)
  /\ \A i \in 1 .. Len(stack) : Tried(stack[i], i)
  /\ ctl = "max" => Refuted(top, Len(stack))
  /\ ctl \in {"return", "done"} /\ score # CHECKMATE => NoneLeft(top.cur, Len(stack))

----------------------------------------------------------------------------
\* A step of the search leads to a state that satisfies the invariant.
LEMMA NextDirect ==
  ASSUME SearchInv, DirectInv, levels' = levels, NEW n, OnlyLast(n),
         EscapesOK(cache'), Tried(stack'[n], n),
         ctl' = "max" => Refuted(stack'[n], n),
         ctl' \in {"return", "done"} /\ score' # CHECKMATE =>
           NoneLeft(stack'[n].cur, n)
  PROVE  DirectInv'
<1>1. \A i : levelsLeft(i)' = levelsLeft(i)
  BY DEF levelsLeft
<1>2. /\ n \in Nat /\ n > 0 /\ n - 1 <= Len(stack) /\ Len(stack') = n
      /\ Len(stack) \in Nat
  BY TopFacts DEF OnlyLast
<1>3. top' = stack'[n]
  BY <1>2 DEF top
<1>4. ASSUME NEW i \in 1 .. n
      PROVE  Tried(stack'[i], i)
  <2>1. CASE i = n
    BY <2>1
  <2>2. CASE i # n
    <3>1. i \in 1 .. n - 1 /\ i \in 1 .. Len(stack)
      BY <1>2, <2>2
    <3> QED
      BY <3>1 DEF OnlyLast, DirectInv
  <2> QED
    BY <2>1, <2>2
<1>5. (\A i \in 1 .. Len(stack) : Tried(stack[i], i))'
  BY <1>1, <1>2, <1>4 DEF Tried, Spent, levelsLeft
<1>6. (ctl = "max" => Refuted(top, Len(stack)))'
  BY <1>1, <1>2, <1>3 DEF Refuted, Spent, levelsLeft
<1>7. (ctl \in {"return", "done"} /\ score # CHECKMATE =>
         NoneLeft(top.cur, Len(stack)))'
  BY <1>1, <1>2, <1>3 DEF NoneLeft, levelsLeft
<1>8. EscapesOK(cache)'
  BY DEF EscapesOK
<1> QED
  BY <1>5, <1>6, <1>7, <1>8 DEF DirectInv

\* A round that has tried its moves, and what ends the step of the move that
\* it is at.
LEMMA TriedFacts ==
  ASSUME NEW f, NEW i
  PROVE  /\ Refuted(f, i) => Tried(f, i)
         /\ Tried(f, i) /\ DirectMin(f.step) > levelsLeft(i) => Refuted(f, i)
BY DEF Tried, Refuted, Spent

LEMMA SameRoundTried ==
  ASSUME NEW f, NEW g, NEW i, SameRound(f, g)
  PROVE  (Tried(f, i) => Tried(g, i)) /\ (Refuted(f, i) => Refuted(g, i))
BY DEF SameRound, Tried, Refuted, Spent

\* Denying a mate that is not there.
LEMMA DenyMax ==
  ASSUME DirectFaithful, NEW c, NEW d, EscapesOK(c), NEW q \in MinPos, NEW h \in Int,
         DirectMin(q) > h, d.minSignatures = c.minSignatures,
         FirstOnly(c.maxSignatures, d.maxSignatures, Sig(q), h)
  PROVE  EscapesOK(d)
<1>1. ASSUME NEW x \in MinPos, bounds(d.maxSignatures, Sig(x)).first > 0
      PROVE  DirectMin(x) > bounds(d.maxSignatures, Sig(x)).first
  <2>1. Sig(x) \in Sigs
    BY SearchAssumption
  <2>2. CASE bounds(d.maxSignatures, Sig(x)).first
               = bounds(c.maxSignatures, Sig(x)).first
    BY <1>1, <2>2 DEF EscapesOK
  <2>3. CASE Sig(x) = Sig(q) /\ bounds(d.maxSignatures, Sig(x)).first = h
    BY <2>3 DEF DirectFaithful
  <2> QED
    BY <2>1, <2>2, <2>3 DEF FirstOnly
<1> QED
  BY <1>1 DEF EscapesOK

LEMMA DenyMin ==
  ASSUME DirectFaithful, NEW c, NEW d, EscapesOK(c), NEW p \in MaxPos, NEW h \in Int,
         DirectMax(p) >= h, d.maxSignatures = c.maxSignatures,
         FirstOnly(c.minSignatures, d.minSignatures, Sig(p), h)
  PROVE  EscapesOK(d)
<1>1. ASSUME NEW x \in MaxPos, bounds(d.minSignatures, Sig(x)).first > 0
      PROVE  DirectMax(x) >= bounds(d.minSignatures, Sig(x)).first
  <2>1. Sig(x) \in Sigs
    BY SearchAssumption
  <2>2. CASE bounds(d.minSignatures, Sig(x)).first
               = bounds(c.minSignatures, Sig(x)).first
    BY <1>1, <2>2 DEF EscapesOK
  <2>3. CASE Sig(x) = Sig(p) /\ bounds(d.minSignatures, Sig(x)).first = h
    BY <2>3 DEF DirectFaithful
  <2> QED
    BY <2>1, <2>2, <2>3 DEF FirstOnly
<1> QED
  BY <1>1 DEF EscapesOK

LEMMA DenyNothing ==
  ASSUME NEW c, NEW d, EscapesOK(c),
         SameFirst(c.maxSignatures, d.maxSignatures),
         SameFirst(c.minSignatures, d.minSignatures)
  PROVE  EscapesOK(d)
BY SearchAssumption DEF EscapesOK, SameFirst

----------------------------------------------------------------------------
\* expandMaxStep passes over a circular move: this round has a parent, whose
\* step is one that the move takes back.
LEMMA SkipCircularDirect ==
  ASSUME SearchInv, DirectInv, NEW q \in top.left, SkipCircular(q), levels' = levels
  PROVE  DirectInv'
<1> DEFINE n    == Len(stack)
           prev == stack[n - 1].step
           g    == stack'[n]
<1>1. /\ OnlyLast(n) /\ n > 1 /\ g.cur = top.cur
      /\ g.left = top.left \ {q} /\ g.step = top.step
      /\ UNCHANGED <<cache, ctl, score>> /\ ctl = "max"
      /\ Circular(prev, top.cur, q)
  BY SkipCircularShape
<1>2. n - 1 \in 1 .. n /\ n - 1 < n /\ n - 1 > 0
  BY <1>1, TopFacts
<1>3. prev \in MinPos /\ top.cur \in MaxPos
  BY <1>2, TopFacts, FrameTypes
<1>4. MinStepOK(stack[n - 1], n - 1, cache) /\ top.cur \in stack[n - 1].replies
  BY <1>2, TopFacts, PopKeepsStack DEF CallOK
<1>5. top.cur \in MinMoves(prev)
  BY <1>4 DEF MinStepOK
<1>6. mayBeCircular(top.cur, q)
  BY <1>1, <1>3, <1>5 DEF mayBeCircular
<1>7. Refuted(top, n) /\ EscapesOK(cache)
  BY <1>1 DEF DirectInv
<1> HIDE DEF g
<1>8. Refuted(g, n)
  BY <1>1, <1>6, <1>7 DEF Refuted, Spent
<1> QED
  BY <1>1, <1>7, <1>8, TriedFacts, NextDirect DEF g

\* expandMaxStep makes a move.
LEMMA MaxStepDirect ==
  ASSUME SearchInv, DirectInv, NEW q \in top.left, MaxStep(q), levels' = levels
  PROVE  DirectInv'
<1> DEFINE n == Len(stack)
           g == stack'[n]
<1>1. /\ OnlyLast(n) /\ g.cur = top.cur /\ g.left = top.left \ {q} /\ g.step = q
      /\ cache' = cache /\ ctl = "max" /\ ctl' \in {"max", "min"}
      /\ ctl' = "max" =>
           bounds(cache.maxSignatures, Sig(q)).first >= levelsLeft(n)
  BY MaxStepShape
<1>2. Refuted(top, n) /\ EscapesOK(cache)
  BY <1>1 DEF DirectInv
<1> HIDE DEF g
<1>3. Tried(g, n)
  BY <1>1, <1>2 DEF Refuted, Tried, Spent
<1>4. ASSUME ctl' = "max"
      PROVE  Refuted(g, n)
  <2>1. q \in MinPos /\ Sig(q) \in Sigs
    BY TopFacts, SearchAssumption
  <2>2. bounds(cache.maxSignatures, Sig(q)).first \in Int
    <3>1. bounds(cache.maxSignatures, Sig(q)) \in Bounds
      BY <2>1 DEF SearchInv, CacheType, isTable, bounds, Bounds, INT_MAX
    <3> QED
      BY <3>1 DEF Bounds
  <2>3. DirectMin(q) > levelsLeft(n)
    <3>1. levelsLeft(n) \in 1 .. Levels /\ Levels \in Nat
      BY TopFacts, GameAssumption
    <3>2. bounds(cache.maxSignatures, Sig(q)).first >= levelsLeft(n)
      BY <1>1, <1>4
    <3>3. bounds(cache.maxSignatures, Sig(q)).first > 0
      BY ONLY <2>2, <3>1, <3>2
    <3>4. DirectMin(q) > bounds(cache.maxSignatures, Sig(q)).first
      BY ONLY <1>2, <2>1, <3>3 DEF EscapesOK
    <3>5. DirectMin(q) \in Nat
      BY ONLY <2>1, DirectAssumption
    <3> QED
      BY ONLY <2>2, <3>1, <3>2, <3>4, <3>5
  <2> QED
    BY <1>1, <1>3, <2>3, TriedFacts
<1> QED
  BY <1>1, <1>2, <1>3, <1>4, NextDirect DEF g

\* expandMaxStep has tried every move.
LEMMA MaxExhaustedDirect ==
  ASSUME SearchInv, DirectInv, MaxExhausted, levels' = levels
  PROVE  DirectInv'
<1> DEFINE n == Len(stack)
<1>1. /\ ctl = "max" /\ top.left = {} /\ ctl' = "return"
      /\ stack' = stack /\ cache' = cache
  BY DEF MaxExhausted
<1>2. Refuted(top, n) /\ EscapesOK(cache)
  BY <1>1 DEF DirectInv
<1>3. NoneLeft(top.cur, n)
  <2>1. \A q \in MaxMoves(top.cur) : Spent(top, n, q)
    BY <1>1, <1>2 DEF Refuted
  <2>2. \A q \in MaxMoves(top.cur) : DirectMin(q) \in Nat
    BY TopFacts, GameAssumption, DirectAssumption
  <2>3. CASE n > 1
    <3>1. ~(DirectMax(top.cur) <= levelsLeft(n))
      BY <2>1, <2>2, TopFacts, DirectAssumption DEF Spent
    <3> QED
      BY <2>3, <3>1, TopFacts, DirectAssumption DEF NoneLeft
  <2>4. CASE ~(n > 1)
    BY <2>1, <2>2, <2>4, TopFacts DEF NoneLeft, MustFind, Spent
  <2> QED
    BY <2>3, <2>4
<1>4. OnlyLast(n) /\ stack'[n] = top
  BY <1>1, TopFacts DEF OnlyLast
<1> QED
  BY <1>1, <1>2, <1>3, <1>4, TriedFacts, NextDirect

\* A reply is found to escape without a search.
LEMMA ReplyEscapesDirect ==
  ASSUME DirectFaithful, SearchInv, DirectInv, ctl = "min", NEW p \in top.replies,
         EndMinStep(setTop(stack, replied(top, p, top.trees)), cache, NONE),
         levelsLeft(Len(stack)) > 1 => DirectMax(p) >= levelsLeft(Len(stack)),
         levels' = levels
  PROVE  DirectInv'
<1> DEFINE n == Len(stack)
           g == stack'[n]
<1>1. /\ OnlyLast(n) /\ SameRound(top, g) /\ ctl' = "max"
      /\ cache'.minSignatures = cache.minSignatures
      /\ FirstOnly(cache.maxSignatures, cache'.maxSignatures,
                   Sig(top.step), levelsLeft(n))
  BY ReplyEscapesShape
<1>2. MinStepOK(top, n, cache)
  BY DEF SearchInv
<1>3. top.step \in MinPos /\ p \in MinMoves(top.step) /\ p \in MaxPos
  BY <1>2, TopFacts, GameAssumption DEF MinStepOK
<1>4. DirectMin(top.step) > levelsLeft(n)
  <2>1. levelsLeft(n) \in 1 .. Levels /\ levelsLeft(n) \in Int
    BY TopFacts
  <2>2. ~(levelsLeft(n) > 1 /\ DirectMax(p) <= levelsLeft(n) - 1)
    BY <1>3, <2>1, DirectAssumption
  <2>3. ~(DirectMin(top.step) <= levelsLeft(n))
    BY <1>3, <2>1, <2>2, DirectAssumption
  <2> QED
    BY <1>3, <2>1, <2>3, DirectAssumption
<1>5. EscapesOK(cache')
  BY <1>1, <1>3, <1>4, TopFacts, DenyMax DEF DirectInv
<1>6. Tried(top, n)
  BY TopFacts DEF DirectInv
<1> HIDE DEF g
<1>7. Refuted(g, n) /\ Tried(g, n)
  BY <1>1, <1>4, <1>6, TriedFacts, SameRoundTried
<1> QED
  BY <1>1, <1>5, <1>7, NextDirect DEF g

\* The cache knows that the reply escapes.
LEMMA MinReplyEscapesDirect ==
  ASSUME DirectFaithful, SearchInv, DirectInv, NEW p \in top.replies,
         MinReplyEscapes(p), levels' = levels
  PROVE  DirectInv'
<1>1. p \in MaxPos /\ Sig(p) \in Sigs
  BY TopFacts, SearchAssumption
<1>2. bounds(cache.minSignatures, Sig(p)).first >= levelsLeft(Len(stack))
  BY DEF MinReplyEscapes, getScoreFromCache, NONE, CHECKMATE, MISS
<1>3. bounds(cache.minSignatures, Sig(p)).first \in Int
  <2>1. bounds(cache.minSignatures, Sig(p)) \in Bounds
    BY <1>1 DEF SearchInv, CacheType, isTable, bounds, Bounds, INT_MAX
  <2> QED
    BY <2>1 DEF Bounds
<1>4. DirectMax(p) >= levelsLeft(Len(stack))
  <2>1. levelsLeft(Len(stack)) \in Int /\ DirectMax(p) \in Nat
    BY <1>1, TopFacts, DirectAssumption
  <2>2. bounds(cache.minSignatures, Sig(p)).first > 0 =>
          DirectMax(p) >= bounds(cache.minSignatures, Sig(p)).first
    BY <1>1 DEF DirectInv, EscapesOK
  <2> QED
    BY <1>2, <1>3, <2>1, <2>2
<1> QED
  BY <1>4, ReplyEscapesDirect DEF MinReplyEscapes

\* The cache knows a mate after the reply.
LEMMA MinReplyMatedDirect ==
  ASSUME SearchInv, SearchInv', DirectInv, NEW p \in top.replies,
         MinReplyMated(p), levels' = levels
  PROVE  DirectInv'
<1> DEFINE n == Len(stack)
<1>1. /\ OnlyLast(n) /\ SameRound(top, stack'[n])
      /\ UNCHANGED <<cache, score>> /\ ctl' = "min"
  BY MinReplyMatedShape
<1>2. Tried(top, n) /\ EscapesOK(cache)
  BY TopFacts DEF DirectInv
<1>3. Tried(stack'[n], n)
  BY <1>1, <1>2, SameRoundTried
<1> QED
  BY <1>1, <1>2, <1>3, NextDirect

\* A round that is entered has refuted nothing yet; one without a move does
\* not mate.
LEMMA EntryDirect ==
  ASSUME NEW p \in MaxPos, NEW i, levelsLeft(i) \in 1 .. Levels
  PROVE  /\ Refuted(newFrame(p), i)
         /\ entryCtl(p) # "max" => NoneLeft(p, i)
<1>1. Refuted(newFrame(p), i)
  BY DEF Refuted, newFrame
<1>2. ASSUME entryCtl(p) # "max"
      PROVE  NoneLeft(p, i)
  <2>1. MaxMoves(p) = {}
    BY <1>2 DEF entryCtl
  <2>2. ~(DirectMax(p) <= levelsLeft(i))
    BY <2>1, DirectAssumption
  <2> QED
    BY <2>1, <2>2, DirectAssumption, GameAssumption DEF NoneLeft, MustFind
<1> QED
  BY <1>1, <1>2

\* A reply is searched by a round of its own.
LEMMA MinReplyExpandDirect ==
  ASSUME SearchInv, DirectInv, NEW p \in top.replies, MinReplyExpand(p),
         levels' = levels
  PROVE  DirectInv'
<1> DEFINE n == Len(stack) + 1
<1>1. /\ OnlyLast(n) /\ stack'[n] = newFrame(p) /\ p \in MaxPos
      /\ n \in 1 .. levels /\ cache' = cache
      /\ ctl' = entryCtl(p) /\ score' = entryScore(p)
  BY MinReplyExpandShape
<1>2. levelsLeft(n) \in 1 .. Levels
  BY <1>1, TopFacts, LevelFacts
<1>3. newFrame(p).cur = p
  BY <1>1, EntryFacts
<1> HIDE DEF n
<1>4. Refuted(newFrame(p), n) /\ (entryCtl(p) # "max" => NoneLeft(p, n))
  BY <1>1, <1>2, EntryDirect
<1>5. EscapesOK(cache)
  BY DEF DirectInv
<1> QED
  BY <1>1, <1>3, <1>4, <1>5, TriedFacts, NextDirect

\* All replies have been handled.
LEMMA MinExhaustedDirect ==
  ASSUME DirectFaithful, SearchInv, DirectInv, MinExhausted, levels' = levels
  PROVE  DirectInv'
<1> DEFINE n == Len(stack)
<1>1. /\ OnlyLast(n) /\ stack'[n] = top /\ ctl = "min"
      /\ ctl' = IF score' = CHECKMATE THEN "return" ELSE "max"
      /\ cache'.minSignatures = cache.minSignatures
      /\ FirstOnly(cache.maxSignatures, cache'.maxSignatures,
                   Sig(top.step), levelsLeft(n))
      /\ score' = CHECKMATE => SameFirst(cache.maxSignatures, cache'.maxSignatures)
  BY MinExhaustedShape
<1>2. score' # CHECKMATE => MinMoves(top.step) = {} /\ ~MinChecked(top.step)
  BY MinExhaustedShape
<1>3. MinStepOK(top, n, cache) /\ EscapesOK(cache) /\ Tried(top, n)
  BY <1>1, TopFacts DEF SearchInv, DirectInv
<1>4. top.step \in MinPos
  BY <1>3, TopFacts, GameAssumption DEF MinStepOK
<1>5. CASE score' = CHECKMATE
  <2>1. EscapesOK(cache')
    BY <1>1, <1>3, <1>5, DenyNothing DEF SameFirst
  <2> QED
    BY <1>1, <1>3, <1>5, <2>1, NextDirect
<1>6. CASE score' # CHECKMATE
  <2>1. ~(DirectMin(top.step) <= levelsLeft(n))
    BY <1>2, <1>4, <1>6, TopFacts, DirectAssumption
  <2>2. DirectMin(top.step) > levelsLeft(n)
    BY <1>4, <2>1, TopFacts, DirectAssumption
  <2>3. EscapesOK(cache')
    BY <1>1, <1>3, <1>4, <2>2, TopFacts, DenyMax
  <2>4. Refuted(top, n)
    BY <1>3, <2>2, TriedFacts
  <2> QED
    BY <1>1, <1>3, <1>6, <2>3, <2>4, NextDirect
<1> QED
  BY <1>5, <1>6

\* handleMinStepBoard, after a search of the reply that found no mate.
LEMMA ChildEscapesDirect ==
  ASSUME DirectFaithful, SearchInv, DirectInv, ChildEscapes, levels' = levels
  PROVE  DirectInv'
<1> DEFINE n == Len(stack) - 1
           g == stack[n]
           p == top.cur
           d == [cache EXCEPT !.minSignatures = cache'.minSignatures]
<1>1. n \in 1 .. Len(stack) - 1 /\ OnlyLast(n) /\ SameRound(g, stack'[n])
  BY ChildEscapesShape
<1>2. ctl = "return" /\ score # CHECKMATE /\ ctl' = "max"
  BY ChildEscapesShape
<1>3. FirstOnly(cache.maxSignatures, cache'.maxSignatures,
                Sig(g.step), levelsLeft(n))
  BY ChildEscapesShape
<1>4. FirstOnly(cache.minSignatures, cache'.minSignatures, Sig(p), levelsLeft(n))
  BY ChildEscapesShape
<1>5. /\ MinStepOK(g, n, cache) /\ CallOK(g, top, n, cache)
      /\ levelsLeft(n) > 1 /\ levelsLeft(Len(stack)) = levelsLeft(n) - 1
      /\ n \in 1 .. levels /\ n \in 1 .. Len(stack)
  <2>1. StackOK(stack, cache) /\ Len(stack) - 1 > 0
    BY <1>1, TopFacts
  <2> QED
    BY <2>1, TopFacts, PopKeepsStack
<1>6. levelsLeft(n) \in 1 .. Levels /\ levelsLeft(n) \in Int /\ p \in MaxPos
  BY <1>5, TopFacts, LevelFacts
<1>7. DirectMax(p) > levelsLeft(n) - 1 /\ EscapesOK(cache) /\ Tried(g, n)
  BY <1>1, <1>2, <1>5, TopFacts DEF DirectInv, NoneLeft
<1>8. g.step \in MinPos /\ p \in MinMoves(g.step)
  <2>1. g.cur \in MaxPos
    BY <1>5, TopFacts, FrameTypes
  <2> QED
    BY <1>5, <2>1, GameAssumption DEF MinStepOK, CallOK
<1> HIDE DEF n, g, p
<1>9. DirectMin(g.step) > levelsLeft(n) /\ DirectMax(p) >= levelsLeft(n)
  <2>1. ~(DirectMax(p) <= levelsLeft(n) - 1) /\ DirectMax(p) >= levelsLeft(n)
    BY <1>6, <1>7, DirectAssumption
  <2>2. ~(DirectMin(g.step) <= levelsLeft(n))
    BY <1>6, <1>8, <2>1, DirectAssumption
  <2> QED
    BY <1>6, <1>8, <2>1, <2>2, DirectAssumption
<1>10. d.maxSignatures = cache.maxSignatures
       /\ d.minSignatures = cache'.minSignatures
  BY DEF SearchInv, CacheType
<1> HIDE DEF d
<1>11. EscapesOK(d)
  BY <1>4, <1>6, <1>7, <1>9, <1>10, DenyMin
<1>12. EscapesOK(cache')
  BY <1>3, <1>6, <1>8, <1>9, <1>10, <1>11, DenyMax
<1>13. Refuted(stack'[n], n)
  BY <1>1, <1>7, <1>9, TriedFacts, SameRoundTried
<1> QED
  BY <1>1, <1>2, <1>12, <1>13, TriedFacts, NextDirect

\* handleMinStepBoard, after a search of the reply that found a mate.
LEMMA ChildMatedDirect ==
  ASSUME SearchInv, DirectInv, ChildMated, levels' = levels
  PROVE  DirectInv'
<1> DEFINE n == Len(stack) - 1
<1>1. n \in 1 .. Len(stack) - 1 /\ OnlyLast(n) /\ SameRound(stack[n], stack'[n])
  BY ChildMatedShape
<1>2. /\ SameFirst(cache.maxSignatures, cache'.maxSignatures)
      /\ SameFirst(cache.minSignatures, cache'.minSignatures)
  BY ChildMatedShape
<1>3. ctl' = "min"
  BY ChildMatedShape
<1>4. n \in 1 .. Len(stack)
  BY <1>1, TopFacts
<1>5. EscapesOK(cache')
  BY <1>2, DenyNothing DEF DirectInv
<1>6. Tried(stack'[n], n)
  BY <1>1, <1>4, SameRoundTried DEF DirectInv
<1> QED
  BY <1>1, <1>3, <1>5, <1>6, NextDirect

----------------------------------------------------------------------------
\* The first round, on an empty cache, which denies nothing.
LEMMA DirectInit == Init => DirectInv
<1> SUFFICES ASSUME Init
             PROVE  DirectInv
  OBVIOUS
<1>1. PICK p \in RootPos : /\ stack = <<newFrame(p)>>
                           /\ ctl = entryCtl(p) /\ score = entryScore(p)
  BY DEF Init
<1>2. p \in MaxPos /\ levels \in 1 .. Levels
  BY GameAssumption DEF Init
<1>3. Len(stack) = 1 /\ stack[1] = newFrame(p) /\ newFrame(p).cur = p
  BY <1>1, <1>2, EntryFacts
<1>4. levelsLeft(1) \in 1 .. Levels
  BY <1>2, GameAssumption DEF levelsLeft
<1>5. /\ Refuted(newFrame(p), 1) /\ Tried(newFrame(p), 1)
      /\ entryCtl(p) # "max" => NoneLeft(p, 1)
  BY <1>2, <1>4, EntryDirect, TriedFacts
<1>6. EscapesOK(cache)
  <2>1. \A sig \in Sigs : /\ bounds(cache.maxSignatures, sig).first = -INT_MAX
                          /\ bounds(cache.minSignatures, sig).first = -INT_MAX
    BY DEF Init, emptyCache, bounds
  <2>2. ~(-INT_MAX > 0)
    BY DEF INT_MAX
  <2> QED
    BY <2>1, <2>2, SearchAssumption DEF EscapesOK
<1> QED
  BY <1>1, <1>3, <1>5, <1>6 DEF DirectInv, top

\* A new root round, on the cache that the earlier searches have left.
LEMMA NewSearchDirect ==
  ASSUME DirectInv, NEW p \in RootPos, NEW l \in 1 .. Levels, NewSearch(p, l)
  PROVE  DirectInv'
<1>1. /\ levels' = l /\ stack' = <<newFrame(p)>> /\ cache' = cache
      /\ ctl' = entryCtl(p) /\ score' = entryScore(p)
  BY DEF NewSearch
<1>2. p \in MaxPos
  BY GameAssumption
<1>3. Len(stack') = 1 /\ stack'[1] = newFrame(p) /\ newFrame(p).cur = p
  BY <1>1, <1>2, EntryFacts
<1>4. levels' \in 1 .. Levels /\ l \in Int /\ levelsLeft(1)' = l
  BY <1>1, GameAssumption DEF levelsLeft
<1>5. (Refuted(newFrame(p), 1) /\ Tried(newFrame(p), 1))'
  BY <1>2 DEF Refuted, Tried, newFrame
<1>6. entryCtl(p) # "max" => ~MustFind(p, l)
  BY DEF entryCtl, MustFind
<1>7. EscapesOK(cache')
  BY <1>1 DEF DirectInv
<1>8. (\A i \in 1 .. Len(stack) : Tried(stack[i], i))'
  BY <1>3, <1>5 DEF Tried, Spent, levelsLeft
<1>9. (ctl = "max" => Refuted(top, Len(stack)))'
  BY <1>3, <1>5 DEF Refuted, Spent, levelsLeft, top
<1>10. (ctl \in {"return", "done"} /\ score # CHECKMATE =>
         NoneLeft(top.cur, Len(stack)))'
  BY <1>1, <1>3, <1>4, <1>6 DEF NoneLeft, top, levelsLeft
<1> QED
  BY <1>7, <1>8, <1>9, <1>10 DEF DirectInv, EscapesOK

\* Every step of the process preserves the invariant.
LEMMA StepKeepsDirect ==
  ASSUME SigFaithful, DirectFaithful, SearchInv, SearchInv', DirectInv, [Next]_vars
  PROVE  DirectInv'
<1>1. CASE SearchStep
  <2>1. levels' = levels
    BY <1>1 DEF SearchStep
  <2>2. ASSUME NEW q \in top.left, SkipCircular(q) \/ MaxStep(q)
        PROVE  DirectInv'
    BY <2>1, <2>2, SkipCircularDirect, MaxStepDirect
  <2>3. CASE MaxExhausted
    BY <2>1, <2>3, MaxExhaustedDirect
  <2>4. ASSUME NEW p \in top.replies,
               \/ MinReplyLast(p) \/ MinReplyEscapes(p)
               \/ MinReplyMated(p) \/ MinReplyExpand(p)
        PROVE  DirectInv'
    <3>1. CASE MinReplyLast(p)
      BY <2>1, <3>1, TopFacts, ReplyEscapesDirect DEF MinReplyLast
    <3>2. CASE MinReplyEscapes(p)
      BY <2>1, <3>2, MinReplyEscapesDirect
    <3>3. CASE MinReplyMated(p)
      BY <2>1, <3>3, MinReplyMatedDirect
    <3>4. CASE MinReplyExpand(p)
      BY <2>1, <3>4, MinReplyExpandDirect
    <3> QED
      BY <2>4, <3>1, <3>2, <3>3, <3>4
  <2>5. CASE MinExhausted
    BY <2>1, <2>5, MinExhaustedDirect
  <2>6. CASE ChildEscapes
    BY <2>1, <2>6, ChildEscapesDirect
  <2>7. CASE ChildMated
    BY <2>1, <2>7, ChildMatedDirect
  <2>8. CASE RootReturn
    BY <2>1, <2>8 DEF RootReturn, DirectInv, EscapesOK, Tried, Refuted, Spent,
       NoneLeft, top, levelsLeft
  <2> QED
    BY <1>1, <2>2, <2>3, <2>4, <2>5, <2>6, <2>7, <2>8 DEF SearchStep
<1>2. CASE PrintPath
  BY <1>2 DEF PrintPath, DirectInv, EscapesOK, Tried, Refuted, Spent, NoneLeft,
     top, levelsLeft
<1>3. ASSUME NEW p \in RootPos, NEW l \in 1 .. Levels, NewSearch(p, l)
      PROVE  DirectInv'
  BY <1>3, NewSearchDirect
<1>4. CASE UNCHANGED vars
  BY <1>4 DEF vars, DirectInv, EscapesOK, Tried, Refuted, Spent, NoneLeft, top,
     levelsLeft
<1> QED
  BY <1>1, <1>2, <1>3, <1>4 DEF Next

\* The invariant holds in every state of the search.
THEOREM DirectInvariant ==
  ASSUME SigFaithful, DirectFaithful
  PROVE  Spec => [](SearchInv /\ DirectInv /\ RootDone)
<1> DEFINE Inv == SearchInv /\ DirectInv /\ RootDone
<1>1. Init => Inv
  BY SearchInit, DirectInit, RootDoneInit
<1>2. Inv /\ [Next]_vars => Inv'
  <2> SUFFICES ASSUME Inv, [Next]_vars
               PROVE  Inv'
    OBVIOUS
  <2>1. SearchInv'
    BY StepKeeps
  <2>2. DirectInv'
    BY <2>1, StepKeepsDirect
  <2>3. RootDone'
    BY RootDoneKeeps
  <2> QED
    BY <2>1, <2>2, <2>3
<1> HIDE DEF Inv
<1>3. Spec => []Inv
  BY <1>1, <1>2, PTL DEF Spec
<1> QED
  BY <1>3, PTL DEF Inv

\* The answer of a finished search.
LEMMA FinalAnswer ==
  ASSUME SearchInv, DirectInv, ctl = "return" \/ ctl = "done", Len(stack) = 1,
         score # CHECKMATE
  PROVE  ~MustFind(stack[1].cur, levels)
<1>1. NoneLeft(top.cur, Len(stack))
  BY DEF DirectInv
<1>2. levelsLeft(Len(stack)) = levels
  BY TopFacts, GameAssumption DEF levelsLeft
<1> QED
  BY <1>1, <1>2 DEF top, NoneLeft

\* expand finds every direct mate within the levels it was given, in every
\* game, whatever isCircularMove discards.
THEOREM MateFound ==
  ASSUME SigFaithful, DirectFaithful
  PROVE  Spec => []DirectMateFound
<1>1. SearchInv /\ DirectInv /\ RootDone => DirectMateFound
  BY FinalAnswer DEF DirectMateFound, RootDone, Finished
<1> QED
  BY <1>1, DirectInvariant, PTL

\* What updateCache records as "no mate up to this height", in a round that
\* may have passed over circular moves, excludes a direct mate of every board
\* with that signature.
THEOREM EscapesSound ==
  ASSUME SigFaithful, DirectFaithful
  PROVE  Spec => []EscapeBoundsSound
<1>1. DirectInv => EscapeBoundsSound
  BY DEF DirectInv, EscapesOK, EscapeBoundsSound
<1> QED
  BY <1>1, DirectInvariant, PTL

----------------------------------------------------------------------------
\* Every step of the search is a step of the solver, or one that the solver
\* does not see: the root's return answers without missing a direct mate.
LEMMA StepImplementsDirect ==
  ASSUME SearchInv, SearchInv', DirectInv, [Next]_vars
  PROVE  [Solver!DirectAnswer \/ Solver!Ask]_(Solver!vars)
<1>1. [Solver!Answer \/ Solver!Ask]_(Solver!vars)
  <2>1. [Contract!Answer \/ Contract!Ask]_(Contract!vars)
    BY StepImplementsSound
  <2> QED
    BY <2>1 DEF Contract!Answer, Contract!Ask, Contract!vars, Contract!Sound,
       Solver!Answer, Solver!Ask, Solver!vars, Solver!Sound
<1>2. CASE Solver!Answer
  <2>1. ctl \notin Finished /\ ctl' \in Finished
    BY <1>2 DEF Solver!Answer
  <2>2. SearchStep
    BY <2>1 DEF Next, PrintPath, NewSearch, Finished, vars
  <2>3. RootReturn
    BY <2>1, <2>2, OnlyReturnFinishes
  <2>4. Solver!Complete
    <3> SUFFICES ASSUME score' # CHECKMATE
                 PROVE  ~MustFind(stack[1].cur, levels)
      BY <2>1 DEF Solver!Complete
    <3> QED
      BY <2>3, FinalAnswer DEF RootReturn
  <2> QED
    BY <1>2, <2>4 DEF Solver!DirectAnswer
<1> QED
  BY <1>1, <1>2

\* In every game, one search after the other on the same cache and with the
\* circular moves discarded, the search implements a solver that answers, if
\* at all, without a false mate and without missing a direct one.
THEOREM SearchImplementsDirect ==
  ASSUME SigFaithful, DirectFaithful
  PROVE  Spec => Solver!DirectSafety
<1>1. Init => Solver!Init
  <2> SUFFICES ASSUME Init PROVE Solver!Init
    OBVIOUS
  <2>1. ctl \notin Finished
    BY DEF Init, Finished, entryCtl
  <2>2. stack[1].cur \in RootPos /\ levels \in 1 .. Levels
    BY DEF Init, newFrame
  <2> QED
    BY <2>1, <2>2 DEF Solver!Init
<1> DEFINE Inv == SearchInv /\ DirectInv /\ RootDone
<1>2. Inv /\ Inv' /\ [Next]_vars =>
        [Solver!DirectAnswer \/ Solver!Ask]_(Solver!vars)
  BY StepImplementsDirect
<1>3. Spec => []Inv
  BY DirectInvariant
<1> HIDE DEF Inv
<1> QED
  BY <1>1, <1>2, <1>3, PTL DEF Spec, Solver!DirectSafety
=============================================================================
