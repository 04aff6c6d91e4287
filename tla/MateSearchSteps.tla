--------------------------- MODULE MateSearchSteps ---------------------------
(***************************************************************************)
(* What each step of the depth-first search does to the stack and to the   *)
(* cache, stated once for the proofs of completeness and of the printed    *)
(* path.  Every step leaves all frames but the last one alone.             *)
(***************************************************************************)
EXTENDS MateSearchProofs

\* The step leaves n frames, of which only the last may be new.
OnlyLast(n) ==
  /\ n \in 1 .. Len(stack) + 1 /\ Len(stack') = n
  /\ \A i \in 1 .. n - 1 : stack'[i] = stack[i]

\* Frame g of the same round as f, with the same moves tried.
SameRound(f, g) == g.cur = f.cur /\ g.left = f.left /\ g.step = f.step

\* No entry of table u denies a mate that t does not deny; at most the entry
\* of sig denies it up to h.
SameFirst(t, u) == \A s \in Sigs : bounds(u, s).first = bounds(t, s).first

FirstOnly(t, u, sig, h) ==
  \A s \in Sigs : \/ bounds(u, s).first = bounds(t, s).first
                  \/ s = sig /\ bounds(u, s).first = h

\* Two caches have the same solutions.
SameForest(c, d) == d.solutionMap = c.solutionMap /\ d.forest = c.forest

----------------------------------------------------------------------------
\* An update of one of the tables, as FirstOnly describes it.
LEMMA UpdateFirst ==
  ASSUME NEW t, isTable(t), NEW sig \in Sigs, NEW h \in Int, NEW sc \in Scores,
         sc = CHECKMATE \/ bounds(t, sig).first < h
  PROVE  /\ FirstOnly(t, updateCache(t, sig, h, sc), sig, h)
         /\ sc = CHECKMATE => SameFirst(t, updateCache(t, sig, h, sc))
<1> DEFINE u == updateCache(t, sig, h, sc)
<1>1. \A s \in Sigs : \/ bounds(u, s).first = bounds(t, s).first
                      \/ s = sig /\ sc # CHECKMATE /\ bounds(u, s).first = h
  BY UpdateFacts
<1> HIDE DEF u
<1> QED
  BY <1>1 DEF FirstOnly, SameFirst, u

\* A stack whose last frame is replaced.
LEMMA SetTopOnlyLast ==
  ASSUME NEW s \in Seq(Frames), NEW f \in Frames, Len(s) \in 1 .. Len(stack) + 1,
         \A i \in 1 .. Len(s) - 1 : s[i] = stack[i],
         stack' = setTop(s, f)
  PROVE  OnlyLast(Len(s)) /\ stack'[Len(s)] = f
<1>1. Len(s) \in Nat /\ Len(s) > 0
  OBVIOUS
<1>2. /\ Len(stack') = Len(s) /\ stack'[Len(s)] = f
      /\ \A i \in 1 .. Len(s) - 1 : stack'[i] = s[i]
  BY <1>1, SetTopFacts
<1> QED
  BY <1>2 DEF OnlyLast

\* The frame of a round that has handled a reply, and its lists.
LEMMA RepliedLists ==
  ASSUME NEW f \in Frames, NEW p \in MaxPos, NEW t \in Seq(Nat)
  PROVE  /\ replied(f, p, t) \in Frames /\ SameRound(f, replied(f, p, t))
         /\ replied(f, p, t).minStepStates = Append(f.minStepStates, p)
         /\ replied(f, p, t).trees = t
<1>1. replied(f, p, t) \in Frames
  BY RepliedFacts
<1>2. SameRound(f, replied(f, p, t))
  BY RepliedFacts DEF SameRound
<1>3. f.minStepStates \in Seq(MaxPos)
  BY DEF Frames
<1> QED
  BY <1>1, <1>2, <1>3 DEF replied, Frames

\* The end of a minimising step, from wherever it is reached.
LEMMA EndMinStepShape ==
  ASSUME NEW s, NEW c, StackOK(s, c), CacheType(c), NEW result \in Scores,
         s[Len(s)].step \in MaxMoves(s[Len(s)].cur),
         s[Len(s)].update =>
           bounds(c.maxSignatures, Sig(s[Len(s)].step)).first < levelsLeft(Len(s)),
         EndMinStep(s, c, result)
  PROVE  /\ stack' = s /\ score' = result
         /\ ctl' = IF result = CHECKMATE THEN "return" ELSE "max"
         /\ cache'.minSignatures = c.minSignatures
         /\ SameForest(c, cache')
         /\ FirstOnly(c.maxSignatures, cache'.maxSignatures,
                      Sig(s[Len(s)].step), levelsLeft(Len(s)))
         /\ result = CHECKMATE => SameFirst(c.maxSignatures, cache'.maxSignatures)
<1> DEFINE f == s[Len(s)]
           h == levelsLeft(Len(s))
           t == updateCache(c.maxSignatures, Sig(f.step), h, result)
<1>1. /\ Len(s) \in 1 .. levels /\ Len(s) \in 1 .. Len(s) /\ h \in Int
  BY LevelFacts, GameAssumption DEF StackOK
<1>2. f.step \in MinPos /\ Sig(f.step) \in Sigs /\ f.update \in BOOLEAN
  <2>1. f \in Frames /\ f.cur \in MaxPos
    BY <1>1, FrameTypes
  <2> QED
    BY <2>1, GameAssumption, SearchAssumption DEF Frames
<1>3. /\ stack' = s /\ score' = result
      /\ ctl' = IF result = CHECKMATE THEN "return" ELSE "max"
  BY DEF EndMinStep
<1>4. CASE ~f.update
  BY <1>3, <1>4 DEF EndMinStep, SameForest, FirstOnly, SameFirst
<1>5. CASE f.update
  <2>1. cache' = [c EXCEPT !.maxSignatures = t]
    BY <1>5 DEF EndMinStep
  <2>2. /\ FirstOnly(c.maxSignatures, t, Sig(f.step), h)
        /\ result = CHECKMATE => SameFirst(c.maxSignatures, t)
    <3>1. isTable(c.maxSignatures)
      BY DEF CacheType
    <3> HIDE DEF h, f
    <3>2. bounds(c.maxSignatures, Sig(f.step)).first < h
      BY <1>5 DEF h, f
    <3> QED
      BY <1>1, <1>2, <3>1, <3>2, UpdateFirst
  <2> HIDE DEF t
  <2>3. /\ cache'.maxSignatures = t /\ cache'.minSignatures = c.minSignatures
        /\ cache'.solutionMap = c.solutionMap /\ cache'.forest = c.forest
    BY <2>1 DEF CacheType
  <2> QED
    BY <1>3, <2>2, <2>3 DEF SameForest
<1> QED
  BY <1>2, <1>4, <1>5

----------------------------------------------------------------------------
\* expandMaxStep passes over a circular move: never in the root round.
LEMMA SkipCircularShape ==
  ASSUME SearchInv, NEW q \in top.left, SkipCircular(q)
  PROVE  /\ OnlyLast(Len(stack)) /\ Len(stack) > 1
         /\ stack'[Len(stack)].cur = top.cur
         /\ stack'[Len(stack)].left = top.left \ {q}
         /\ stack'[Len(stack)].step = top.step
         /\ UNCHANGED <<cache, ctl, score>> /\ ctl = "max"
         /\ Circular(stack[Len(stack) - 1].step, top.cur, q)
<1> DEFINE f == [top EXCEPT !.left = @ \ {q}]
<1>1. /\ f \in Frames /\ f.cur = top.cur
      /\ f.left = top.left \ {q} /\ f.step = top.step
  BY TopFacts DEF Frames
<1> HIDE DEF f
<1>2. stack' = setTop(stack, f) /\ UNCHANGED <<cache, ctl, score>> /\ ctl = "max"
  BY DEF SkipCircular, f
<1>3. /\ Len(stack) > 1
      /\ Circular(stack[Len(stack) - 1].step, top.cur, q)
  BY DEF SkipCircular, circular, parentStep
<1>4. stack \in Seq(Frames) /\ Len(stack) \in 1 .. Len(stack) + 1
  BY TopFacts
<1>5. OnlyLast(Len(stack)) /\ stack'[Len(stack)] = f
  BY <1>1, <1>2, <1>4, SetTopOnlyLast
<1> QED
  BY <1>1, <1>2, <1>3, <1>5

\* expandMaxStep makes a move; it goes on to the next one at once if the cache
\* denies a mate after it.
LEMMA MaxStepShape ==
  ASSUME SearchInv, NEW q \in top.left, MaxStep(q)
  PROVE  /\ OnlyLast(Len(stack)) /\ q \in MaxMoves(top.cur)
         /\ stack'[Len(stack)].cur = top.cur
         /\ stack'[Len(stack)].left = top.left \ {q}
         /\ stack'[Len(stack)].step = q
         /\ stack'[Len(stack)].minStepStates = << >>
         /\ stack'[Len(stack)].trees = << >>
         /\ cache' = cache /\ score' = NONE
         /\ ctl = "max" /\ ctl' \in {"max", "min"}
         /\ ctl' = "max" => bounds(cache.maxSignatures, Sig(q)).first
                              >= levelsLeft(Len(stack))
<1> DEFINE n == Len(stack)
           cached == getScoreFromCache(cache.maxSignatures, Sig(q), levelsLeft(n))
           miss == cached = MISS
           f == [top EXCEPT !.left = @ \ {q}, !.step = q,
                            !.replies = MinMoves(q),
                            !.minStepStates = << >>, !.trees = << >>,
                            !.update = miss]
<1>1. q \in MinPos /\ MinMoves(q) \subseteq MaxPos
  BY TopFacts, GameAssumption
<1>2. cached = NONE => bounds(cache.maxSignatures, Sig(q)).first >= levelsLeft(n)
  BY DEF getScoreFromCache, NONE, CHECKMATE, MISS
<1>3. miss \in BOOLEAN
  OBVIOUS
<1>4. /\ stack' = setTop(stack, f) /\ cache' = cache /\ score' = NONE
      /\ ctl = "max" /\ ctl' = IF cached = NONE THEN "max" ELSE "min"
  BY DEF MaxStep
<1> HIDE DEF miss, cached
<1>5. /\ f \in Frames /\ f.cur = top.cur /\ f.left = top.left \ {q}
      /\ f.step = q /\ f.minStepStates = << >> /\ f.trees = << >>
  <2>1. /\ top \in Frames /\ top.left \ {q} \in SUBSET MinPos
        /\ MinMoves(q) \in SUBSET MaxPos /\ q \in MinPos \cup {NoPos}
        /\ << >> \in Seq(MaxPos) /\ << >> \in Seq(Nat)
    BY <1>1, TopFacts
  <2>2. f \in Frames
    BY <1>3, <2>1 DEF Frames
  <2>3. f.cur = top.cur /\ f.left = top.left \ {q} /\ f.step = q
    BY <2>1 DEF Frames
  <2>4. f.minStepStates = << >> /\ f.trees = << >>
    BY <2>1 DEF Frames
  <2> QED
    BY <2>2, <2>3, <2>4
<1> HIDE DEF f
<1>6. q \in MaxMoves(top.cur)
  BY TopFacts DEF StackOK, RoundOK
<1>7. stack \in Seq(Frames) /\ Len(stack) \in 1 .. Len(stack) + 1
  BY TopFacts
<1>8. OnlyLast(n) /\ stack'[n] = f
  BY <1>4, <1>5, <1>7, SetTopOnlyLast
<1> QED
  BY <1>2, <1>4, <1>5, <1>6, <1>8

\* A reply is found to escape without a search.
LEMMA ReplyEscapesShape ==
  ASSUME SearchInv, ctl = "min", NEW p \in top.replies,
         EndMinStep(setTop(stack, replied(top, p, top.trees)), cache, NONE)
  PROVE  /\ OnlyLast(Len(stack)) /\ SameRound(top, stack'[Len(stack)])
         /\ score' = NONE /\ ctl' = "max"
         /\ cache'.minSignatures = cache.minSignatures
         /\ SameForest(cache, cache')
         /\ FirstOnly(cache.maxSignatures, cache'.maxSignatures,
                      Sig(top.step), levelsLeft(Len(stack)))
<1> DEFINE n == Len(stack)
           f == replied(top, p, top.trees)
           s == setTop(stack, f)
<1>1. f \in Frames /\ SameRound(top, f) /\ f.update = top.update
  BY TopFacts, RepliedFacts, RepliedLists
<1> HIDE DEF f
<1>2. StackOK(s, cache)
  BY <1>1, TopFacts, SetTopKeepsStack DEF SameRound
<1>3. Len(s) = n /\ s[n] = f
  BY <1>1, TopFacts, SetTopFacts
<1>4. MinStepOK(top, n, cache) /\ CacheType(cache)
  BY DEF SearchInv
<1>5. NONE \in Scores /\ NONE # CHECKMATE
  BY DEF Scores, NONE, CHECKMATE
<1>6. EndMinStep(s, cache, NONE)
  BY DEF f
<1>7. stack' = s
  BY <1>6 DEF EndMinStep
<1>8. stack \in Seq(Frames) /\ Len(stack) \in 1 .. Len(stack) + 1
  BY TopFacts
<1>9. OnlyLast(n) /\ stack'[n] = f
  BY <1>1, <1>7, <1>8, SetTopOnlyLast
<1> HIDE DEF s
<1>10. /\ s[Len(s)].step \in MaxMoves(s[Len(s)].cur)
       /\ s[Len(s)].update =>
            bounds(cache.maxSignatures, Sig(s[Len(s)].step)).first < levelsLeft(Len(s))
  BY <1>1, <1>3, <1>4 DEF MinStepOK, SameRound
<1>11. /\ score' = NONE /\ ctl' = "max"
       /\ cache'.minSignatures = cache.minSignatures
       /\ SameForest(cache, cache')
       /\ FirstOnly(cache.maxSignatures, cache'.maxSignatures,
                    Sig(s[Len(s)].step), levelsLeft(Len(s)))
  BY <1>2, <1>4, <1>5, <1>6, <1>10, EndMinStepShape
<1> QED
  BY <1>1, <1>3, <1>9, <1>11 DEF SameRound

\* The cache knows a mate after the reply, and its solution.
LEMMA MinReplyMatedShape ==
  ASSUME SearchInv, SearchInv', NEW p \in top.replies, MinReplyMated(p)
  PROVE  /\ OnlyLast(Len(stack)) /\ SameRound(top, stack'[Len(stack)])
         /\ stack'[Len(stack)].minStepStates = Append(top.minStepStates, p)
         /\ stack'[Len(stack)].trees
              = Append(top.trees, getSolution(cache, Sig(p)))
         /\ p \in MaxPos /\ Sig(p) \in DOMAIN cache.solutionMap
         /\ UNCHANGED <<cache, score>> /\ ctl = "min" /\ ctl' = "min"
<1> DEFINE sol == getSolution(cache, Sig(p))
           t   == Append(top.trees, sol)
           f   == replied(top, p, t)
<1>1. /\ stack' = setTop(stack, f) /\ UNCHANGED <<cache, score>> /\ ctl = "min"
      /\ ctl' = IF sol = NULL_INDEX THEN "abort" ELSE "min"
  BY DEF MinReplyMated
<1>2. ctl' = "min" /\ sol # NULL_INDEX
  BY <1>1 DEF SearchInv, Searching, Finished
<1>3. Sig(p) \in DOMAIN cache.solutionMap /\ sol \in Nat
  BY <1>2 DEF getSolution, SearchInv, CacheType
<1> HIDE DEF sol
<1>4. p \in MaxPos /\ t \in Seq(Nat) /\ top \in Frames
  BY <1>3, TopFacts
<1> HIDE DEF t
<1>5. /\ f \in Frames /\ SameRound(top, f) /\ f.trees = t
      /\ f.minStepStates = Append(top.minStepStates, p)
  BY <1>4, RepliedLists
<1> HIDE DEF f
<1>6. stack \in Seq(Frames) /\ Len(stack) \in 1 .. Len(stack) + 1
  BY TopFacts
<1>7. OnlyLast(Len(stack)) /\ stack'[Len(stack)] = f
  BY <1>1, <1>5, <1>6, SetTopOnlyLast
<1> QED
  BY <1>1, <1>2, <1>3, <1>4, <1>5, <1>7 DEF t, sol

\* A reply is searched by a round of its own.
LEMMA MinReplyExpandShape ==
  ASSUME SearchInv, NEW p \in top.replies, MinReplyExpand(p)
  PROVE  /\ OnlyLast(Len(stack) + 1)
         /\ stack'[Len(stack) + 1] = newFrame(p) /\ p \in MaxPos
         /\ Len(stack) + 1 \in 1 .. levels
         /\ cache' = cache /\ ctl = "min"
         /\ ctl' = entryCtl(p) /\ score' = entryScore(p)
<1>1. p \in MaxPos /\ stack \in Seq(Frames) /\ newFrame(p) \in Frames
  BY TopFacts, EntryFacts
<1>2. /\ stack' = Append(stack, newFrame(p)) /\ cache' = cache /\ ctl = "min"
      /\ ctl' = entryCtl(p) /\ score' = entryScore(p)
      /\ levelsLeft(Len(stack)) > 1
  BY DEF MinReplyExpand
<1>3. Len(stack) + 1 \in 1 .. levels
  BY <1>2, TopFacts, GameAssumption DEF levelsLeft
<1>4. /\ Len(stack') = Len(stack) + 1 /\ stack'[Len(stack) + 1] = newFrame(p)
      /\ \A i \in 1 .. Len(stack) : stack'[i] = stack[i]
  BY <1>1, <1>2
<1>5. OnlyLast(Len(stack) + 1)
  <2>1. Len(stack) \in Nat
    BY <1>1
  <2> QED
    BY <1>4, <2>1 DEF OnlyLast
<1> QED
  BY <1>1, <1>2, <1>3, <1>4, <1>5

\* All replies have been handled.
LEMMA MinExhaustedShape ==
  ASSUME SearchInv, MinExhausted
  PROVE  /\ OnlyLast(Len(stack)) /\ stack'[Len(stack)] = top /\ ctl = "min"
         /\ score' = IF MinChecked(top.step) \/ MinMoves(top.step) # {}
                       THEN CHECKMATE ELSE STALLMATE
         /\ ctl' = IF score' = CHECKMATE THEN "return" ELSE "max"
         /\ cache'.minSignatures = cache.minSignatures
         /\ SameForest(cache, cache')
         /\ FirstOnly(cache.maxSignatures, cache'.maxSignatures,
                      Sig(top.step), levelsLeft(Len(stack)))
         /\ score' = CHECKMATE =>
              SameFirst(cache.maxSignatures, cache'.maxSignatures)
<1> DEFINE result == IF MinChecked(top.step) \/ MinMoves(top.step) # {}
                       THEN CHECKMATE ELSE STALLMATE
<1>1. /\ MinStepOK(top, Len(stack), cache) /\ ctl = "min"
      /\ EndMinStep(stack, cache, result)
  BY DEF SearchInv, MinExhausted
<1>2. result \in Scores
  BY DEF Scores
<1>3. CacheType(cache) /\ StackOK(stack, cache) /\ top = stack[Len(stack)]
  BY DEF SearchInv, top
<1>4. score' = result /\ stack' = stack
  BY <1>1 DEF EndMinStep
<1> HIDE DEF result
<1>5. /\ stack[Len(stack)].step \in MaxMoves(stack[Len(stack)].cur)
      /\ stack[Len(stack)].update =>
           bounds(cache.maxSignatures, Sig(stack[Len(stack)].step)).first
             < levelsLeft(Len(stack))
  BY <1>1, <1>3 DEF MinStepOK
<1>6. /\ ctl' = IF result = CHECKMATE THEN "return" ELSE "max"
      /\ cache'.minSignatures = cache.minSignatures
      /\ SameForest(cache, cache')
      /\ FirstOnly(cache.maxSignatures, cache'.maxSignatures,
                   Sig(stack[Len(stack)].step), levelsLeft(Len(stack)))
      /\ result = CHECKMATE => SameFirst(cache.maxSignatures, cache'.maxSignatures)
  BY <1>1, <1>2, <1>3, <1>5, EndMinStepShape
<1>7. OnlyLast(Len(stack))
  BY <1>4, TopFacts DEF OnlyLast
<1> QED
  BY <1>1, <1>3, <1>4, <1>6, <1>7 DEF result

\* handleMinStepBoard, after a search of the reply that found no mate.
LEMMA ChildEscapesShape ==
  ASSUME SearchInv, ChildEscapes
  PROVE  LET n == Len(stack) - 1
         IN  /\ n \in 1 .. Len(stack) - 1 /\ OnlyLast(n)
             /\ SameRound(stack[n], stack'[n])
             /\ ctl = "return" /\ score # CHECKMATE
             /\ ctl' = "max" /\ score' = score
             /\ SameForest(cache, cache')
             /\ FirstOnly(cache.maxSignatures, cache'.maxSignatures,
                          Sig(stack[n].step), levelsLeft(n))
             /\ FirstOnly(cache.minSignatures, cache'.minSignatures,
                          Sig(top.cur), levelsLeft(n))
<1> DEFINE n == Len(stack) - 1
           p == top.cur
           s == SubSeq(stack, 1, n)
           g == stack[n]
           f == replied(g, p, g.trees)
           r == setTop(s, f)
           t == updateCache(cache.minSignatures, Sig(p), levelsLeft(n), score)
           d == [cache EXCEPT !.minSignatures = t]
<1>1. /\ n > 0 /\ score # CHECKMATE /\ score \in Scores /\ ctl = "return"
      /\ CacheType(cache) /\ CacheSound(cache) /\ StackOK(stack, cache)
      /\ EndMinStep(r, d, score)
  BY DEF ChildEscapes, SearchInv
<1>2. /\ StackOK(s, cache) /\ Len(s) = n /\ s[n] = g
      /\ n \in 1 .. levels /\ n \in 1 .. Len(stack)
      /\ MinStepOK(g, n, cache) /\ CallOK(g, top, n, cache)
  BY <1>1, TopFacts, PopKeepsStack
<1>3. p \in MaxPos /\ Sig(p) \in Sigs /\ isTable(cache.minSignatures)
  BY <1>1, TopFacts, SearchAssumption DEF CacheType
<1>4. /\ n \in 1 .. Len(stack) - 1 /\ s \in Seq(Frames)
      /\ n \in 1 .. Len(stack) + 1 /\ \A i \in 1 .. n - 1 : s[i] = stack[i]
  <2>1. stack \in Seq(Frames) /\ Len(stack) \in Nat
    BY TopFacts
  <2>2. ASSUME NEW m \in Nat, m - 1 > 0
        PROVE  /\ m - 1 \in 1 .. m - 1 /\ m - 1 \in 1 .. m + 1 /\ m - 1 \in Nat
    BY <2>2
  <2>3. n \in 1 .. Len(stack) - 1 /\ n \in 1 .. Len(stack) + 1 /\ n \in Nat
    BY <1>1, <2>1, <2>2
  <2>4. s \in Seq(Frames) /\ \A i \in 1 .. n : s[i] = stack[i]
    BY <1>2, <2>1, <2>3
  <2>5. \A i \in 1 .. n - 1 : i \in 1 .. n
    BY <2>3
  <2> QED
    BY <2>3, <2>4, <2>5
<1>5. levelsLeft(n) \in Int
  BY <1>2, TopFacts, LevelFacts
<1> HIDE DEF s, n, p
<1>6. FirstOnly(cache.minSignatures, t, Sig(p), levelsLeft(n))
  <2>1. bounds(cache.minSignatures, Sig(p)).first < levelsLeft(n)
    BY <1>2 DEF CallOK, p
  <2> QED
    BY <1>1, <1>3, <1>5, <2>1, UpdateFirst
<1>7. StackOK(s, d) /\ CacheType(d)
  <2>1. bounds(cache.minSignatures, Sig(p)).first < levelsLeft(Len(s))
    BY <1>2 DEF CallOK, p
  <2> QED
    BY <1>1, <1>2, <1>3, <2>1, RecordEscape
<1> HIDE DEF t
<1>8. d.maxSignatures = cache.maxSignatures /\ d.minSignatures = t
      /\ SameForest(cache, d)
  BY <1>1 DEF CacheType, SameForest
<1> HIDE DEF d
<1>9. g \in Frames /\ g.trees \in Seq(Nat)
  <2>1. g \in Frames
    BY <1>1, <1>2, FrameTypes
  <2> QED
    BY <2>1 DEF Frames
<1>10. f \in Frames /\ SameRound(g, f) /\ f.update = g.update
  BY <1>3, <1>9, RepliedFacts, RepliedLists
<1> HIDE DEF f, g
<1>11. StackOK(r, d)
  BY <1>2, <1>7, <1>10, SetTopKeepsStack DEF SameRound
<1>12. stack' = r /\ score' = score
  BY <1>1 DEF EndMinStep
<1>13. Len(r) = n /\ r[n] = f
  BY <1>1, <1>2, <1>4, <1>10, SetTopFacts
<1>14. OnlyLast(n) /\ stack'[n] = f
  BY <1>2, <1>4, <1>10, <1>12, SetTopOnlyLast
<1> HIDE DEF r
<1>15. /\ r[Len(r)].step \in MaxMoves(r[Len(r)].cur)
       /\ r[Len(r)].update =>
            bounds(d.maxSignatures, Sig(r[Len(r)].step)).first < levelsLeft(Len(r))
  BY <1>2, <1>8, <1>10, <1>13 DEF MinStepOK, SameRound
<1>16. /\ ctl' = "max" /\ cache'.minSignatures = d.minSignatures
       /\ SameForest(d, cache')
       /\ FirstOnly(d.maxSignatures, cache'.maxSignatures,
                    Sig(r[Len(r)].step), levelsLeft(Len(r)))
  BY <1>1, <1>7, <1>11, <1>15, EndMinStepShape
<1>17. SameForest(cache, cache')
  BY <1>8, <1>16 DEF SameForest
<1>18. FirstOnly(cache.maxSignatures, cache'.maxSignatures,
                 Sig(g.step), levelsLeft(n))
  BY <1>8, <1>10, <1>13, <1>16 DEF SameRound
<1>19. FirstOnly(cache.minSignatures, cache'.minSignatures, Sig(p), levelsLeft(n))
  BY <1>6, <1>8, <1>16
<1> QED
  BY <1>1, <1>4, <1>10, <1>12, <1>14, <1>16, <1>17, <1>18, <1>19 DEF n, p, g

\* Cache d is cache c with a solution stored under key: no node that is there
\* already changes its move, and the key's node is a new one with the given
\* move unless the key had a node before.
Grown(c, d, key, move) ==
  /\ d.solutionMap = put(c.solutionMap, key, keyIndex(c, key))
  /\ Len(c.forest) \in Nat /\ Len(d.forest) \in Nat
  /\ Len(d.forest) > Len(c.forest)
  /\ keyIndex(c, key) \in 1 .. Len(c.forest) + 1
  /\ \A i \in 1 .. Len(c.forest) : d.forest[i].data = c.forest[i].data
  /\ d.forest[Len(c.forest) + 1].data = move

LEMMA StoreGrows ==
  ASSUME NEW c, CacheType(c), NEW key \in Sigs,
         \A s \in DOMAIN c.solutionMap : c.solutionMap[s] \in 1 .. Len(c.forest),
         NEW move \in MinPos \cup {NoPos},
         NEW replies \in Seq(MaxPos), NEW trees \in Seq(Nat)
  PROVE  Grown(c, storeSolution(c, key, move, replies, trees), key, move)
<1> DEFINE base   == Len(c.forest)
           k      == keyIndex(c, key)
           kids   == [i \in 1 .. Len(replies) |-> base + 1 + i]
           leaf(i) == [data |-> replies[i],
                       children |-> IF i <= Len(trees) THEN <<trees[i]>> ELSE << >>]
           leaves == [i \in 1 .. Len(replies) |-> leaf(i)]
           node   == [data |-> move, children |-> << >>]
           grown  == c.forest \o <<node>> \o leaves
           forest == [grown EXCEPT ![k].children = @ \o kids]
           d      == storeSolution(c, key, move, replies, trees)
<1>1. base \in Nat /\ c.forest \in Seq(Nodes)
  BY DEF CacheType
<1>2. k \in 1 .. base + 1
  BY <1>1 DEF keyIndex
<1>3. node \in Nodes /\ node.data = move
  BY DEF Nodes
<1>4. leaves \in Seq(Nodes)
  <2>1. ASSUME NEW i \in 1 .. Len(replies)
        PROVE  leaf(i) \in Nodes
    <3>1. replies[i] \in MaxPos
      OBVIOUS
    <3>2. (IF i <= Len(trees) THEN <<trees[i]>> ELSE << >>) \in Seq(Nat)
      OBVIOUS
    <3> QED
      BY <3>1, <3>2 DEF Nodes
  <2> QED
    BY <2>1
<1>5. /\ d.forest = forest
      /\ d.solutionMap = put(c.solutionMap, key, k)
  <2> HIDE DEF forest, k
  <2>1. d = [c EXCEPT !.forest = forest, !.solutionMap = put(@, key, k)]
    BY DEF storeSolution, forest, k
  <2> QED
    BY <2>1 DEF CacheType
<1> HIDE DEF leaves, node, d
<1>6. /\ grown \in Seq(Nodes) /\ Len(grown) > base
      /\ \A i \in 1 .. base : grown[i] = c.forest[i]
      /\ grown[base + 1] = node
  <2> DEFINE front == c.forest \o <<node>>
  <2>1. /\ front \in Seq(Nodes) /\ Len(front) = base + 1
        /\ \A i \in 1 .. base : front[i] = c.forest[i]
        /\ front[base + 1] = node
    BY <1>1, <1>3
  <2> HIDE DEF front
  <2>2. grown = front \o leaves
    BY DEF front
  <2>3. Len(leaves) \in Nat
    BY <1>4
  <2>4. /\ grown \in Seq(Nodes) /\ Len(grown) = base + 1 + Len(leaves)
        /\ \A i \in 1 .. base + 1 : grown[i] = front[i]
    BY <1>1, <1>4, <2>1, <2>2, <2>3
  <2> HIDE DEF grown
  <2> QED
    BY <1>1, <2>1, <2>3, <2>4
<1> HIDE DEF grown
<1>7. /\ Len(forest) = Len(grown)
      /\ \A i \in 1 .. Len(grown) : forest[i].data = grown[i].data
  <2>1. Len(forest) = Len(grown)
    BY <1>6
  <2>2. ASSUME NEW i \in 1 .. Len(grown)
        PROVE  forest[i].data = grown[i].data
    <3>1. grown[i] \in Nodes
      BY <1>6
    <3>2. CASE i # k
      BY <1>6, <3>2
    <3>3. CASE i = k
      BY <1>6, <3>1, <3>3 DEF Nodes
    <3> QED
      BY <3>2, <3>3
  <2> QED
    BY <2>1, <2>2
<1> HIDE DEF forest, k
<1>8. Len(grown) \in Nat
  BY <1>6
<1>9. ASSUME NEW i \in 1 .. base
      PROVE  forest[i].data = c.forest[i].data
  <2>1. i \in 1 .. Len(grown)
    BY <1>1, <1>6, <1>8
  <2> QED
    BY <1>6, <1>7, <2>1
<1>10. forest[base + 1].data = move
  <2>1. base + 1 \in 1 .. Len(grown)
    BY <1>1, <1>6, <1>8
  <2> QED
    BY <1>3, <1>6, <1>7, <2>1
<1> QED
  BY <1>1, <1>2, <1>5, <1>6, <1>7, <1>8, <1>9, <1>10 DEF d, k, Grown

\* handleMinStepBoard, after a search of the reply that found a mate.  The
\* solution is stored in a cache b that differs from the old one in a mate
\* bound only.
LEMMA ChildMatedShape ==
  ASSUME SearchInv, ChildMated
  PROVE  LET n == Len(stack) - 1
         IN  /\ n \in 1 .. Len(stack) - 1 /\ OnlyLast(n)
             /\ SameRound(stack[n], stack'[n])
             /\ stack'[n].minStepStates = Append(stack[n].minStepStates, top.cur)
             /\ stack'[n].trees
                  = Append(stack[n].trees, keyIndex(cache, Sig(top.cur)))
             /\ ctl = "return" /\ score = CHECKMATE
             /\ ctl' = "min" /\ score' = score
             /\ SameFirst(cache.maxSignatures, cache'.maxSignatures)
             /\ SameFirst(cache.minSignatures, cache'.minSignatures)
             /\ \E b : /\ CacheType(b) /\ SameForest(cache, b)
                       /\ cache' = storeSolution(b, Sig(top.cur), top.step,
                                                 top.minStepStates, top.trees)
<1> DEFINE n == Len(stack) - 1
           p == top.cur
           s == SubSeq(stack, 1, n)
           g == stack[n]
           k == keyIndex(cache, Sig(p))
           t == Append(g.trees, k)
           f == replied(g, p, t)
           u == updateCache(cache.minSignatures, Sig(p), levelsLeft(n), CHECKMATE)
           b == [cache EXCEPT !.minSignatures = u]
           d == storeSolution(b, Sig(p), top.step, top.minStepStates, top.trees)
<1>1. /\ n > 0 /\ score = CHECKMATE /\ ctl = "return"
      /\ CacheType(cache) /\ CacheSound(cache) /\ StackOK(stack, cache)
      /\ cache' = d /\ stack' = setTop(s, f)
      /\ ctl' = "min" /\ score' = score /\ score \in Scores
  BY DEF ChildMated, SearchInv
<1>2. /\ StackOK(s, cache) /\ Len(s) = n /\ s[n] = g
      /\ n \in 1 .. levels /\ n \in 1 .. Len(stack)
  BY <1>1, TopFacts, PopKeepsStack
<1>3. /\ p \in MaxPos /\ Sig(p) \in Sigs /\ top.step \in MinPos \cup {NoPos}
      /\ top.minStepStates \in Seq(MaxPos) /\ top.trees \in Seq(Nat)
  BY TopFacts, SearchAssumption DEF Frames
<1>4. /\ n \in 1 .. Len(stack) - 1 /\ s \in Seq(Frames)
      /\ n \in 1 .. Len(stack) + 1 /\ \A i \in 1 .. n - 1 : s[i] = stack[i]
  <2>1. stack \in Seq(Frames) /\ Len(stack) \in Nat
    BY TopFacts
  <2>2. ASSUME NEW m \in Nat, m - 1 > 0
        PROVE  /\ m - 1 \in 1 .. m - 1 /\ m - 1 \in 1 .. m + 1 /\ m - 1 \in Nat
    BY <2>2
  <2>3. n \in 1 .. Len(stack) - 1 /\ n \in 1 .. Len(stack) + 1 /\ n \in Nat
    BY <1>1, <2>1, <2>2
  <2>4. s \in Seq(Frames) /\ \A i \in 1 .. n : s[i] = stack[i]
    BY <1>2, <2>1, <2>3
  <2>5. \A i \in 1 .. n - 1 : i \in 1 .. n
    BY <2>3
  <2> QED
    BY <2>3, <2>4, <2>5
<1>5. levelsLeft(n) \in Int /\ CHECKMATE \in Scores
  BY <1>2, TopFacts, LevelFacts DEF Scores
<1> HIDE DEF s, n, p
<1>6. isTable(u) /\ SameFirst(cache.minSignatures, u)
  <2>1. isTable(cache.minSignatures)
    BY <1>1 DEF CacheType
  <2>2. isTable(u)
    BY <1>3, <1>5, <2>1, UpdateFacts
  <2>3. SameFirst(cache.minSignatures, u)
    BY <1>3, <1>5, <2>1, UpdateFirst
  <2> QED
    BY <2>2, <2>3
<1> HIDE DEF u
<1>7. /\ b.maxSignatures = cache.maxSignatures /\ b.minSignatures = u
      /\ SameForest(cache, b) /\ CacheType(b)
  BY <1>1, <1>6 DEF CacheType, SameForest
<1> HIDE DEF b
<1>8. /\ d.maxSignatures = b.maxSignatures
      /\ d.minSignatures = b.minSignatures
  <2>1. ASSUME NEW c, CacheType(c), NEW key \in Sigs,
               NEW move \in MinPos \cup {NoPos},
               NEW replies \in Seq(MaxPos), NEW trees \in Seq(Nat)
        PROVE  /\ storeSolution(c, key, move, replies, trees).maxSignatures
                    = c.maxSignatures
               /\ storeSolution(c, key, move, replies, trees).minSignatures
                    = c.minSignatures
    <3> DEFINE e == storeSolution(c, key, move, replies, trees)
    <3>1. e.maxSignatures = c.maxSignatures
      BY <2>1, StoreFacts
    <3>2. e.minSignatures = c.minSignatures
      BY <2>1, StoreFacts
    <3> QED
      BY <3>1, <3>2
  <2> QED
    BY <1>3, <1>7, <2>1
<1>9. /\ SameFirst(cache.maxSignatures, cache'.maxSignatures)
       /\ SameFirst(cache.minSignatures, cache'.minSignatures)
  <2> HIDE DEF d
  <2> QED
    BY <1>1, <1>6, <1>7, <1>8 DEF SameFirst
<1>10. \E c : /\ CacheType(c) /\ SameForest(cache, c)
              /\ cache' = storeSolution(c, Sig(p), top.step,
                                        top.minStepStates, top.trees)
  BY <1>1, <1>7
<1> HIDE DEF d
<1>11. g \in Frames /\ g.trees \in Seq(Nat) /\ k \in Nat
  <2>1. g \in Frames
    BY <1>1, <1>2, FrameTypes
  <2>2. k \in Nat
    BY <1>1 DEF CacheType, keyIndex
  <2> QED
    BY <2>1, <2>2 DEF Frames
<1>12. t \in Seq(Nat)
  BY <1>11
<1> HIDE DEF t
<1>13. /\ f \in Frames /\ SameRound(g, f) /\ f.trees = t
       /\ f.minStepStates = Append(g.minStepStates, p)
  BY <1>3, <1>11, <1>12, RepliedLists
<1> HIDE DEF f
<1>14. OnlyLast(n) /\ stack'[n] = f
  BY <1>1, <1>2, <1>4, <1>13, SetTopOnlyLast
<1> QED
  BY <1>1, <1>4, <1>9, <1>10, <1>13, <1>14 DEF t, n, p

----------------------------------------------------------------------------
\* A finished search has no round but the root.
RootDone == ctl \in Finished => Len(stack) = 1

LEMMA RootDoneInit == Init => RootDone
<1> SUFFICES ASSUME Init
             PROVE  Len(stack) = 1
  BY DEF RootDone
<1> QED
  BY DEF Init

LEMMA RootDoneKeeps ==
  ASSUME RootDone, [Next]_vars
  PROVE  RootDone'
<1>1. CASE SearchStep
  BY <1>1, OnlyReturnFinishes DEF RootReturn, RootDone
<1>2. CASE PrintPath
  BY <1>2 DEF PrintPath, RootDone, Finished
<1>3. ASSUME NEW p, NEW l, NewSearch(p, l)
      PROVE  RootDone'
  BY <1>3 DEF NewSearch, RootDone
<1>4. CASE UNCHANGED vars
  BY <1>4 DEF vars, RootDone
<1> QED
  BY <1>1, <1>2, <1>3, <1>4 DEF Next
=============================================================================
