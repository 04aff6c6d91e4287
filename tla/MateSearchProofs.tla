-------------------------- MODULE MateSearchProofs --------------------------
(***************************************************************************)
(* Proofs about the depth-first search, for every game, every number of    *)
(* levels, every order of the moves and every pruning of circular moves:   *)
(* a mate that the search announces is there, provided that boards with    *)
(* the same signature are alike.                                           *)
(***************************************************************************)
EXTENDS MateSearch, TLAPS

\* The nodes of the solution forest.
Nodes == [data : MaxPos \cup MinPos \cup {NoPos}, children : Seq(Nat)]

\* A cache value: a record of two score tables, a map to forest nodes and the
\* forest.
CacheType(c) ==
  /\ c = [maxSignatures |-> c.maxSignatures, minSignatures |-> c.minSignatures,
          solutionMap |-> c.solutionMap, forest |-> c.forest]
  /\ isTable(c.maxSignatures) /\ isTable(c.minSignatures)
  /\ c.solutionMap \in [DOMAIN c.solutionMap -> Nat \ {0}]
  /\ c.forest \in Seq(Nodes)

\* The mate bounds of a cache are facts, and a mate in the table that
\* handleMinStepBoard reads has a stored solution.
CacheSound(c) ==
  /\ \A q \in MinPos :
       bounds(c.maxSignatures, Sig(q)).second <= Levels =>
         MateMin(q) <= bounds(c.maxSignatures, Sig(q)).second
  /\ \A p \in MaxPos :
       bounds(c.minSignatures, Sig(p)).second <= Levels =>
         /\ MateMax(p) < bounds(c.minSignatures, Sig(p)).second
         /\ Sig(p) \in DOMAIN c.solutionMap

\* Two caches have the same bounds for boards after a maximising move.
SameMaxTable(c, d) == d.maxSignatures = c.maxSignatures

\* A round tries moves of its board only.
RoundOK(f) == f.left \subseteq MaxMoves(f.cur)

\* Round i is in its minimising step: the replies already handled lose, and
\* the score that is to be cached is still unknown to the cache.
MinStepOK(f, i, c) ==
  /\ f.step \in MaxMoves(f.cur)
  /\ f.replies \subseteq MinMoves(f.step)
  /\ \A p \in MinMoves(f.step) \ f.replies :
       levelsLeft(i) > 1 /\ MateMax(p) <= levelsLeft(i) - 1
  /\ f.update => bounds(c.maxSignatures, Sig(f.step)).first < levelsLeft(i)

\* Round i waits for the round g, which searches one of its replies.
CallOK(f, g, i, c) ==
  /\ g.cur \in f.replies
  /\ bounds(c.minSignatures, Sig(g.cur)).first < levelsLeft(i)

StackOK(stk, c) ==
  /\ levels \in 1 .. Levels
  /\ stk \in Seq(Frames) /\ Len(stk) \in 1 .. levels
  /\ \A i \in 1 .. Len(stk) : RoundOK(stk[i])
  /\ \A i \in 1 .. Len(stk) - 1 :
       MinStepOK(stk[i], i, c) /\ CallOK(stk[i], stk[i + 1], i, c)

SearchInv ==
  /\ CacheType(cache) /\ CacheSound(cache)
  /\ StackOK(stack, cache)
  /\ ctl = "min" => MinStepOK(top, Len(stack), cache)
  /\ ctl \in Searching \cup Finished
  /\ score \in Scores
  /\ MateIsReal

----------------------------------------------------------------------------
\* What an update changes, when it is made as the search makes it: for a mate,
\* or for a height that the table had no answer for.
LEMMA UpdateFacts ==
  ASSUME NEW t, isTable(t), NEW sig \in Sigs, NEW h \in Int, NEW sc \in Scores,
         sc = CHECKMATE \/ bounds(t, sig).first < h
  PROVE  LET u == updateCache(t, sig, h, sc)
         IN  /\ isTable(u)
             /\ \A s \in Sigs :
                  /\ \/ bounds(u, s).first = bounds(t, s).first
                     \/ s = sig /\ sc # CHECKMATE /\ bounds(u, s).first = h
                  /\ \/ bounds(u, s).second = bounds(t, s).second
                     \/ s = sig /\ sc = CHECKMATE /\ bounds(u, s).second = h
<1> DEFINE old == bounds(t, sig)
           u   == updateCache(t, sig, h, sc)
<1>1. old \in Bounds /\ \A s \in Sigs : bounds(t, s) \in Bounds
  BY DEF isTable, bounds, Bounds, INT_MAX
<1>2. sc < CHECKMATE <=> sc # CHECKMATE
  BY DEF Scores, NONE, STALLMATE, CHECKMATE
<1>3. ASSUME NEW v \in Bounds
      PROVE  /\ isTable(put(t, sig, v))
             /\ \A s \in Sigs : bounds(put(t, sig, v), s)
                                  = IF s = sig THEN v ELSE bounds(t, s)
  BY <1>3 DEF isTable, put, bounds
<1> HIDE DEF old
<1>4. CASE u = t
  BY <1>4
<1>5. CASE sc # CHECKMATE /\ u = put(t, sig, [old EXCEPT !.first = h])
  <2> DEFINE v == [old EXCEPT !.first = h]
  <2>1. v \in Bounds /\ v.first = h /\ v.second = old.second
    BY <1>1 DEF Bounds
  <2> HIDE DEF v
  <2> QED
    BY <1>3, <1>5, <2>1 DEF v, old
<1>6. CASE sc = CHECKMATE /\ u = put(t, sig, [old EXCEPT !.second = h])
  <2> DEFINE v == [old EXCEPT !.second = h]
  <2>1. v \in Bounds /\ v.second = h /\ v.first = old.first
    BY <1>1 DEF Bounds
  <2> HIDE DEF v
  <2> QED
    BY <1>3, <1>6, <2>1 DEF v, old
<1> QED
  BY <1>2, <1>4, <1>5, <1>6 DEF updateCache, old

\* The levels of the rounds of a stack.
LEMMA LevelFacts ==
  ASSUME levels \in 1 .. Levels, NEW n \in 1 .. levels
  PROVE  /\ levelsLeft(n) \in 1 .. Levels
         /\ \A i \in 1 .. n : i < n => levelsLeft(i) > levelsLeft(n)
         /\ \A i \in 1 .. n : i < n => levelsLeft(i) - 1 >= levelsLeft(n)
BY GameAssumption DEF levelsLeft

\* Replacing the last frame.
LEMMA SetTopFacts ==
  ASSUME NEW s \in Seq(Frames), Len(s) > 0, NEW f \in Frames
  PROVE  /\ setTop(s, f) \in Seq(Frames)
         /\ Len(setTop(s, f)) = Len(s)
         /\ setTop(s, f)[Len(s)] = f
         /\ \A i \in 1 .. Len(s) - 1 : setTop(s, f)[i] = s[i]
BY DEF setTop

\* A stack stays sound when its last frame is replaced by one of the same
\* board that has no more moves left to try.
LEMMA SetTopKeepsStack ==
  ASSUME NEW s, NEW c, StackOK(s, c), NEW f \in Frames,
         f.cur = s[Len(s)].cur, f.left \subseteq s[Len(s)].left
  PROVE  StackOK(setTop(s, f), c)
<1> DEFINE n == Len(s)
           r == setTop(s, f)
<1>1. s \in Seq(Frames) /\ n \in 1 .. levels /\ n \in Nat /\ n > 0
  BY GameAssumption DEF StackOK
<1>2. /\ r \in Seq(Frames) /\ Len(r) = n /\ r[n] = f
      /\ \A i \in 1 .. n - 1 : r[i] = s[i]
  BY <1>1, SetTopFacts
<1> HIDE DEF r
<1>3. ASSUME NEW i \in 1 .. n
      PROVE  RoundOK(r[i])
  <2>1. RoundOK(s[i])
    BY DEF StackOK
  <2>2. CASE i = n
    BY <1>2, <2>1, <2>2 DEF RoundOK
  <2>3. CASE i # n
    BY <1>1, <1>2, <2>1, <2>3
  <2> QED
    BY <2>2, <2>3
<1>4. ASSUME NEW i \in 1 .. n - 1
      PROVE  MinStepOK(r[i], i, c) /\ CallOK(r[i], r[i + 1], i, c)
  <2>1. r[i] = s[i] /\ r[i + 1].cur = s[i + 1].cur
    BY <1>1, <1>2
  <2>2. MinStepOK(s[i], i, c) /\ CallOK(s[i], s[i + 1], i, c)
    BY DEF StackOK
  <2> QED
    BY <2>1, <2>2 DEF CallOK
<1> QED
  BY <1>1, <1>2, <1>3, <1>4 DEF StackOK, r

\* The types of what a frame holds.
LEMMA FrameTypes ==
  ASSUME NEW s, NEW c, StackOK(s, c), NEW i \in 1 .. Len(s)
  PROVE  /\ s[i] \in Frames
         /\ s[i].cur \in MaxPos /\ Sig(s[i].cur) \in Sigs
         /\ s[i].left \subseteq MinPos
         /\ i < Len(s) => s[i].step \in MinPos /\ Sig(s[i].step) \in Sigs
<1>1. s[i] \in Frames
  BY DEF StackOK
<1>2. s[i].cur \in MaxPos /\ s[i].left \subseteq MinPos
  BY <1>1 DEF Frames
<1>3. ASSUME i < Len(s)
      PROVE  s[i].step \in MinPos
  <2>1. MinStepOK(s[i], i, c)
    BY <1>3 DEF StackOK
  <2> QED
    BY <1>2, <2>1, GameAssumption DEF MinStepOK
<1> QED
  BY <1>1, <1>2, <1>3, GameAssumption, SearchAssumption

\* A cache that has learnt no more than results for the level of the last
\* round leaves the earlier rounds' claims on the cache as they were: those
\* rounds have more levels left.
LEMMA LaterCacheKeepsStack ==
  ASSUME NEW s, NEW c, NEW d, StackOK(s, c),
         \A sig \in Sigs :
           /\ \/ bounds(d.maxSignatures, sig).first = bounds(c.maxSignatures, sig).first
              \/ bounds(d.maxSignatures, sig).first = levelsLeft(Len(s))
           /\ \/ bounds(d.minSignatures, sig).first = bounds(c.minSignatures, sig).first
              \/ bounds(d.minSignatures, sig).first = levelsLeft(Len(s))
  PROVE  StackOK(s, d)
<1>1. ASSUME NEW i \in 1 .. Len(s) - 1
      PROVE  MinStepOK(s[i], i, d) /\ CallOK(s[i], s[i + 1], i, d)
  <2>1. MinStepOK(s[i], i, c) /\ CallOK(s[i], s[i + 1], i, c)
    BY DEF StackOK
  <2>2. levelsLeft(i) > levelsLeft(Len(s))
    BY LevelFacts DEF StackOK
  <2>3. i \in 1 .. Len(s) /\ i + 1 \in 1 .. Len(s) /\ i < Len(s)
    BY DEF StackOK
  <2>4. Sig(s[i].step) \in Sigs /\ Sig(s[i + 1].cur) \in Sigs
    BY <2>3, FrameTypes
  <2>5. MinStepOK(s[i], i, d)
    BY <2>1, <2>2, <2>4 DEF MinStepOK
  <2>6. CallOK(s[i], s[i + 1], i, d)
    BY <2>1, <2>2, <2>4 DEF CallOK
  <2> QED
    BY <2>5, <2>6
<1> QED
  BY <1>1 DEF StackOK

\* Recording the result of the minimising step of the last round.  A mate that
\* is recorded is one, and any other result is new to the table.
LEMMA RecordMax ==
  ASSUME SigFaithful, NEW s, NEW c, StackOK(s, c), CacheType(c), CacheSound(c),
         NEW q \in MinPos, NEW result \in Scores,
         \/ result = CHECKMATE /\ MateMin(q) <= levelsLeft(Len(s))
         \/ /\ result # CHECKMATE
            /\ bounds(c.maxSignatures, Sig(q)).first < levelsLeft(Len(s))
  PROVE  LET d == [c EXCEPT !.maxSignatures =
                     updateCache(c.maxSignatures, Sig(q),
                                 levelsLeft(Len(s)), result)]
         IN  StackOK(s, d) /\ CacheType(d) /\ CacheSound(d)
<1> DEFINE h == levelsLeft(Len(s))
           t == updateCache(c.maxSignatures, Sig(q), h, result)
           d == [c EXCEPT !.maxSignatures = t]
<1>1. h \in 1 .. Levels /\ h \in Int
  BY LevelFacts, GameAssumption DEF StackOK
<1>2. isTable(c.maxSignatures) /\ Sig(q) \in Sigs
  BY SearchAssumption DEF CacheType
<1>3. /\ isTable(t)
      /\ \A sig \in Sigs :
           /\ \/ bounds(t, sig).first = bounds(c.maxSignatures, sig).first
              \/ bounds(t, sig).first = h
           /\ \/ bounds(t, sig).second = bounds(c.maxSignatures, sig).second
              \/ /\ sig = Sig(q) /\ result = CHECKMATE
                 /\ bounds(t, sig).second = h
  BY <1>1, <1>2, UpdateFacts
<1> HIDE DEF t
<1>4. /\ d.maxSignatures = t /\ d.minSignatures = c.minSignatures
      /\ d.solutionMap = c.solutionMap /\ d.forest = c.forest
      /\ d = [maxSignatures |-> t, minSignatures |-> c.minSignatures,
              solutionMap |-> c.solutionMap, forest |-> c.forest]
  BY DEF CacheType
<1> HIDE DEF d
<1>5. CacheType(d)
  BY <1>3, <1>4 DEF CacheType
<1>6. CacheSound(d)
  <2>1. ASSUME NEW x \in MinPos, bounds(t, Sig(x)).second <= Levels
        PROVE  MateMin(x) <= bounds(t, Sig(x)).second
    <3>1. Sig(x) \in Sigs
      BY SearchAssumption
    <3>2. CASE bounds(t, Sig(x)).second = bounds(c.maxSignatures, Sig(x)).second
      BY <2>1, <3>2 DEF CacheSound
    <3>3. CASE /\ Sig(x) = Sig(q) /\ result = CHECKMATE
               /\ bounds(t, Sig(x)).second = h
      BY <3>3 DEF SigFaithful
    <3> QED
      BY <1>3, <3>1, <3>2, <3>3
  <2> QED
    BY <1>4, <2>1 DEF CacheSound
<1>7. StackOK(s, d)
  BY <1>3, <1>4, LaterCacheKeepsStack
<1> QED
  BY <1>5, <1>6, <1>7 DEF d, t

\* Recording that a reply of the last round escapes.
LEMMA RecordEscape ==
  ASSUME NEW s, NEW c, StackOK(s, c), CacheType(c), CacheSound(c),
         NEW p \in MaxPos, NEW result \in Scores, result # CHECKMATE,
         bounds(c.minSignatures, Sig(p)).first < levelsLeft(Len(s))
  PROVE  LET d == [c EXCEPT !.minSignatures =
                     updateCache(c.minSignatures, Sig(p),
                                 levelsLeft(Len(s)), result)]
         IN  /\ StackOK(s, d) /\ CacheType(d) /\ CacheSound(d)
             /\ d.maxSignatures = c.maxSignatures
<1> DEFINE h == levelsLeft(Len(s))
           t == updateCache(c.minSignatures, Sig(p), h, result)
           d == [c EXCEPT !.minSignatures = t]
<1>1. h \in 1 .. Levels /\ h \in Int
  BY LevelFacts, GameAssumption DEF StackOK
<1>2. isTable(c.minSignatures) /\ Sig(p) \in Sigs
  BY SearchAssumption DEF CacheType
<1>3. /\ isTable(t)
      /\ \A sig \in Sigs :
           /\ \/ bounds(t, sig).first = bounds(c.minSignatures, sig).first
              \/ bounds(t, sig).first = h
           /\ bounds(t, sig).second = bounds(c.minSignatures, sig).second
  BY <1>1, <1>2, UpdateFacts
<1> HIDE DEF t
<1>4. /\ d.maxSignatures = c.maxSignatures /\ d.minSignatures = t
      /\ d.solutionMap = c.solutionMap /\ d.forest = c.forest
      /\ d = [maxSignatures |-> c.maxSignatures, minSignatures |-> t,
              solutionMap |-> c.solutionMap, forest |-> c.forest]
  BY DEF CacheType
<1> HIDE DEF d
<1>5. CacheType(d)
  BY <1>3, <1>4 DEF CacheType
<1>6. CacheSound(d)
  BY <1>3, <1>4, SearchAssumption DEF CacheSound
<1>7. StackOK(s, d)
  BY <1>3, <1>4, LaterCacheKeepsStack
<1> QED
  BY <1>4, <1>5, <1>6, <1>7 DEF d, t

\* Storing a solution leaves the tables alone and maps the key to a node.
LEMMA StoreFacts ==
  ASSUME NEW c, CacheType(c), NEW key \in Sigs,
         NEW move \in MinPos \cup {NoPos},
         NEW replies \in Seq(MaxPos), NEW trees \in Seq(Nat)
  PROVE  LET d == storeSolution(c, key, move, replies, trees)
         IN  /\ CacheType(d)
             /\ d.maxSignatures = c.maxSignatures
             /\ d.minSignatures = c.minSignatures
             /\ DOMAIN d.solutionMap = DOMAIN c.solutionMap \cup {key}
             /\ keyIndex(c, key) \in Nat \ {0}
<1> DEFINE base   == Len(c.forest)
           parent == keyIndex(c, key)
           kids   == [i \in 1 .. Len(replies) |-> base + 1 + i]
           leaf(i) == [data |-> replies[i],
                       children |-> IF i <= Len(trees) THEN <<trees[i]>> ELSE << >>]
           leaves == [i \in 1 .. Len(replies) |-> leaf(i)]
           node   == [data |-> move, children |-> << >>]
           grown  == c.forest \o <<node>> \o leaves
           forest == [grown EXCEPT ![parent].children = @ \o kids]
           map    == put(c.solutionMap, key, parent)
           d      == storeSolution(c, key, move, replies, trees)
<1>1. base \in Nat /\ parent \in Nat \ {0} /\ c.forest \in Seq(Nodes)
  BY DEF CacheType, keyIndex
<1>2. kids \in Seq(Nat)
  BY <1>1
<1>3. node \in Nodes
  BY DEF Nodes
<1>4. leaves \in Seq(Nodes)
  <2>1. ASSUME NEW i \in 1 .. Len(replies)
        PROVE  leaf(i) \in Nodes
    <3>1. replies[i] \in MaxPos
      OBVIOUS
    <3>2. (IF i <= Len(trees) THEN <<trees[i]>> ELSE << >>) \in Seq(Nat)
      OBVIOUS
    <3> QED
      BY <3>1, <3>2 DEF Nodes
  <2> QED
    BY <2>1
<1> HIDE DEF leaves, node
<1>5. grown \in Seq(Nodes)
  BY <1>1, <1>3, <1>4
<1> HIDE DEF grown, kids
<1>6. forest \in Seq(Nodes)
  <2> DEFINE more == [grown[parent] EXCEPT !.children = @ \o kids]
  <2>1. forest = [grown EXCEPT ![parent] = more]
    OBVIOUS
  <2>2. CASE parent \in 1 .. Len(grown)
    <3>1. grown[parent] \in Nodes
      BY <1>5, <2>2
    <3>2. grown[parent].children \o kids \in Seq(Nat)
      BY <3>1, <1>2 DEF Nodes
    <3>3. more \in Nodes
      BY <3>1, <3>2 DEF Nodes
    <3> HIDE DEF more, forest, parent
    <3> QED
      BY <1>5, <2>1, <2>2, <3>3
  <2>3. CASE parent \notin 1 .. Len(grown)
    <3> HIDE DEF more, forest, parent
    <3>1. forest = grown
      BY <1>5, <2>1, <2>3
    <3> QED
      BY <1>5, <3>1
  <2> QED
    BY <2>2, <2>3
<1>7. map \in [DOMAIN c.solutionMap \cup {key} -> Nat \ {0}]
  BY <1>1 DEF CacheType, put
<1> HIDE DEF forest, map, parent
<1>8. d = [c EXCEPT !.forest = forest, !.solutionMap = map]
  BY DEF storeSolution, forest, map, grown, kids, leaves, node, parent
<1>9. /\ d.maxSignatures = c.maxSignatures /\ d.minSignatures = c.minSignatures
      /\ d.solutionMap = map /\ d.forest = forest
      /\ d = [maxSignatures |-> c.maxSignatures, minSignatures |-> c.minSignatures,
              solutionMap |-> map, forest |-> forest]
  BY <1>8 DEF CacheType
<1> HIDE DEF d
<1>10. CacheType(d)
  BY <1>6, <1>7, <1>9 DEF CacheType
<1> QED
  BY <1>1, <1>7, <1>9, <1>10 DEF d, parent

\* Recording that a reply of the last round is mated, and its solution.
LEMMA RecordMate ==
  ASSUME SigFaithful, NEW s, NEW c, StackOK(s, c), CacheType(c), CacheSound(c),
         NEW p \in MaxPos, MateMax(p) < levelsLeft(Len(s)),
         NEW move \in MinPos \cup {NoPos},
         NEW replies \in Seq(MaxPos), NEW trees \in Seq(Nat)
  PROVE  LET b == [c EXCEPT !.minSignatures =
                     updateCache(c.minSignatures, Sig(p),
                                 levelsLeft(Len(s)), CHECKMATE)]
             d == storeSolution(b, Sig(p), move, replies, trees)
         IN  /\ StackOK(s, d) /\ CacheType(d) /\ CacheSound(d)
             /\ SameMaxTable(c, d)
<1> DEFINE h == levelsLeft(Len(s))
           t == updateCache(c.minSignatures, Sig(p), h, CHECKMATE)
           b == [c EXCEPT !.minSignatures = t]
           d == storeSolution(b, Sig(p), move, replies, trees)
<1>1. h \in 1 .. Levels /\ h \in Int /\ CHECKMATE \in Scores
  BY LevelFacts, GameAssumption DEF StackOK, Scores
<1>2. isTable(c.minSignatures) /\ Sig(p) \in Sigs
  BY SearchAssumption DEF CacheType
<1>3. /\ isTable(t)
      /\ \A sig \in Sigs :
           /\ \/ bounds(t, sig).first = bounds(c.minSignatures, sig).first
              \/ bounds(t, sig).first = h
           /\ \/ bounds(t, sig).second = bounds(c.minSignatures, sig).second
              \/ sig = Sig(p) /\ bounds(t, sig).second = h
  BY <1>1, <1>2, UpdateFacts
<1> HIDE DEF t
<1>4. /\ b.maxSignatures = c.maxSignatures /\ b.minSignatures = t
      /\ b.solutionMap = c.solutionMap /\ b.forest = c.forest
      /\ b = [maxSignatures |-> c.maxSignatures, minSignatures |-> t,
              solutionMap |-> c.solutionMap, forest |-> c.forest]
  BY DEF CacheType
<1> HIDE DEF b
<1>5. CacheType(b)
  BY <1>3, <1>4 DEF CacheType
<1>6. /\ CacheType(d)
      /\ d.maxSignatures = c.maxSignatures /\ d.minSignatures = t
      /\ DOMAIN d.solutionMap = DOMAIN c.solutionMap \cup {Sig(p)}
  <2>1. /\ CacheType(d)
        /\ d.maxSignatures = b.maxSignatures /\ d.minSignatures = b.minSignatures
        /\ DOMAIN d.solutionMap = DOMAIN b.solutionMap \cup {Sig(p)}
    <3>1. CacheType(d)
      BY <1>2, <1>5, StoreFacts
    <3>2. d.maxSignatures = b.maxSignatures
      BY <1>2, <1>5, StoreFacts
    <3>3. d.minSignatures = b.minSignatures
      BY <1>2, <1>5, StoreFacts
    <3>4. DOMAIN d.solutionMap = DOMAIN b.solutionMap \cup {Sig(p)}
      BY <1>2, <1>5, StoreFacts
    <3> QED
      BY <3>1, <3>2, <3>3, <3>4
  <2> HIDE DEF d
  <2> QED
    BY <2>1, <1>4
<1> HIDE DEF d
<1>7. CacheSound(d)
  <2>1. ASSUME NEW x \in MaxPos, bounds(t, Sig(x)).second <= Levels
        PROVE  /\ MateMax(x) < bounds(t, Sig(x)).second
               /\ Sig(x) \in DOMAIN d.solutionMap
    <3>1. Sig(x) \in Sigs
      BY SearchAssumption
    <3>2. CASE bounds(t, Sig(x)).second = bounds(c.minSignatures, Sig(x)).second
      BY <1>6, <2>1, <3>2 DEF CacheSound
    <3>3. CASE Sig(x) = Sig(p) /\ bounds(t, Sig(x)).second = h
      BY <1>6, <3>3 DEF SigFaithful
    <3> QED
      BY <1>3, <3>1, <3>2, <3>3
  <2> QED
    BY <1>6, <2>1 DEF CacheSound
<1>8. StackOK(s, d)
  BY <1>3, <1>6, LaterCacheKeepsStack
<1> QED
  BY <1>6, <1>7, <1>8 DEF SameMaxTable, d, b, t

----------------------------------------------------------------------------
\* A step of the search, which leaves the levels of the root round alone,
\* leads to a state that satisfies the invariant.
LEMMA NextInv ==
  ASSUME levels' = levels,
         CacheType(cache'), CacheSound(cache'), StackOK(stack', cache'),
         ctl' = "min" => MinStepOK(stack'[Len(stack')], Len(stack'), cache'),
         ctl' \in Searching \cup Finished, score' \in Scores,
         ctl' \in {"return", "done"} /\ score' = CHECKMATE =>
           MateMax(stack'[Len(stack')].cur) <= levelsLeft(Len(stack'))
  PROVE  SearchInv'
<1>1. MateIsReal'
  BY DEF MateIsReal, top, levelsLeft
<1>2. StackOK(stack, cache)'
  BY DEF StackOK, MinStepOK, CallOK, levelsLeft
<1>3. (ctl = "min" => MinStepOK(top, Len(stack), cache))'
  BY DEF MinStepOK, levelsLeft, top
<1> QED
  BY <1>1, <1>2, <1>3 DEF SearchInv

\* The end of a minimising step, from wherever it is reached.
LEMMA EndMinStepKeeps ==
  ASSUME SigFaithful, NEW s, NEW c, StackOK(s, c), CacheType(c), CacheSound(c),
         NEW result \in Scores,
         s[Len(s)].step \in MaxMoves(s[Len(s)].cur),
         s[Len(s)].update =>
           bounds(c.maxSignatures, Sig(s[Len(s)].step)).first < levelsLeft(Len(s)),
         result = CHECKMATE => MateMin(s[Len(s)].step) <= levelsLeft(Len(s)),
         EndMinStep(s, c, result), levels' = levels
  PROVE  SearchInv'
<1> DEFINE f == s[Len(s)]
           n == Len(s)
<1>1. n \in 1 .. levels /\ n \in 1 .. Len(s) /\ levelsLeft(n) \in 1 .. Levels
  BY LevelFacts, GameAssumption DEF StackOK
<1>2. f.cur \in MaxPos /\ f.step \in MinPos
  BY <1>1, FrameTypes, GameAssumption
<1>3. f.update \in BOOLEAN
  BY <1>1, FrameTypes DEF Frames
<1>4. stack' = s
  BY DEF EndMinStep
<1>5. StackOK(stack', cache') /\ CacheType(cache') /\ CacheSound(cache')
  <2>1. CASE f.update
    BY <2>1, <1>2, <1>4, RecordMax DEF EndMinStep
  <2>2. CASE ~f.update
    BY <2>2, <1>4 DEF EndMinStep
  <2> QED
    BY <2>1, <2>2
<1>6. ctl' \in {"max", "return"} /\ score' = result
      /\ (ctl' = "return" => result = CHECKMATE)
  BY DEF EndMinStep
<1>7. result = CHECKMATE => MateMax(f.cur) <= levelsLeft(n)
  BY <1>1, <1>2, MateAssumption
<1> QED
  BY <1>4, <1>5, <1>6, <1>7, NextInv DEF Searching

\* A new round, and what it returns with if it has no moves.
LEMMA EntryFacts ==
  ASSUME NEW p \in MaxPos
  PROVE  /\ newFrame(p) \in Frames
         /\ newFrame(p).cur = p /\ RoundOK(newFrame(p))
         /\ entryCtl(p) \in {"max", "return"}
         /\ entryScore(p) \in Scores /\ entryScore(p) # CHECKMATE
<1>1. newFrame(p) \in Frames /\ newFrame(p).cur = p
  BY GameAssumption DEF newFrame, Frames
<1>2. RoundOK(newFrame(p))
  BY DEF RoundOK, newFrame
<1>3. entryCtl(p) \in {"max", "return"}
  BY DEF entryCtl
<1>4. entryScore(p) \in Scores /\ entryScore(p) # CHECKMATE
  BY DEF entryScore, Scores, NONE, STALLMATE, CHECKMATE
<1> QED
  BY <1>1, <1>2, <1>3, <1>4

\* A round is called for a reply that the cache has no answer for.
LEMMA PushKeepsStack ==
  ASSUME NEW s, NEW c, StackOK(s, c), MinStepOK(s[Len(s)], Len(s), c),
         levelsLeft(Len(s)) > 1, NEW p \in s[Len(s)].replies, p \in MaxPos,
         bounds(c.minSignatures, Sig(p)).first < levelsLeft(Len(s))
  PROVE  StackOK(Append(s, newFrame(p)), c)
<1> DEFINE n == Len(s)
           r == Append(s, newFrame(p))
<1>1. s \in Seq(Frames) /\ n \in 1 .. levels /\ n \in Nat /\ n + 1 \in 1 .. levels
  BY GameAssumption DEF StackOK, levelsLeft
<1>2. /\ r \in Seq(Frames) /\ Len(r) = n + 1 /\ r[n + 1] = newFrame(p)
      /\ \A i \in 1 .. n : r[i] = s[i]
  BY <1>1, EntryFacts
<1> HIDE DEF r
<1>3. ASSUME NEW i \in 1 .. n + 1
      PROVE  RoundOK(r[i])
  <2>1. CASE i = n + 1
    BY <1>2, <2>1, EntryFacts
  <2>2. CASE i # n + 1
    BY <1>1, <1>2, <2>2 DEF StackOK
  <2> QED
    BY <2>1, <2>2
<1>4. ASSUME NEW i \in 1 .. n
      PROVE  MinStepOK(r[i], i, c) /\ CallOK(r[i], r[i + 1], i, c)
  <2>1. CASE i = n
    <3>1. r[i] = s[n] /\ r[i + 1] = newFrame(p)
      BY <1>1, <1>2, <2>1
    <3>2. CallOK(s[n], newFrame(p), n, c)
      BY EntryFacts DEF CallOK
    <3> QED
      BY <2>1, <3>1, <3>2
  <2>2. CASE i # n
    <3>1. i \in 1 .. n - 1 /\ r[i] = s[i] /\ r[i + 1] = s[i + 1]
      BY <1>1, <1>2, <2>2
    <3> QED
      BY <3>1 DEF StackOK
  <2> QED
    BY <2>1, <2>2
<1> QED
  BY <1>1, <1>2, <1>3, <1>4 DEF StackOK, r

\* A round returns to the one that called it.
LEMMA PopKeepsStack ==
  ASSUME NEW s, NEW c, StackOK(s, c), Len(s) - 1 > 0
  PROVE  LET n == Len(s) - 1
             r == SubSeq(s, 1, n)
         IN  /\ StackOK(r, c) /\ Len(r) = n /\ r[n] = s[n]
             /\ n \in 1 .. levels /\ n \in 1 .. Len(s)
             /\ MinStepOK(s[n], n, c) /\ CallOK(s[n], s[Len(s)], n, c)
             /\ levelsLeft(n) > 1 /\ levelsLeft(Len(s)) = levelsLeft(n) - 1
<1> DEFINE n == Len(s) - 1
           r == SubSeq(s, 1, n)
<1>1. /\ s \in Seq(Frames) /\ n \in 1 .. levels /\ n \in Nat /\ n + 1 = Len(s)
      /\ n \in 1 .. Len(s) - 1
  BY GameAssumption DEF StackOK
<1>2. r \in Seq(Frames) /\ Len(r) = n /\ \A i \in 1 .. n : r[i] = s[i]
  BY <1>1
<1>3. levelsLeft(n) > 1 /\ levelsLeft(Len(s)) = levelsLeft(n) - 1
  BY <1>1, GameAssumption DEF StackOK, levelsLeft
<1>4. MinStepOK(s[n], n, c) /\ CallOK(s[n], s[Len(s)], n, c)
  BY <1>1 DEF StackOK
<1> HIDE DEF r
<1>5. \A i \in 1 .. n : RoundOK(r[i])
  BY <1>1, <1>2 DEF StackOK
<1>6. ASSUME NEW i \in 1 .. n - 1
      PROVE  MinStepOK(r[i], i, c) /\ CallOK(r[i], r[i + 1], i, c)
  <2>1. r[i] = s[i] /\ r[i + 1] = s[i + 1] /\ i \in 1 .. Len(s) - 1
    BY <1>1, <1>2
  <2> QED
    BY <2>1 DEF StackOK
<1>7. StackOK(r, c)
  BY <1>1, <1>2, <1>5, <1>6 DEF StackOK
<1> QED
  BY <1>1, <1>2, <1>3, <1>4, <1>7 DEF r

\* The frame of a round that has handled a reply.
LEMMA RepliedFacts ==
  ASSUME NEW f \in Frames, NEW p \in MaxPos, NEW t \in Seq(Nat)
  PROVE  LET g == replied(f, p, t)
         IN  /\ g \in Frames
             /\ g.cur = f.cur /\ g.left = f.left /\ g.step = f.step
             /\ g.update = f.update /\ g.replies = f.replies \ {p}
<1>1. Append(f.minStepStates, p) \in Seq(MaxPos)
  BY DEF Frames
<1>2. f.replies \ {p} \in SUBSET MaxPos
  BY DEF Frames
<1> QED
  BY <1>1, <1>2 DEF replied, Frames

----------------------------------------------------------------------------
\* The last frame of a sound stack.
LEMMA TopFacts ==
  ASSUME SearchInv
  PROVE  /\ StackOK(stack, cache) /\ Len(stack) \in 1 .. levels
         /\ levels \in 1 .. Levels
         /\ Len(stack) \in 1 .. Len(stack) /\ Len(stack) > 0
         /\ stack \in Seq(Frames)
         /\ top = stack[Len(stack)] /\ top \in Frames
         /\ top.cur \in MaxPos /\ top.left \subseteq MinPos
         /\ top.replies \subseteq MaxPos /\ top.trees \in Seq(Nat)
         /\ levelsLeft(Len(stack)) \in 1 .. Levels
         /\ levelsLeft(Len(stack)) \in Int
<1>1. /\ StackOK(stack, cache) /\ Len(stack) \in 1 .. levels
      /\ stack \in Seq(Frames) /\ levels \in 1 .. Levels
  BY DEF SearchInv, StackOK
<1>2. Len(stack) \in 1 .. Len(stack) /\ Len(stack) > 0
  BY <1>1, GameAssumption
<1>3. top = stack[Len(stack)] /\ top \in Frames
  BY <1>1, <1>2 DEF top
<1>4. /\ top.cur \in MaxPos /\ top.left \subseteq MinPos
      /\ top.replies \subseteq MaxPos /\ top.trees \in Seq(Nat)
  BY <1>3 DEF Frames
<1> QED
  BY <1>1, <1>2, <1>3, <1>4, LevelFacts, GameAssumption

\* What an answer of the cache says.
LEMMA AnswerFacts ==
  ASSUME NEW t, isTable(t), NEW sig \in Sigs, NEW h \in Int
  PROVE  LET a == getScoreFromCache(t, sig, h)
         IN  /\ a = MISS => bounds(t, sig).first < h
             /\ a = CHECKMATE => bounds(t, sig).second <= h
<1>1. bounds(t, sig) \in Bounds
  BY DEF isTable, bounds, Bounds, INT_MAX
<1>2. bounds(t, sig).first \in Int /\ bounds(t, sig).second \in Int
  BY <1>1 DEF Bounds
<1> QED
  BY <1>2 DEF getScoreFromCache, MISS, CHECKMATE, NONE

\* expandMaxStep passes over a circular move.
LEMMA SkipCircularKeeps ==
  ASSUME SearchInv, NEW q \in top.left, SkipCircular(q), levels' = levels
  PROVE  SearchInv'
<1> DEFINE f == [top EXCEPT !.left = @ \ {q}]
<1>1. f \in Frames /\ f.cur = top.cur /\ f.left \subseteq top.left
  BY TopFacts DEF Frames
<1> HIDE DEF f
<1>2. stack' = setTop(stack, f) /\ UNCHANGED <<cache, ctl, score>> /\ ctl = "max"
  BY DEF SkipCircular, f
<1>3. StackOK(stack', cache')
  BY <1>1, <1>2, TopFacts, SetTopKeepsStack
<1> QED
  BY <1>2, <1>3, NextInv DEF SearchInv

\* expandMaxStep makes a move.
LEMMA MaxStepKeeps ==
  ASSUME SearchInv, NEW q \in top.left, MaxStep(q), levels' = levels
  PROVE  SearchInv'
<1> DEFINE n == Len(stack)
           cached == getScoreFromCache(cache.maxSignatures, Sig(q), levelsLeft(n))
           miss == cached = MISS
           f == [top EXCEPT !.left = @ \ {q}, !.step = q,
                            !.replies = MinMoves(q),
                            !.minStepStates = << >>, !.trees = << >>,
                            !.update = miss]
<1>1. q \in MinPos /\ Sig(q) \in Sigs /\ MinMoves(q) \subseteq MaxPos
  BY TopFacts, GameAssumption, SearchAssumption
<1>2. miss \in BOOLEAN
  OBVIOUS
<1>3. miss => bounds(cache.maxSignatures, Sig(q)).first < levelsLeft(n)
  BY <1>1, TopFacts, AnswerFacts DEF SearchInv, CacheType
<1> HIDE DEF miss, cached
<1>4. /\ f \in Frames /\ f.cur = top.cur /\ f.left \subseteq top.left
      /\ f.step = q /\ f.replies = MinMoves(q) /\ f.update = miss
  <2>1. /\ top \in Frames /\ top.left \ {q} \in SUBSET MinPos
        /\ MinMoves(q) \in SUBSET MaxPos /\ q \in MinPos \cup {NoPos}
        /\ << >> \in Seq(MaxPos) /\ << >> \in Seq(Nat)
    BY <1>1, TopFacts
  <2>2. f \in Frames
    BY <1>2, <2>1 DEF Frames
  <2>3. f.cur = top.cur /\ f.left = top.left \ {q} /\ f.step = q
    BY <2>1 DEF Frames
  <2>4. f.replies = MinMoves(q)
    BY <2>1 DEF Frames
  <2>5. f.update = miss
    BY <2>1 DEF Frames
  <2> QED
    BY <2>2, <2>3, <2>4, <2>5
<1> HIDE DEF f
<1>5. /\ stack' = setTop(stack, f) /\ cache' = cache
      /\ ctl' \in {"max", "min"} /\ score' = NONE
  BY DEF MaxStep, f, miss, cached
<1>6. StackOK(stack', cache')
  BY <1>4, <1>5, TopFacts, SetTopKeepsStack
<1>7. q \in MaxMoves(top.cur)
  BY TopFacts DEF StackOK, RoundOK
<1>8. MinStepOK(f, n, cache)
  BY <1>3, <1>4, <1>7 DEF MinStepOK
<1>9. Len(stack') = n /\ stack'[n] = f
  BY <1>4, <1>5, TopFacts, SetTopFacts
<1>10. score' \in Scores /\ score' # CHECKMATE
  BY <1>5 DEF Scores, NONE, CHECKMATE
<1> QED
  BY <1>5, <1>6, <1>8, <1>9, <1>10, NextInv DEF SearchInv, Searching

\* expandMaxStep has no move left.
LEMMA MaxExhaustedKeeps ==
  ASSUME SearchInv, MaxExhausted, levels' = levels
  PROVE  SearchInv'
<1>1. NONE \in Scores /\ NONE # CHECKMATE
  BY DEF Scores, NONE, CHECKMATE
<1> QED
  BY <1>1, NextInv DEF SearchInv, MaxExhausted, Searching

\* A reply is found to escape without a search: on the last level, or because
\* the cache says so.
LEMMA ReplyEscapesKeeps ==
  ASSUME SigFaithful, SearchInv, ctl = "min", NEW p \in top.replies,
         EndMinStep(setTop(stack, replied(top, p, top.trees)), cache, NONE),
         levels' = levels
  PROVE  SearchInv'
<1> DEFINE n == Len(stack)
           f == replied(top, p, top.trees)
           s == setTop(stack, f)
<1>1. /\ f \in Frames /\ f.cur = top.cur /\ f.left = top.left
      /\ f.step = top.step /\ f.update = top.update
  BY TopFacts, RepliedFacts
<1> HIDE DEF f
<1>2. StackOK(s, cache)
  BY <1>1, TopFacts, SetTopKeepsStack
<1>3. Len(s) = n /\ s[n] = f
  BY <1>1, TopFacts, SetTopFacts
<1>4. MinStepOK(top, n, cache) /\ CacheType(cache) /\ CacheSound(cache)
  BY DEF SearchInv
<1>5. NONE \in Scores /\ NONE # CHECKMATE
  BY DEF Scores, NONE, CHECKMATE
<1>6. EndMinStep(s, cache, NONE)
  BY DEF f
<1> HIDE DEF s
<1>7. s[Len(s)].step \in MaxMoves(s[Len(s)].cur)
  BY <1>1, <1>3, <1>4 DEF MinStepOK
<1>8. s[Len(s)].update =>
        bounds(cache.maxSignatures, Sig(s[Len(s)].step)).first < levelsLeft(Len(s))
  BY <1>1, <1>3, <1>4 DEF MinStepOK
<1> QED
  BY <1>2, <1>4, <1>5, <1>6, <1>7, <1>8, EndMinStepKeeps

\* The cache knows a mate after the reply, and its solution.
LEMMA MinReplyMatedKeeps ==
  ASSUME SearchInv, NEW p \in top.replies, MinReplyMated(p), levels' = levels
  PROVE  SearchInv'
<1> DEFINE n   == Len(stack)
           sol == getSolution(cache, Sig(p))
           t   == Append(top.trees, sol)
           f   == replied(top, p, t)
<1>1. p \in MaxPos /\ Sig(p) \in Sigs /\ MateMax(p) \in Nat
  BY TopFacts, GameAssumption, SearchAssumption, MateAssumption
<1>2. bounds(cache.minSignatures, Sig(p)).second <= levelsLeft(n)
  BY <1>1, TopFacts, AnswerFacts DEF SearchInv, CacheType, MinReplyMated
<1>3. bounds(cache.minSignatures, Sig(p)).second \in Int
  <2>1. bounds(cache.minSignatures, Sig(p)) \in Bounds
    BY <1>1 DEF SearchInv, CacheType, isTable, bounds, Bounds, INT_MAX
  <2> QED
    BY <2>1 DEF Bounds
<1>4. /\ MateMax(p) < bounds(cache.minSignatures, Sig(p)).second
      /\ Sig(p) \in DOMAIN cache.solutionMap
  BY <1>1, <1>2, <1>3, TopFacts, GameAssumption DEF SearchInv, CacheSound
<1>5. MateMax(p) <= levelsLeft(n) - 1 /\ levelsLeft(n) > 1
  BY <1>1, <1>2, <1>3, <1>4, TopFacts DEF MinReplyMated
<1>6. sol \in Nat /\ sol # NULL_INDEX
  BY <1>4 DEF SearchInv, CacheType, getSolution, NULL_INDEX
<1>7. /\ stack' = setTop(stack, f) /\ UNCHANGED <<cache, score>>
      /\ ctl = "min" /\ ctl' = "min"
  BY <1>6 DEF MinReplyMated
<1> HIDE DEF sol
<1>8. t \in Seq(Nat)
  BY <1>6, TopFacts
<1> HIDE DEF t
<1>9. /\ f \in Frames /\ f.cur = top.cur /\ f.left = top.left
      /\ f.step = top.step /\ f.update = top.update
      /\ f.replies = top.replies \ {p}
  <2>1. top \in Frames
    BY TopFacts
  <2> QED
    BY <1>1, <1>8, <2>1, RepliedFacts
<1> HIDE DEF f
<1>10. StackOK(stack', cache)
  BY <1>7, <1>9, TopFacts, SetTopKeepsStack
<1>11. Len(stack') = n /\ stack'[n] = f
  BY <1>7, <1>9, TopFacts, SetTopFacts
<1>12. MinStepOK(top, n, cache)
  BY <1>7 DEF SearchInv
<1>13. MinStepOK(f, n, cache)
  BY <1>5, <1>9, <1>12 DEF MinStepOK
<1> QED
  BY <1>7, <1>10, <1>11, <1>13, NextInv DEF SearchInv

\* A reply is searched by a round of its own.
LEMMA MinReplyExpandKeeps ==
  ASSUME SearchInv, NEW p \in top.replies, MinReplyExpand(p), levels' = levels
  PROVE  SearchInv'
<1>1. p \in MaxPos /\ Sig(p) \in Sigs
  BY TopFacts, GameAssumption, SearchAssumption
<1>2. bounds(cache.minSignatures, Sig(p)).first < levelsLeft(Len(stack))
  BY <1>1, TopFacts, AnswerFacts DEF SearchInv, CacheType, MinReplyExpand
<1>3. MinStepOK(stack[Len(stack)], Len(stack), cache)
  BY TopFacts DEF SearchInv, MinReplyExpand
<1>4. levelsLeft(Len(stack)) > 1
  BY DEF MinReplyExpand
<1>5. p \in stack[Len(stack)].replies
  BY TopFacts
<1>6. stack' = Append(stack, newFrame(p)) /\ cache' = cache
      /\ ctl' = entryCtl(p) /\ score' = entryScore(p)
  BY DEF MinReplyExpand
<1>7. StackOK(stack', cache')
  BY <1>1, <1>2, <1>3, <1>4, <1>5, <1>6, TopFacts, PushKeepsStack
<1>8. /\ ctl' \in {"max", "return"}
      /\ score' \in Scores /\ score' # CHECKMATE
  BY <1>1, <1>6, EntryFacts
<1> QED
  BY <1>6, <1>7, <1>8, NextInv DEF SearchInv, Searching

\* All replies have been handled.
LEMMA MinExhaustedKeeps ==
  ASSUME SigFaithful, SearchInv, MinExhausted, levels' = levels
  PROVE  SearchInv'
<1> DEFINE n == Len(stack)
           result == IF MinChecked(top.step) \/ MinMoves(top.step) # {}
                       THEN CHECKMATE ELSE STALLMATE
<1>1. /\ MinStepOK(top, n, cache) /\ top.replies = {}
      /\ EndMinStep(stack, cache, result)
  BY DEF SearchInv, MinExhausted
<1>2. result \in Scores /\ STALLMATE # CHECKMATE
  BY DEF Scores, STALLMATE, CHECKMATE
<1>3. top.step \in MinPos
  BY <1>1, TopFacts, GameAssumption DEF MinStepOK
<1>4. ASSUME result = CHECKMATE
      PROVE  MateMin(top.step) <= levelsLeft(n)
  <2>1. CASE MinMoves(top.step) = {}
    BY <1>2, <1>3, <1>4, <2>1, TopFacts, MateAssumption
  <2>2. CASE MinMoves(top.step) # {}
    <3>1. /\ levelsLeft(n) > 1
          /\ \A p \in MinMoves(top.step) : MateMax(p) <= levelsLeft(n) - 1
      BY <1>1, <2>2 DEF MinStepOK
    <3> QED
      BY <1>3, <2>2, <3>1, TopFacts, MateAssumption
  <2> QED
    BY <2>1, <2>2
<1>5. CacheType(cache) /\ CacheSound(cache) /\ StackOK(stack, cache)
  BY DEF SearchInv
<1>6. top = stack[Len(stack)]
  BY DEF top
<1> HIDE DEF result
<1>7. /\ stack[Len(stack)].step \in MaxMoves(stack[Len(stack)].cur)
      /\ stack[Len(stack)].update =>
           bounds(cache.maxSignatures, Sig(stack[Len(stack)].step)).first
             < levelsLeft(Len(stack))
  BY <1>1, <1>6 DEF MinStepOK
<1> QED
  BY <1>1, <1>2, <1>4, <1>5, <1>6, <1>7, EndMinStepKeeps

\* handleMinStepBoard, after a search of the reply that found no mate.
LEMMA ChildEscapesKeeps ==
  ASSUME SigFaithful, SearchInv, ChildEscapes, levels' = levels
  PROVE  SearchInv'
<1> DEFINE n == Len(stack) - 1
           p == top.cur
           s == SubSeq(stack, 1, n)
           g == stack[n]
           f == replied(g, p, g.trees)
           r == setTop(s, f)
           d == [cache EXCEPT !.minSignatures =
                   updateCache(cache.minSignatures, Sig(p), levelsLeft(n), score)]
<1>1. /\ n > 0 /\ score # CHECKMATE /\ score \in Scores
      /\ CacheType(cache) /\ CacheSound(cache) /\ StackOK(stack, cache)
      /\ EndMinStep(r, d, score)
  BY DEF ChildEscapes, SearchInv
<1>2. /\ StackOK(s, cache) /\ Len(s) = n /\ s[n] = g
      /\ n \in 1 .. levels /\ n \in 1 .. Len(stack)
      /\ MinStepOK(g, n, cache) /\ CallOK(g, top, n, cache)
  BY <1>1, TopFacts, PopKeepsStack
<1>3. p \in MaxPos
  BY TopFacts
<1> HIDE DEF s
<1>4. StackOK(s, d) /\ CacheType(d) /\ CacheSound(d)
      /\ d.maxSignatures = cache.maxSignatures
  <2>1. bounds(cache.minSignatures, Sig(p)).first < levelsLeft(Len(s))
    BY <1>2 DEF CallOK
  <2> HIDE DEF p
  <2> QED
    BY <1>1, <1>2, <1>3, <2>1, RecordEscape
<1> HIDE DEF d
<1>5. g \in Frames /\ g.trees \in Seq(Nat)
  <2>1. g \in Frames
    BY <1>1, <1>2, FrameTypes
  <2> QED
    BY <2>1 DEF Frames
<1>6. /\ f \in Frames /\ f.cur = g.cur /\ f.left = g.left
      /\ f.step = g.step /\ f.update = g.update
  BY <1>3, <1>5, RepliedFacts
<1> HIDE DEF f, g
<1>7. StackOK(r, d)
  BY <1>2, <1>4, <1>6, SetTopKeepsStack
<1>8. Len(r) = n /\ r[n] = f
  BY <1>1, <1>2, <1>6, SetTopFacts DEF StackOK
<1> HIDE DEF r
<1>9. r[Len(r)].step \in MaxMoves(r[Len(r)].cur)
  BY <1>2, <1>6, <1>8 DEF MinStepOK
<1>10. r[Len(r)].update =>
         bounds(d.maxSignatures, Sig(r[Len(r)].step)).first < levelsLeft(Len(r))
  BY <1>2, <1>4, <1>6, <1>8 DEF MinStepOK
<1> QED
  BY <1>1, <1>4, <1>7, <1>9, <1>10, EndMinStepKeeps

\* handleMinStepBoard, after a search of the reply that found a mate.
LEMMA ChildMatedKeeps ==
  ASSUME SigFaithful, SearchInv, ChildMated, levels' = levels
  PROVE  SearchInv'
<1> DEFINE n == Len(stack) - 1
           p == top.cur
           s == SubSeq(stack, 1, n)
           g == stack[n]
           k == keyIndex(cache, Sig(p))
           t == Append(g.trees, k)
           f == replied(g, p, t)
           b == [cache EXCEPT !.minSignatures =
                   updateCache(cache.minSignatures, Sig(p), levelsLeft(n), CHECKMATE)]
           d == storeSolution(b, Sig(p), top.step, top.minStepStates, top.trees)
<1>1. /\ n > 0 /\ score = CHECKMATE /\ ctl = "return"
      /\ CacheType(cache) /\ CacheSound(cache) /\ StackOK(stack, cache)
      /\ cache' = d /\ stack' = setTop(s, f)
      /\ ctl' = "min" /\ score' = score /\ score \in Scores
  BY DEF ChildMated, SearchInv
<1>2. /\ StackOK(s, cache) /\ Len(s) = n /\ s[n] = g
      /\ n \in 1 .. levels /\ n \in 1 .. Len(stack)
      /\ MinStepOK(g, n, cache) /\ CallOK(g, top, n, cache)
      /\ levelsLeft(n) > 1 /\ levelsLeft(Len(stack)) = levelsLeft(n) - 1
  BY <1>1, TopFacts, PopKeepsStack
<1>3. /\ p \in MaxPos /\ top.step \in MinPos \cup {NoPos}
      /\ top.minStepStates \in Seq(MaxPos) /\ top.trees \in Seq(Nat)
  BY TopFacts DEF Frames
<1>4. MateMax(p) <= levelsLeft(n) - 1 /\ MateMax(p) < levelsLeft(n)
  <2>1. MateMax(p) <= levelsLeft(Len(stack))
    BY <1>1 DEF SearchInv, MateIsReal
  <2>2. MateMax(p) \in Nat /\ levelsLeft(n) \in Int
    BY <1>2, <1>3, TopFacts, MateAssumption, LevelFacts
  <2> QED
    BY <1>2, <2>1, <2>2
<1> HIDE DEF s
<1>5. StackOK(s, d) /\ CacheType(d) /\ CacheSound(d)
      /\ d.maxSignatures = cache.maxSignatures
  <2>1. MateMax(p) < levelsLeft(Len(s))
    BY <1>2, <1>4
  <2> HIDE DEF p, n
  <2>2. Len(s) = n
    BY <1>2
  <2>3. StackOK(s, d)
    BY <1>1, <1>2, <1>3, <2>1, <2>2, RecordMate
  <2>4. CacheType(d)
    BY <1>1, <1>2, <1>3, <2>1, <2>2, RecordMate
  <2>5. CacheSound(d)
    BY <1>1, <1>2, <1>3, <2>1, <2>2, RecordMate
  <2>6. SameMaxTable(cache, d)
    BY <1>1, <1>2, <1>3, <2>1, <2>2, RecordMate
  <2> QED
    BY <2>3, <2>4, <2>5, <2>6 DEF SameMaxTable
<1> HIDE DEF d
<1>6. g \in Frames /\ g.trees \in Seq(Nat)
  <2>1. g \in Frames
    BY <1>1, <1>2, FrameTypes
  <2> QED
    BY <2>1 DEF Frames
<1>7. t \in Seq(Nat)
  <2>1. k \in Nat
    BY <1>1 DEF CacheType, keyIndex
  <2> QED
    BY <1>6, <2>1
<1> HIDE DEF t, k
<1>8. /\ f \in Frames /\ f.cur = g.cur /\ f.left = g.left
      /\ f.step = g.step /\ f.update = g.update /\ f.replies = g.replies \ {p}
  BY <1>3, <1>6, <1>7, RepliedFacts
<1> HIDE DEF f, g
<1>9. StackOK(stack', cache')
  BY <1>1, <1>2, <1>5, <1>8, SetTopKeepsStack
<1>10. Len(stack') = n /\ stack'[n] = f
  <2>1. s \in Seq(Frames) /\ Len(s) > 0
    BY <1>1, <1>2 DEF StackOK
  <2> QED
    BY <1>1, <1>2, <1>8, <2>1, SetTopFacts
<1>11. MinStepOK(f, n, cache')
  BY <1>1, <1>2, <1>4, <1>5, <1>8 DEF MinStepOK
<1> QED
  BY <1>1, <1>5, <1>9, <1>10, <1>11, NextInv DEF Searching

----------------------------------------------------------------------------
\* The first round, on an empty cache.
LEMMA SearchInit == Init => SearchInv
<1> SUFFICES ASSUME Init
             PROVE  SearchInv
  OBVIOUS
<1>1. PICK p \in RootPos : /\ stack = <<newFrame(p)>>
                           /\ ctl = entryCtl(p) /\ score = entryScore(p)
  BY DEF Init
<1>2. p \in MaxPos /\ levels \in 1 .. Levels
  BY GameAssumption DEF Init
<1>3. /\ ctl \in {"max", "return"}
      /\ score \in Scores /\ score # CHECKMATE
  BY <1>1, <1>2, EntryFacts
<1>4. CacheType(cache)
  BY DEF Init, emptyCache, CacheType, isTable
<1>5. CacheSound(cache)
  <2>1. \A sig \in Sigs : /\ bounds(cache.maxSignatures, sig).second = INT_MAX
                          /\ bounds(cache.minSignatures, sig).second = INT_MAX
    BY DEF Init, emptyCache, bounds
  <2>2. ~(INT_MAX <= Levels)
    BY GameAssumption, SearchAssumption DEF INT_MAX
  <2> QED
    BY <2>1, <2>2, GameAssumption, SearchAssumption DEF CacheSound
<1>6. StackOK(stack, cache)
  <2>1. stack \in Seq(Frames) /\ Len(stack) = 1 /\ stack[1] = newFrame(p)
    BY <1>1, <1>2, EntryFacts
  <2> QED
    BY <1>2, <2>1, EntryFacts, GameAssumption DEF StackOK
<1> QED
  BY <1>3, <1>4, <1>5, <1>6 DEF SearchInv, MateIsReal, Searching

\* A new root round, on the cache that the earlier searches have left.
LEMMA NewSearchKeeps ==
  ASSUME SearchInv, NEW p \in RootPos, NEW l \in 1 .. Levels, NewSearch(p, l)
  PROVE  SearchInv'
<1>1. p \in MaxPos
  BY GameAssumption
<1>2. /\ levels' = l /\ stack' = <<newFrame(p)>> /\ cache' = cache
      /\ ctl' = entryCtl(p) /\ score' = entryScore(p)
  BY DEF NewSearch
<1>3. /\ ctl' \in {"max", "return"}
      /\ score' \in Scores /\ score' # CHECKMATE
  BY <1>1, <1>2, EntryFacts
<1>4. StackOK(stack, cache)'
  <2>1. /\ stack' \in Seq(Frames) /\ Len(stack') = 1 /\ stack'[1] = newFrame(p)
        /\ levels' \in 1 .. Levels
    BY <1>1, <1>2, EntryFacts
  <2> QED
    BY <1>1, <2>1, EntryFacts, GameAssumption DEF StackOK
<1>5. CacheType(cache') /\ CacheSound(cache')
  BY <1>2 DEF SearchInv
<1> QED
  BY <1>3, <1>4, <1>5 DEF SearchInv, MateIsReal, Searching

\* Every step of the process preserves the invariant.
LEMMA StepKeeps ==
  ASSUME SigFaithful, SearchInv, [Next]_vars
  PROVE  SearchInv'
<1>1. CASE SearchStep
  <2>1. levels' = levels
    BY <1>1 DEF SearchStep
  <2>2. ASSUME NEW q \in top.left, SkipCircular(q) \/ MaxStep(q)
        PROVE  SearchInv'
    BY <2>1, <2>2, SkipCircularKeeps, MaxStepKeeps
  <2>3. CASE MaxExhausted
    BY <2>1, <2>3, MaxExhaustedKeeps
  <2>4. ASSUME NEW p \in top.replies,
               \/ MinReplyLast(p) \/ MinReplyEscapes(p)
               \/ MinReplyMated(p) \/ MinReplyExpand(p)
        PROVE  SearchInv'
    <3>1. CASE MinReplyLast(p)
      BY <2>1, <3>1, ReplyEscapesKeeps DEF MinReplyLast
    <3>2. CASE MinReplyEscapes(p)
      BY <2>1, <3>2, ReplyEscapesKeeps DEF MinReplyEscapes
    <3>3. CASE MinReplyMated(p)
      BY <2>1, <3>3, MinReplyMatedKeeps
    <3>4. CASE MinReplyExpand(p)
      BY <2>1, <3>4, MinReplyExpandKeeps
    <3> QED
      BY <2>4, <3>1, <3>2, <3>3, <3>4
  <2>5. CASE MinExhausted
    BY <2>1, <2>5, MinExhaustedKeeps
  <2>6. CASE ChildEscapes
    BY <2>1, <2>6, ChildEscapesKeeps
  <2>7. CASE ChildMated
    BY <2>1, <2>7, ChildMatedKeeps
  <2>8. CASE RootReturn
    BY <2>1, <2>8, NextInv DEF RootReturn, SearchInv, MateIsReal, top, Finished
  <2> QED
    BY <1>1, <2>2, <2>3, <2>4, <2>5, <2>6, <2>7, <2>8 DEF SearchStep
<1>2. CASE PrintPath
  BY <1>2, NextInv DEF PrintPath, SearchInv, Finished
<1>3. ASSUME NEW p \in RootPos, NEW l \in 1 .. Levels, NewSearch(p, l)
      PROVE  SearchInv'
  BY <1>3, NewSearchKeeps
<1>4. CASE UNCHANGED vars
  BY <1>4, NextInv DEF vars, SearchInv, MateIsReal, top
<1> QED
  BY <1>1, <1>2, <1>3, <1>4 DEF Next

\* The invariant holds in every state of the search.
THEOREM SearchInvariant ==
  ASSUME SigFaithful
  PROVE  Spec => []SearchInv
<1>1. SearchInv /\ [Next]_vars => SearchInv'
  BY StepKeeps
<1> QED
  BY <1>1, SearchInit, PTL DEF Spec

\* The stack never outgrows the levels, and the tables and scores keep their
\* types.
THEOREM SearchTypeCorrect ==
  ASSUME SigFaithful
  PROVE  Spec => []TypeOK
<1>1. SearchInv => TypeOK
  BY DEF SearchInv, StackOK, CacheType, TypeOK
<1> QED
  BY <1>1, SearchInvariant, PTL

\* expand returns CHECKMATE only for a board with a forced mate within the
\* levels it was given, in every game.
THEOREM MateSound ==
  ASSUME SigFaithful
  PROVE  Spec => []MateIsReal
<1>1. SearchInv => MateIsReal
  BY DEF SearchInv
<1> QED
  BY <1>1, SearchInvariant, PTL

\* The mate bounds of the shared tables are facts, in every game: the branch
\* of updateCache that ignores the score is never reached by a non-mate.
THEOREM TablesSound ==
  ASSUME SigFaithful
  PROVE  Spec => []MateBoundsSound
<1>1. SearchInv => MateBoundsSound
  BY DEF SearchInv, CacheSound, MateBoundsSound
<1> QED
  BY <1>1, SearchInvariant, PTL

\* The CHECK_NE on a cached mate's solution never fails, in every game.
THEOREM SearchNeverAborts ==
  ASSUME SigFaithful
  PROVE  Spec => []NeverAborts
<1>1. SearchInv => NeverAborts
  BY DEF SearchInv, NeverAborts, Searching, Finished
<1> QED
  BY <1>1, SearchInvariant, PTL
----------------------------------------------------------------------------
(***************************************************************************)
(* The search implements the sound solver.                                 *)
(***************************************************************************)

\* The root round keeps its board while it is expanded.
LEMMA RootStays ==
  ASSUME SearchInv, SearchStep
  PROVE  stack'[1].cur = stack[1].cur /\ levels' = levels
<1>1. stack \in Seq(Frames) /\ Len(stack) \in Nat \ {0}
  BY DEF SearchInv, StackOK
<1>2. levels' = levels
  BY DEF SearchStep
<1>3. ASSUME NEW s \in Seq(Frames), Len(s) > 0, NEW f, f.cur = s[Len(s)].cur,
             s[1].cur = stack[1].cur
      PROVE  setTop(s, f)[1].cur = stack[1].cur
  BY <1>3 DEF setTop
<1>4. top \in Frames
  BY <1>1 DEF top
<1>5. ASSUME NEW q, SkipCircular(q)
      PROVE  stack'[1].cur = stack[1].cur
  <2> DEFINE f == [top EXCEPT !.left = @ \ {q}]
  <2>1. f.cur = top.cur
    BY <1>4 DEF Frames
  <2>2. stack' = setTop(stack, f)
    BY <1>5 DEF SkipCircular
  <2> HIDE DEF f
  <2> QED
    BY <1>1, <1>3, <2>1, <2>2 DEF top
<1>6. ASSUME NEW q, MaxStep(q)
      PROVE  stack'[1].cur = stack[1].cur
  <2> DEFINE miss == getScoreFromCache(cache.maxSignatures, Sig(q),
                                       levelsLeft(Len(stack))) = MISS
             f == [top EXCEPT !.left = @ \ {q}, !.step = q,
                              !.replies = MinMoves(q),
                              !.minStepStates = << >>, !.trees = << >>,
                              !.update = miss]
  <2> HIDE DEF miss
  <2>1. f.cur = top.cur
    BY <1>4 DEF Frames
  <2> HIDE DEF f
  <2>2. stack' = setTop(stack, f)
    BY <1>6 DEF MaxStep, f, miss
  <2> QED
    BY <1>1, <1>3, <2>1, <2>2 DEF top
<1>7. ASSUME NEW f \in Frames, NEW p, NEW trees
      PROVE  replied(f, p, trees).cur = f.cur
  BY <1>7 DEF replied, Frames
<1>8. ASSUME NEW p, MinReplyLast(p) \/ MinReplyEscapes(p) \/ MinReplyMated(p)
      PROVE  stack'[1].cur = stack[1].cur
  <2>1. \E trees : stack' = setTop(stack, replied(top, p, trees))
    BY <1>8 DEF MinReplyLast, MinReplyEscapes, MinReplyMated, EndMinStep
  <2> QED
    BY <1>1, <1>3, <1>4, <1>7, <2>1 DEF top
<1>9. ASSUME NEW p, MinReplyExpand(p)
      PROVE  stack'[1].cur = stack[1].cur
  BY <1>1, <1>9 DEF MinReplyExpand
<1>10. ASSUME ChildEscapes \/ ChildMated
       PROVE  stack'[1].cur = stack[1].cur
  <2> DEFINE n == Len(stack) - 1
             s == SubSeq(stack, 1, n)
             t == Append(stack[n].trees, keyIndex(cache, Sig(top.cur)))
  <2>1. \/ stack' = setTop(s, replied(stack[n], top.cur, stack[n].trees))
        \/ stack' = setTop(s, replied(stack[n], top.cur, t))
    BY <1>10 DEF ChildEscapes, ChildMated, EndMinStep
  <2>2. n \in Nat \ {0} /\ n \in 1 .. Len(stack) /\ 1 \in 1 .. n
    <3>1. n > 0
      BY <1>10 DEF ChildEscapes, ChildMated
    <3>2. ASSUME NEW m \in Nat, m - 1 > 0
          PROVE  m - 1 \in Nat \ {0} /\ m - 1 \in 1 .. m /\ 1 \in 1 .. m - 1
      BY <3>2
    <3> QED
      BY <1>1, <3>1, <3>2
  <2>3. s \in Seq(Frames) /\ Len(s) = n /\ \A i \in 1 .. n : s[i] = stack[i]
    BY <1>1, <2>2
  <2>4. stack[n] \in Frames
    BY <1>1, <2>2
  <2> HIDE DEF n, s, t
  <2> QED
    BY <1>3, <1>7, <2>1, <2>2, <2>3, <2>4
<1>11. ASSUME MaxExhausted \/ MinExhausted \/ RootReturn
       PROVE  stack'[1].cur = stack[1].cur
  BY <1>11 DEF MaxExhausted, MinExhausted, EndMinStep, RootReturn
<1> QED
  BY <1>2, <1>5, <1>6, <1>8, <1>9, <1>10, <1>11 DEF SearchStep

\* expand takes its steps before it is finished.
LEMMA StepsSearch == SearchStep => ctl \in Searching
BY DEF SearchStep, Searching, SkipCircular, MaxStep, MaxExhausted,
   MinReplyLast, MinReplyEscapes, MinReplyMated, MinReplyExpand,
   MinExhausted, ChildEscapes, ChildMated, RootReturn

\* Only the root round's return finishes a search.
LEMMA OnlyReturnFinishes ==
  ASSUME SearchStep, ctl' \in Finished
  PROVE  RootReturn
<1>1. ctl \in Searching /\ ctl' \notin Searching
  BY StepsSearch DEF Searching, Finished
<1>2. ASSUME NEW q, SkipCircular(q) \/ MaxStep(q)  PROVE  FALSE
  BY <1>1, <1>2 DEF SkipCircular, MaxStep, Searching
<1>3. ASSUME NEW p, MinReplyLast(p) \/ MinReplyEscapes(p)
                      \/ MinReplyMated(p) \/ MinReplyExpand(p)
      PROVE  FALSE
  BY <1>1, <1>3 DEF MinReplyLast, MinReplyEscapes, MinReplyMated,
     MinReplyExpand, EndMinStep, entryCtl, Searching, Finished
<1>4. ASSUME MaxExhausted \/ MinExhausted \/ ChildMated  PROVE  FALSE
  BY <1>1, <1>4 DEF MaxExhausted, MinExhausted, ChildMated, EndMinStep, Searching
<1>5. ASSUME ChildEscapes  PROVE  FALSE
  BY <1>1, <1>5 DEF ChildEscapes, EndMinStep, Searching
<1> QED
  BY <1>2, <1>3, <1>4, <1>5 DEF SearchStep

\* Every step of the search is a step of the sound solver, or one that the
\* solver does not see.
LEMMA StepImplementsSound ==
  ASSUME SearchInv, SearchInv', [Next]_vars
  PROVE  [Contract!Answer \/ Contract!Ask]_(Contract!vars)
<1>1. CASE SearchStep
  <2>1. stack'[1].cur = stack[1].cur /\ levels' = levels
    BY <1>1, RootStays
  <2>2. ctl \in Searching
    BY <1>1, StepsSearch
  <2>3. CASE ctl' \in Searching
    BY <2>1, <2>2, <2>3 DEF Contract!vars, Searching, Finished
  <2>4. CASE ctl' \in Finished
    <3>1. RootReturn
      BY <1>1, <2>4, OnlyReturnFinishes
    <3>2. score' = CHECKMATE => MateMax(stack[1].cur) <= levels
      BY <2>1, <3>1 DEF RootReturn, SearchInv, StackOK, MateIsReal, top, levelsLeft
    <3> QED
      BY <2>1, <2>2, <3>1, <3>2
      DEF RootReturn, Contract!Answer, Contract!Sound, Searching, Finished
  <2> QED
    BY <2>3, <2>4 DEF SearchInv
<1>2. CASE PrintPath
  BY <1>2 DEF PrintPath, Contract!vars, Finished
<1>3. ASSUME NEW p \in RootPos, NEW l \in 1 .. Levels, NewSearch(p, l)
      PROVE  Contract!Ask
  <2>1. ctl \in Finished /\ ctl' \notin Finished
    BY <1>3 DEF NewSearch, Finished, entryCtl
  <2>2. levels' = l /\ stack'[1].cur = p
    BY <1>3 DEF NewSearch, newFrame
  <2> QED
    BY <2>1, <2>2 DEF Contract!Ask
<1>4. CASE UNCHANGED vars
  BY <1>4 DEF vars, Contract!vars
<1> QED
  BY <1>1, <1>2, <1>3, <1>4 DEF Next

\* In every game, one search after the other on the same cache, the search
\* implements a solver that announces no mate that is not there.
THEOREM SearchImplementsSound ==
  ASSUME SigFaithful
  PROVE  Spec => ImplementsSound
<1>1. Init => Contract!Init
  <2> SUFFICES ASSUME Init PROVE Contract!Init
    OBVIOUS
  <2>1. ctl \notin Finished
    BY DEF Init, Finished, entryCtl
  <2>2. stack[1].cur \in RootPos /\ levels \in 1 .. Levels
    BY DEF Init, newFrame
  <2> QED
    BY <2>1, <2>2 DEF Contract!Init
<1>2. SearchInv /\ SearchInv' /\ [Next]_vars =>
        [Contract!Answer \/ Contract!Ask]_(Contract!vars)
  BY StepImplementsSound
<1> QED
  BY <1>1, <1>2, SearchInvariant, PTL DEF Spec, ImplementsSound, Contract!SoundSpec
=============================================================================
