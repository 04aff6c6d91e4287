---------------------------- MODULE MateSearch ----------------------------
(***************************************************************************)
(* The depth-first search of class OneRound (chess/one_round.cc): expand,  *)
(* expandMaxStep, expandMinStep, handleMinStepBoard and the shared cache.  *)
(*                                                                         *)
(* The C++ recursion is a stack of frames, one per OneRound object.  The   *)
(* heuristic that orders the maximising moves and the board order of the   *)
(* minimising moves are a parameter: Order(S, x) says that x may be tried  *)
(* first among the untried boards S.                                       *)
(***************************************************************************)
EXTENDS MateGame, SolutionCache

CONSTANTS
  Order(_, _),         \* a board that may be tried next among untried ones
  Circular(_, _, _),   \* isCircularMove: previous step, board, next step
  Sig(_),              \* Board::hash
  Follows(_, _),       \* a process may search the second board after the first
  NoPos                \* a null board pointer

ASSUME SearchAssumption ==
  /\ Levels < INT_MAX
  /\ NoPos \notin MaxPos \cup MinPos
  /\ \A s \in MaxPos \cup MinPos : Sig(s) \in Sigs

\* Boards with equal signatures are alike for the search.  Board::hash covers
\* the squares only, so this holds of lines of play in which the last move
\* gives no right to take en passant.
SigFaithful ==
  /\ \A p1, p2 \in MaxPos : Sig(p1) = Sig(p2) =>
       MateMax(p1) = MateMax(p2) /\ MaxMoves(p1) = MaxMoves(p2)
  /\ \A q1, q2 \in MinPos : Sig(q1) = Sig(q2) => MateMin(q1) = MateMin(q2)

VARIABLES
  levels,   \* the argument of the root round's expand
  stack,    \* the live OneRound objects, the root first
  cache,    \* OneRound::cache_
  ctl,      \* where the top round is, or how the search has ended
  score     \* the score being returned when ctl is "return" or "done"

vars == <<levels, stack, cache, ctl, score>>

Searching == {"max", "min", "return"}
Finished  == {"done", "printed", "crash"}

Frames == [cur : MaxPos, left : SUBSET MinPos, step : MinPos \cup {NoPos},
           replies : SUBSET MaxPos, minStepStates : Seq(MaxPos),
           trees : Seq(Nat), update : BOOLEAN]

----------------------------------------------------------------------------
top == stack[Len(stack)]

\* The stack s with its last frame replaced by f.
setTop(s, f) == [s EXCEPT ![Len(s)] = f]

\* levelsLeft in the i-th round of the stack.
levelsLeft(i) == levels - i + 1

\* The maxStepState_ of the round below the top; the root round has no parent.
parentStep == IF Len(stack) > 1 THEN stack[Len(stack) - 1].step ELSE NoPos

\* A test that takes the root round for one with some parent.
circularAtRoot(q) ==
  IF parentStep = NoPos THEN \E prev \in MinPos : Circular(prev, top.cur, q)
                        ELSE Circular(parentStep, top.cur, q)

circular(q) == parentStep # NoPos /\ Circular(parentStep, top.cur, q)

\* The constructor and generateAndSortMaxMoves.
newFrame(p) ==
  [cur |-> p, left |-> MaxMoves(p), step |-> NoPos, replies |-> {},
   minStepStates |-> << >>, trees |-> << >>, update |-> FALSE]

\* expand: a round without moves returns at once.
entryCtl(p)   == IF MaxMoves(p) = {} THEN "return" ELSE "max"
entryScore(p) ==
  IF MaxMoves(p) # {} THEN NONE
  ELSE IF MaxChecked(p) THEN -CHECKMATE ELSE -STALLMATE

Init ==
  /\ levels \in 1 .. Levels
  /\ \E p \in RootPos :
       /\ stack = <<newFrame(p)>>
       /\ ctl = entryCtl(p)
       /\ score = entryScore(p)
  /\ cache = emptyCache

----------------------------------------------------------------------------
(***************************************************************************)
(* expandMaxStep                                                           *)
(***************************************************************************)

SkipCircular(q) ==
  /\ ctl = "max"
  /\ circular(q)
  /\ stack' = setTop(stack, [top EXCEPT !.left = @ \ {q}])
  /\ UNCHANGED <<cache, ctl, score>>

\* A step that forgets to clear the lists of the previous one.
MaxStepKeepsLists(q) ==
  LET cached == getScoreFromCache(cache.maxSignatures, Sig(q),
                                  levelsLeft(Len(stack)))
  IN  /\ ctl = "max"
      /\ ~circular(q)
      /\ stack' = setTop(stack, [top EXCEPT !.left = @ \ {q}, !.step = q,
                                            !.replies = MinMoves(q),
                                            !.update = (cached = MISS)])
      /\ ctl' = IF cached = NONE THEN "max" ELSE "min"
      /\ score' = NONE
      /\ UNCHANGED cache

\* A step that forgets to advance to the next move.
MaxStepRepeats(q) ==
  LET cached == getScoreFromCache(cache.maxSignatures, Sig(q),
                                  levelsLeft(Len(stack)))
  IN  /\ ctl = "max"
      /\ ~circular(q)
      /\ stack' = setTop(stack,
                    [top EXCEPT !.step = q, !.replies = MinMoves(q),
                                !.minStepStates = << >>, !.trees = << >>,
                                !.update = (cached = MISS)])
      /\ ctl' = IF cached = NONE THEN "max" ELSE "min"
      /\ score' = NONE
      /\ UNCHANGED cache

\* The move is made, the lists of the minimising step are cleared and the
\* cache is asked.  Unless it knows that there is no mate, the replies are
\* searched; a cached mate is searched again to collect its solution.
MaxStep(q) ==
  LET cached == getScoreFromCache(cache.maxSignatures, Sig(q),
                                  levelsLeft(Len(stack)))
  IN  /\ ctl = "max"
      /\ ~circular(q)
      /\ stack' = setTop(stack,
                    [top EXCEPT !.left = @ \ {q}, !.step = q,
                                !.replies = MinMoves(q),
                                !.minStepStates = << >>, !.trees = << >>,
                                !.update = (cached = MISS)])
      /\ ctl' = IF cached = NONE THEN "max" ELSE "min"
      /\ score' = NONE
      /\ UNCHANGED cache

MaxExhausted ==
  /\ ctl = "max"
  /\ top.left = {}
  /\ ctl' = "return"
  /\ score' = NONE
  /\ UNCHANGED <<stack, cache>>

----------------------------------------------------------------------------
(***************************************************************************)
(* expandMinStep and handleMinStepBoard                                    *)
(***************************************************************************)

\* expandMinStep returns result to expandMaxStep: the cache is updated if it
\* had missed, and a mate ends the round.  stk and c are the stack and the
\* cache at that point.
EndMinStep(stk, c, result) ==
  LET f == stk[Len(stk)]
  IN  /\ stack' = stk
      /\ cache' = IF f.update
                    THEN [c EXCEPT !.maxSignatures =
                            updateCache(c.maxSignatures, Sig(f.step),
                                        levelsLeft(Len(stk)), result)]
                    ELSE c
      /\ ctl' = IF result = CHECKMATE THEN "return" ELSE "max"
      /\ score' = result

\* The frame after the reply p has been handled; trees as they are then.
replied(f, p, trees) ==
  [f EXCEPT !.replies = @ \ {p}, !.minStepStates = Append(@, p),
            !.trees = trees]

\* The last level: the reply is a legal move, so there is no mate.
MinReplyLast(p) ==
  /\ ctl = "min"
  /\ levelsLeft(Len(stack)) = 1
  /\ EndMinStep(setTop(stack, replied(top, p, top.trees)), cache, NONE)

\* The cache knows that the reply escapes the mate.
MinReplyEscapes(p) ==
  LET level == levelsLeft(Len(stack))
  IN  /\ ctl = "min"
      /\ level > 1
      /\ getScoreFromCache(cache.minSignatures, Sig(p), level) = NONE
      /\ EndMinStep(setTop(stack, replied(top, p, top.trees)), cache, NONE)

\* The cache knows a mate after the reply.  The CHECK_NE on its stored
\* solution aborts the process when there is none.
MinReplyMated(p) ==
  LET level == levelsLeft(Len(stack))
      sol   == getSolution(cache, Sig(p))
  IN  /\ ctl = "min"
      /\ level > 1
      /\ getScoreFromCache(cache.minSignatures, Sig(p), level) = CHECKMATE
      /\ ctl' = IF sol = NULL_INDEX THEN "abort" ELSE "min"
      /\ stack' = setTop(stack, replied(top, p, Append(top.trees, sol)))
      /\ UNCHANGED <<cache, score>>

\* A reply that is expanded on the last level too.
MinReplyExpandDeeper(p) ==
  /\ ctl = "min"
  /\ getScoreFromCache(cache.minSignatures, Sig(p), levelsLeft(Len(stack))) = MISS
  /\ stack' = Append(stack, newFrame(p))
  /\ ctl' = entryCtl(p)
  /\ score' = entryScore(p)
  /\ UNCHANGED cache

\* The board after the reply is searched by a round of its own.
MinReplyExpand(p) ==
  LET level == levelsLeft(Len(stack))
  IN  /\ ctl = "min"
      /\ level > 1
      /\ getScoreFromCache(cache.minSignatures, Sig(p), level) = MISS
      /\ stack' = Append(stack, newFrame(p))
      /\ ctl' = entryCtl(p)
      /\ score' = entryScore(p)
      /\ UNCHANGED cache

\* A side without moves is taken to be mated, in check or not.
MinExhaustedNoStalemate ==
  /\ ctl = "min"
  /\ top.replies = {}
  /\ EndMinStep(stack, cache, CHECKMATE)

\* A mate is only seen where the last reply runs out in check.
MinExhaustedInCheck ==
  /\ ctl = "min"
  /\ top.replies = {}
  /\ EndMinStep(stack, cache,
                IF MinChecked(top.step) THEN CHECKMATE ELSE STALLMATE)

\* Every reply, if there was one, is answered by a mate.
MinExhausted ==
  /\ ctl = "min"
  /\ top.replies = {}
  /\ EndMinStep(stack, cache,
                IF MinChecked(top.step) \/ MinMoves(top.step) # {}
                  THEN CHECKMATE ELSE STALLMATE)

\* handleMinStepBoard after child->expand, which has returned no mate: the
\* score is cached and ends the minimising step of the parent round.
ChildEscapes ==
  LET n      == Len(stack) - 1
      child  == top
      stored == [cache EXCEPT !.minSignatures =
                   updateCache(cache.minSignatures, Sig(child.cur),
                               levelsLeft(n), score)]
  IN  /\ ctl = "return"
      /\ n > 0
      /\ score # CHECKMATE
      /\ EndMinStep(setTop(SubSeq(stack, 1, n),
                           replied(stack[n], child.cur, stack[n].trees)),
                    stored, score)

\* ... which has returned a mate: the score is cached and the child's solution
\* is stored before the next reply is tried.
ChildMated ==
  LET n      == Len(stack) - 1
      child  == top
      stored == [cache EXCEPT !.minSignatures =
                   updateCache(cache.minSignatures, Sig(child.cur),
                               levelsLeft(n), score)]
  IN  /\ ctl = "return"
      /\ n > 0
      /\ score = CHECKMATE
      /\ cache' = storeSolution(stored, Sig(child.cur), child.step,
                                child.minStepStates, child.trees)
      /\ stack' = setTop(SubSeq(stack, 1, n),
                         replied(stack[n], child.cur,
                                 Append(stack[n].trees,
                                        keyIndex(cache, Sig(child.cur)))))
      /\ ctl' = "min"
      /\ UNCHANGED score

RootReturn ==
  /\ ctl = "return"
  /\ Len(stack) = 1
  /\ ctl' = "done"
  /\ UNCHANGED <<stack, cache, score>>

\* One step of expand on the root round or on a round below it.
SearchStep ==
  /\ UNCHANGED levels
  /\ \/ \E q \in top.left : Order(top.left, q) /\ (SkipCircular(q) \/ MaxStep(q))
     \/ MaxExhausted
     \/ \E p \in top.replies : /\ Order(top.replies, p)
                               /\ \/ MinReplyLast(p)
                                  \/ MinReplyEscapes(p)
                                  \/ MinReplyMated(p)
                                  \/ MinReplyExpand(p)
     \/ MinExhausted
     \/ ChildEscapes
     \/ ChildMated
     \/ RootReturn

----------------------------------------------------------------------------
(***************************************************************************)
(* What the callers of expand do: main of dfs.cc prints the path and ends, *)
(* the tests search again.  The cache is static, so it outlives the rounds.*)
(***************************************************************************)

\* The nodes from which printSolution, which walks the forest along the
\* children, returns: those at most k generations from the leaves.
returning(forest) ==
  LET within[k \in 0 .. Len(forest)] ==
        IF k = 0 THEN {}
        ELSE LET before == within[k - 1]
             IN  {n \in 1 .. Len(forest) :
                    \A i \in 1 .. Len(forest[n].children) :
                      forest[n].children[i] \in before}
  IN  within[Len(forest)]

\* printPath, whatever the score is.  It follows the null maxStepState_ of a
\* round that made no move, and a walk that does not return uses up the
\* process's stack.
PrintPath ==
  /\ ctl = "done"
  /\ ctl' = IF /\ stack[1].step # NoPos
               /\ \A i \in 1 .. Len(stack[1].trees) :
                    stack[1].trees[i] \in returning(cache.forest)
              THEN "printed" ELSE "crash"
  /\ UNCHANGED <<levels, stack, cache, score>>

\* Another root round is made and expanded.
NewSearch(p, l) ==
  /\ ctl \in {"done", "printed"}
  /\ Follows(stack[1].cur, p)
  /\ levels' = l
  /\ stack' = <<newFrame(p)>>
  /\ ctl' = entryCtl(p)
  /\ score' = entryScore(p)
  /\ UNCHANGED cache

Next ==
  \/ SearchStep
  \/ PrintPath
  \/ \E p \in RootPos, l \in 1 .. Levels : NewSearch(p, l)

Spec == Init /\ [][Next]_vars

\* expand is a sequential program: it keeps taking steps until it returns.
\* Whether the path is printed or another search follows is up to the caller.
FairSpec == Spec /\ WF_vars(SearchStep)

----------------------------------------------------------------------------
\* The stack holds at most one round per level, and the tables, the forest
\* and the scores have their declared types.
TypeOK ==
  /\ levels \in 1 .. Levels
  /\ stack \in Seq(Frames) /\ Len(stack) \in 1 .. levels
  /\ isTable(cache.maxSignatures) /\ isTable(cache.minSignatures)
  /\ ctl \in Searching \cup Finished \cup {"abort"}
  /\ score \in Scores

\* A mate is never announced that is not there: whenever a round, the root
\* included, returns CHECKMATE, its board has a forced mate within the levels
\* it was given, whatever earlier lines of play and earlier searches left in
\* the shared cache.
MateIsReal ==
  ctl \in {"return", "done"} /\ score = CHECKMATE =>
    MateMax(top.cur) <= levelsLeft(Len(stack))

\* Every mate bound in the two tables is a fact about the boards with that
\* signature, although the branch of updateCache that records mates does not
\* look at the score.
MateBoundsSound ==
  /\ \A q \in MinPos :
       LET second == bounds(cache.maxSignatures, Sig(q)).second
       IN  second <= Levels => MateMin(q) <= second
  /\ \A p \in MaxPos :
       LET second == bounds(cache.minSignatures, Sig(p)).second
       IN  second <= Levels => MateMax(p) < second

\* The CHECK_NE on a cached mate's solution never aborts the process.
NeverAborts == ctl # "abort"

\* What printPath relies on when a round above the last level has its mate:
\* the i-th solution tree belongs to the i-th reply, and its node holds a
\* move that is legal after that reply.
TreesAnswerReplies ==
  ctl \in {"return", "done"} /\ score = CHECKMATE /\ levelsLeft(Len(stack)) > 1 =>
    /\ Len(top.trees) = Len(top.minStepStates)
    /\ \A i \in 1 .. Len(top.trees) :
         /\ top.trees[i] \in 1 .. Len(cache.forest)
         /\ cache.forest[top.trees[i]].data \in MaxMoves(top.minStepStates[i])

\* A forced mate within the given number of levels is found: the root round
\* of a finished search returns CHECKMATE.  It is what the comment on expand
\* promises, and holds where the mate takes no move back.
NoMateMissed ==
  ctl = "done" /\ MateMax(stack[1].cur) <= levels => score = CHECKMATE

\* printPath fails only on a board without a move: a walk along the solution
\* forest comes to an end, although nodes are shared between solutions found
\* at different levels and by different searches.
PathPrintable == ctl = "crash" => MaxMoves(stack[1].cur) = {}

\* printPath has a move to print unless the root board has none, and the move
\* that it prints for a mate is one that wins in the given levels.
PathHasMove ==
  ctl = "done" /\ MaxMoves(stack[1].cur) # {} =>
    /\ stack[1].step \in MaxMoves(stack[1].cur)
    /\ score = CHECKMATE => MateMin(stack[1].step) <= levels

\* Every call of expand returns: each round tries each of its moves at most
\* once, and the rounds of the stack have fewer and fewer levels left.
Termination == ctl \in Searching ~> ctl = "done"

----------------------------------------------------------------------------
\* The search as a solver: the board and the levels of the root round are the
\* question, the score that it ends with is the answer.
Contract == INSTANCE MateContract WITH
  asked  <- stack[1].cur,
  depth  <- levels,
  answer <- IF ctl \notin Finished THEN "none"
            ELSE IF score = CHECKMATE THEN "mate" ELSE "nomate"

\* The search implements a sound solver: one search after the other, on the
\* cache that the earlier ones have filled, it announces no mate that is not
\* there.
ImplementsSound == Contract!SoundSpec
============================================================================
