-------------------------- MODULE MateSearchDirect --------------------------
(***************************************************************************)
(* Which mates the depth-first search finds.  expandMaxStep passes over    *)
(* the moves that isCircularMove finds, in every round but the root's, and *)
(* the score of a round that has passed over a move is cached like any     *)
(* other and read along other lines of play.  What it cannot miss are the  *)
(* direct mates: the forced mates in which, after the first move, no move  *)
(* is made that would be circular on some line of play.                    *)
(***************************************************************************)
EXTENDS MateSearch

CONSTANTS
  DirectMax(_),    \* rounds to a forced mate from a MaxPos board by moves
  DirectMin(_)     \* that are never circular; from a MinPos board

\* Some line of play leads to the squares of p by a step that the move to q
\* takes back.
mayBeCircular(p, q) ==
  \E prev \in MinPos : \E p2 \in MinMoves(prev) :
    Sig(p2) = Sig(p) /\ Circular(prev, p2, q)

\* The defining equations, as for MateMax and MateMin in module MateGame.
ASSUME DirectAssumption ==
  /\ \A p \in MaxPos : DirectMax(p) \in Nat
  /\ \A q \in MinPos : DirectMin(q) \in Nat
  /\ \A p \in MaxPos, h \in 1 .. Levels :
       DirectMax(p) <= h <=>
         \E q \in MaxMoves(p) : ~mayBeCircular(p, q) /\ DirectMin(q) <= h
  /\ \A q \in MinPos, h \in 1 .. Levels :
       DirectMin(q) <= h <=>
         \/ MinMoves(q) = {} /\ MinChecked(q)
         \/ /\ MinMoves(q) # {}
            /\ h > 1
            /\ \A p \in MinMoves(q) : DirectMax(p) <= h - 1

\* Boards with equal signatures have the same direct mates.
DirectFaithful ==
  /\ \A p1, p2 \in MaxPos : Sig(p1) = Sig(p2) => DirectMax(p1) = DirectMax(p2)
  /\ \A q1, q2 \in MinPos : Sig(q1) = Sig(q2) => DirectMin(q1) = DirectMin(q2)

\* The root round has no previous step, so it passes over no move.
MustFind(p, h) == \E q \in MaxMoves(p) : DirectMin(q) <= h

----------------------------------------------------------------------------
\* expand returns CHECKMATE wherever the root has a direct mate within the
\* levels, although other moves are discarded as circular and the scores of
\* the rounds that lack them are cached and used again, by this search and by
\* later ones.
DirectMateFound ==
  ctl = "done" /\ MustFind(stack[1].cur, levels) => score = CHECKMATE

\* Every "no mate up to this height" that updateCache has put into one of the
\* two tables, after whatever pruning, at least excludes a direct mate of the
\* boards with that signature.
EscapeBoundsSound ==
  /\ \A q \in MinPos :
       LET first == bounds(cache.maxSignatures, Sig(q)).first
       IN  first > 0 => DirectMin(q) > first
  /\ \A p \in MaxPos :
       LET first == bounds(cache.minSignatures, Sig(p)).first
       IN  first > 0 => DirectMax(p) >= first

----------------------------------------------------------------------------
\* The question and the answer of a search, as in module MateSearch.
Solver == INSTANCE DirectContract WITH
  asked  <- stack[1].cur,
  depth  <- levels,
  answer <- IF ctl \notin Finished THEN "none"
            ELSE IF score = CHECKMATE THEN "mate" ELSE "nomate"

\* One search after the other, on the cache that the earlier ones have filled,
\* expand implements a solver that answers every question, announces no mate
\* that is not there and misses no direct mate.
ImplementsDirect == Solver!DirectSpec
=============================================================================
