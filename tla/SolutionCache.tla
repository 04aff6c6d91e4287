--------------------------- MODULE SolutionCache ---------------------------
(***************************************************************************)
(* The transposition tables and the solution forest that all rounds of a   *)
(* search share (chess/solution_cache.h, solution_cache.cc,                *)
(* chess/static_forest.h), as operators on a cache value:                  *)
(*    maxSignatures   bounds for boards after a maximising move            *)
(*    minSignatures   bounds for boards after a minimising move            *)
(*    solutionMap     the forest node stored for a signature               *)
(*    forest          StaticForest: nodes with a move and child indices    *)
(*                                                                         *)
(* A score table maps some signatures to a pair of heights: no mate is     *)
(* known up to height first, a mate is known from height second on.        *)
(***************************************************************************)
EXTENDS Score, Sequences

CONSTANTS
  Sigs,            \* board signatures (the 64-bit hash of the squares)
  MinStoreLevel    \* the flag --min_store_level

ASSUME MinStoreLevelAssumption == MinStoreLevel \in Nat

INT_MAX == 2147483647
MISS    == -1       \* getScoreFromCache returns false

Bounds   == [first : Int, second : Int]

\* The score tables: functions on some of the signatures.
isTable(t) == DOMAIN t \subseteq Sigs /\ t \in [DOMAIN t -> Bounds]

\* The function f with k mapped to v.
put(f, k, v) == [x \in DOMAIN f \cup {k} |-> IF x = k THEN v ELSE f[x]]

emptyCache == [maxSignatures |-> << >>, minSignatures |-> << >>,
               solutionMap |-> << >>, forest |-> << >>]

----------------------------------------------------------------------------
\* The entry of a signature.  One that no update has inserted says no more
\* than the pair (-INT_MAX, INT_MAX) would, and updateCache inserts just the
\* pair that it would make of that one.
bounds(table, sig) ==
  IF sig \in DOMAIN table THEN table[sig]
                          ELSE [first |-> -INT_MAX, second |-> INT_MAX]

\* The cached score for a board to be searched height levels deep.
getScoreFromCache(table, sig, height) ==
  IF bounds(table, sig).first >= height THEN NONE
  ELSE IF bounds(table, sig).second <= height THEN CHECKMATE
  ELSE MISS

\* An update that takes the test of the height as the test of the score.
updateCacheSwapped(table, sig, height, score) ==
  LET old == bounds(table, sig)
  IN  IF height < MinStoreLevel THEN table
      ELSE IF score < CHECKMATE /\ old.first >= height
        THEN put(table, sig, [old EXCEPT !.first = height])
      ELSE IF old.second > height
        THEN put(table, sig, [old EXCEPT !.second = height])
      ELSE table

\* An update that books the result of a search for one level more.
updateCacheHigh(table, sig, height, score) ==
  LET old == bounds(table, sig)
  IN  IF height < MinStoreLevel THEN table
      ELSE IF score < CHECKMATE /\ old.first < height
        THEN put(table, sig, [old EXCEPT !.first = height + 1])
      ELSE IF old.second > height
        THEN put(table, sig, [old EXCEPT !.second = height])
      ELSE table

\* Record the score found for a board at the given height.  The second branch
\* is also reached by a score below CHECKMATE when first is already as high.
updateCache(table, sig, height, score) ==
  LET old == bounds(table, sig)
  IN  IF height < MinStoreLevel THEN table
      ELSE IF score < CHECKMATE /\ old.first < height
        THEN put(table, sig, [old EXCEPT !.first = height])
      ELSE IF old.second > height
        THEN put(table, sig, [old EXCEPT !.second = height])
      ELSE table

----------------------------------------------------------------------------
\* getSolution; 0 stands for NULL_INDEX, indices start at 1.
NULL_INDEX == 0

getSolution(c, sig) ==
  IF sig \in DOMAIN c.solutionMap THEN c.solutionMap[sig] ELSE NULL_INDEX

\* addSolutionNode(key, board): a key that is already mapped keeps its node.
keyIndex(c, key) ==
  IF key \in DOMAIN c.solutionMap THEN c.solutionMap[key] ELSE Len(c.forest) + 1

\* A solution that is put into the forest but not under its key.
storeUnmapped(c, key, move, replies, trees) ==
  [c EXCEPT !.forest = Append(@, [data |-> move, children |-> << >>])]

\* OneRound::storeSolution: a node for the maximising move, one child node per
\* reply, and under each reply the stored solution of the board it leads to.
storeSolution(c, key, move, replies, trees) ==
  LET base   == Len(c.forest)
      parent == keyIndex(c, key)
      kids   == [i \in 1 .. Len(replies) |-> base + 1 + i]
      leaf(i) == [data |-> replies[i],
                  children |-> IF i <= Len(trees) THEN <<trees[i]>> ELSE << >>]
      grown  == c.forest \o <<[data |-> move, children |-> << >>]>>
                         \o [i \in 1 .. Len(replies) |-> leaf(i)]
  IN  [c EXCEPT !.forest = [grown EXCEPT ![parent].children = @ \o kids],
                !.solutionMap = put(@, key, parent)]
============================================================================
