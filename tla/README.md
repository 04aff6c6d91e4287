# A verification project for the chess mate solver

The program under `src/chess` loads a chess position from a file and looks for a
forced mate within a given number of moves. It has two searches: a depth-first one
(`dfs.cc`, class `OneRound`) with a transposition cache, and a breadth-first one
(`checkmate.cc`, `Board::evaluate`). Everything else in the repository (folly,
googletest, shell configuration, build files) is vendored code or tooling.

This directory holds TLA+ models of the program, TLC configurations that check them
on small instances, and theorems that TLAPS proves for every instance.
`PROJECT.json` is the index: components, runs, the source lines behind every
definition, hazards, findings and theorems.

## 1. Inventory

| component | state | operations | interacts with |
|---|---|---|---|
| Board, Move (`board.*`, `move.*`, `piece.h`) | 64 squares, cached king squares, last move, score | `set`, `apply`, `undo`, `makeMove` | all others |
| Loader and opening (`board.cc`) | the board being built | read a line, end of file, `init` | Board |
| Piece classes (`king.cc` ... `bpawn.cc`, `piece.cc`) | none | `canAttack`, `getMoves`, `getNextStates` | read a Board |
| Move tests of a round (`one_round.cc`) | piece lists of the round's first board, two check flags | `canMove`, `isChecking`, `checkChecked`, `isCircularMove` | piece classes, auxiliary board |
| Depth-first search (`one_round.cc`, `dfs.cc`) | a recursion of `OneRound` objects | `expand`, `expandMaxStep`, `expandMinStep`, `handleMinStepBoard` | move tests, cache |
| Solution cache (`solution_cache.*`, `static_forest.h`) | two score tables, solution map, forest; static, shared by all rounds | look up, update, store a solution | search |
| Breadth-first search (`board.cc`, `checkmate.cc`) | layers of boards with scores, the solution tree | `expand`, `evaluate` | `getNextStates`, `isChecked` |
| Move ordering (`calcMoveHeuristics`, `distanceFactor`) | none | a float per move | search |
| Piece bank (`piece_bank.h`) | immutable piece objects | look up | piece lists |
| Printing | none | `printPath`, `printSolution`, `printSolutionTree` | forest, layers |

The program has one thread. What is hard in it is not concurrency but state that is
computed at one point and used at another:

* the piece lists of a round are taken before the maximising move and used after it;
* the king squares are cached beside the squares;
* one auxiliary board is changed and restored for every candidate move;
* every round shares one cache, whose entries were made at another depth and in
  another line of play;
* the solution of a board is stored in one place, looked up by signature in another
  and printed in a third;
* the breadth-first path rebuilds the kind of a move from its squares;
* the nodes of the breadth-first solution tree point to their parents by raw pointers
  into layers that are freed.

What makes each component correct:

* Board: the cached kings are the kings; undo inverts apply; no CHECK fires.
* Loader: a file is loaded completely or rejected, never half.
* Pieces: attacks and captures agree, both successor generators agree.
* Move tests: exactly the moves that do not leave the own king attacked.
* Search: the verdict CHECKMATE is true, a mate in range that needs no discarded move
  is found, the search ends.
* Cache: every mate bound in it is a fact and every "no mate" excludes the mates that
  need no discarded move, whichever search put it there; a mate in it has its solution;
  the forest can be printed.
* Breadth-first search: a win or a loss that it announces is one, a mate in range is
  found, the tree it prints is a solution and is printed completely.

The hazards, with their lines and the properties that watch them, are in
`PROJECT.json`.

## 2. Modules

```
Piece <- Board <- PieceMoves <- OneRound <- Round     <- MCRound
           ^                       ^
           |                       +------- ChessGame <--+
       BoardFile <- MCBoardFile                          MCChessSearch
           ^                                             |
     BoardFileProofs                                     v
            Score <- SolutionCache <- MateSearch <- MateSearchDirect <- MCMateSearch
              ^                        ^     |          |                   |
              |      MateGame ---------+     | INSTANCE | INSTANCE          v
              |       ^    ^                 v          v               SmallGames
              +- Evaluate  +------- MateContract <- DirectContract          ^
                   ^                                                        |
               MCEvaluate --------------------------------------------------+
```

* **Piece** - piece types with the numeric values of the C++ enumeration, colours,
  squares. Positions are `<<row, column>>`.
* **Board** - a board as a record (`positions`, `blackKing`, `whiteKing`,
  `lastMove`) and a move as a record; `set`, `apply`, `undo`, `makeMove` and the
  CHECKs of `Move::apply` as operators from board to board.
* **PieceMoves** - `canAttack` and `getMoves` per piece class. The loops over a
  direction are quantifiers over the distance; the vectors are sets. Also
  `Board::isChecked` (the scan of the whole board) and `Piece::getNextStates` with the
  reconstruction of the kind of a move. The conditions of `isEnpassantMove`,
  `isCastlingMove` and `canCastle` are kept as they are in the code.
* **OneRound** - the piece lists, the check flags and `canMove`, split into the tests
  it makes in turn.
* **Round** - a state machine of one line of play. `MaxMove(m)` is an iteration of
  `expandMaxStep` up to the call of `expandMinStep`, `MinMove(m)` is
  `makeOneMinMove` followed by the constructor of the child round. Variables: the
  round and the phase it is in.
* **BoardFile** - the two constructors of `Board`. A line is its length and three
  characters; the conversion to `int8_t` is modelled with its wrap-around.
* **Score** - the score constants. **MateGame** - the game that both searches work on:
  sets of boards, who can go where, who is in check, and `MateMax`/`MateMin`, the
  number of rounds to a forced mate, which is the reference. The searches are models
  over any game; which moves are legal in chess is the subject of Round.
* **SolutionCache** - the two tables, the solution map and the forest. A table entry
  is a pair (no mate up to `first`, mate from `second` on). An entry that is not there
  is treated as `(-INT_MAX, INT_MAX)`, which is what the inserting branch of
  `updateCache` amounts to.
* **MateSearch** - the recursion as a stack of frames, one per `OneRound`:
  `cur` (curBoard_), `left` (moves not yet tried), `step` (maxStepState_), `replies`
  (minimising moves not yet tried), `minStepStates`, `trees`
  (minStepSolutionTrees_), `update` (whether the look-up had missed). `ctl` is the
  program point of the top round, `levels` the argument of the root's `expand`. The
  order in which moves are tried is a parameter (`Order`): the heuristic only sorts,
  and the results below hold for every order. One action per
  branch: a maximising move skipped as circular, made, or exhausted; a reply at the
  last level, known to escape, known to be mated, or searched; the replies exhausted;
  the child's return with and without mate; the return of the root (together
  `SearchStep`). `PrintPath` is what `dfs.cc` does next, whatever the score: it
  crashes on a root that made no move and where the walk along the forest has no end.
  `NewSearch` makes another root round in the same process, with the cache as it is,
  as the unit tests do; `Follows` says which boards one process may search.
* **MateContract** - what a mate solver promises, without any of the above: a
  question (board and levels), an answer. `SoundSpec` announces no mate that is not
  there. `Contract` in MateSearch maps the root round and its score to it.
* **MateSearchDirect** - which mates the search cannot miss. It passes over the moves
  that `isCircularMove` finds, so some mates are lost. `mayBeCircular` says that some
  line of play leads to these squares by a step that the move takes back, and a
  *direct* mate (`DirectMax`, `DirectMin`) is a forced mate without such moves; at the
  root, which has no previous step, any first move will do (`MustFind`). "Some line of
  play" and not "this one", because the score of a round is cached under its squares
  and read along other lines. What the search finds lies between the direct mates and
  all mates. **DirectContract** - the solver that finds at least those
  of `MustFind` and answers every question (`DirectSpec`); `Solver` maps the search
  to it.
* **ChessGame** - the parameters of the game for real boards, from module OneRound.
  `MCChessSearch` puts it under MateSearch.
* **Evaluate** - `Board::expand`, `Board::evaluate` and the main program of
  `checkmate.cc`. `bfs` holds the layers as sequences of nodes (parent index, board,
  score), `tree` the indices of the nodes moved to the solution tree. One action per
  iteration of each loop: `Expand` (one board, with all its children, which start with
  a copy of its score), `Propagate` (one node into its parent), `Trace` (one node kept
  or not), the three steps to the next layer, the early return in `Start`, and
  `PrintTree`, which computes the places that `dfsPrintTree` visits and crashes on a
  tree that was never sized.
* **SmallGames** - all games on two boards per side, for the MC modules.

Proof modules that the picture leaves out: MateSearchProofs, MateSearchSteps and
MateSearchPathProofs on MateSearch; MateSearchDirectProofs on MateSearchDirect;
EvaluateProofs on Evaluate; BoardProofs on OneRound and RoundProofs on Round and
BoardProofs.

Definitions such as `canMoveForgetsLast` or `updateCacheSwapped` directly before the
definition they vary are not used by any specification: each is a plausible mistake
for which the property named in `PROJECT.json` fails.

## 3. Runs

| run | instance | checks |
|---|---|---|
| `round` | 8 positions, all lines of 2 rounds (4 half-moves), 17 383 states | `LegalityExact`, `SquaresDecideMoves`, `CheckFlagExact`, `KingsStayCached`, `UndoRestores`, `ApplyChecksPass`, `AttacksAreCaptures`, `NextStatesAgree`, `CaptureAccounting`, `TypeOK` |
| `board_file` | 18 lines, files of up to 4 | `FinishedKingsCached`, `LinesOnBoard`, `TypeOK` |
| `search` | 300 games, 3 levels, any order, any sequence of searches of a game, some moves circular; 126 207 states | `MateIsReal`, `MateBoundsSound`, `NeverAborts`, `TreesAnswerReplies`, `PathHasMove`, `TypeOK`, refinement `ImplementsSound` |
| `search_direct` | the same | `DirectMateFound`, `EscapeBoundsSound`, `Termination`, refinement `ImplementsDirect` |
| `chess_search` | 3 pawn endings, 2 levels, one search each | `MateIsReal`, `NoMateMissed` |
| `evaluate` | 768 games, up to 3 rounds (6 layers); 148 144 states | `WinIsForced`, `LossIsReal`, `MateSeen`, `SolutionComplete`, `PrintedMovesWin`, `PrintsWholeTree`, `TypeOK` |

**Why the bounds are enough.** In `round` the positions have few pieces but the full
board, and each is built around one difficulty: a pinned piece, a discovered and a
double check, a promotion with and without capture, an en passant capture of either
colour, one of them with king and rook at the ends of the row, and the fixture of
the repository's own round tests. Piece lists are rebuilt in each round, so staleness
never spans more than one round; the second round shows boards whose last move was a
reply. `search` takes all games on two boards per side in which the first board has a
move and a check is a mate (the search looks at a check only where there is no reply):
they include every cycle, transposition, stalemate and mate of that size. Three
levels let a board be reached at two different heights and be read back from the
cache at both (the store level is 2, as in the flag's default), and later searches
of the same game, from either board and with any number of levels, meet every cache
that the earlier ones can leave. Two steps of these games are such that the next move
can take them back, one for each board of the first side; the search discards that move
there, and only there, as the code compares with the previous step. Mates are really
lost by it: `NoMateMissed` does not hold in these games. `evaluate` takes all games of that size, as the
breadth-first search looks at checks that are no mates too. In `board_file` four
lines suffice for two kings, a clash and a comment; the lines fail each CHECK by one.

`MaxLevel`, `Levels` and `MaxLines` are the only bounds on behaviours. Deadlock is
not checked: a finished search, a line of play at its last level, a mate and a loaded
board are proper ends. That a search does not stop halfway is `Termination`.

**Fairness.** `FairSpec` is weak fairness of `SearchStep`, the steps of `expand`. The
program is sequential and waits for nothing: as long as `expand` can take a step it
does. No fairness among moves is assumed, nor that the caller prints the path or
searches again.

### Disagreements found

Each has a run that expects the violation and an entry under `findings`.

* `bfs_en_passant`: `getNextStates` leaves the pawn that white takes en passant on the
  board, since `isEnpassantMove` lets only black pawns through.
* `castling`: `canCastle` counts the king's own square among those that must be empty,
  so that `--allow_castling` has no effect.
* `chess_switchback`: the pruning of moves that go back loses a mate in two.
* `solution_cycle`: a board solved again with fewer levels left adds the replies to
  another move to its old node; the forest can become cyclic, and `printPath` does not
  come to an end (`PathPrintable`). Moves that go straight back are discarded in this
  run as in the code: the game returns to the board over a detour of other boards, which
  `isCircularMove` does not see. In games small enough for the other search runs the
  cycle needs several searches in one process.
* `evaluate_horizon`: the last layer is not expanded, so a check by the last move is
  announced as a win (`WinIsMate`). What does hold is `WinIsForced`, with the
  reference `Cornered` that takes a check at the horizon for a mate.
* `evaluate_masked`: a possible stalemate keeps the value 101, beats the mate beside
  it and is reported as "no solution" (`NoSolutionMeansNoMate`). What does hold is
  `MateSeen`: without such a stalemate in the tree every mate is found.

Two more are visible in the definitions without a run of their own: `openingType` has
two rows of black pawns, as `Board::init` has; and `storeSolution` gives the node of a
board solved twice the replies to two different moves. A root on which the opponent is
already in check makes both programs misbehave, and no property excludes it: `checkmate.cc` prints a tree that was
never sized (second conjunct of `PrintsWholeTree`), `dfs.cc` only tests for it in
debug builds and is modelled without such roots (`LegalRootsAssumption`).

## 4. Proofs

**BoardFileProofs** (for every set of lines and every number of them).
`LoaderTypeCorrect`, `LoaderKingsCached`, `LoaderLinesOnBoard`. The inductive
invariant `LoaderInv` adds to these that, while a file is being read, each colour has
at most one king and its cached square is the invalid one exactly when there is none.
That is what the CHECK on a second king needs: it looks at the cached square only.

**MateSearchProofs** (for every game, number of levels, store level, order of moves and
pruning). `SearchTypeCorrect`, `MateSound` (no false mate), `TablesSound` (mate bounds
are facts), `SearchNeverAborts` (a cached mate has its solution). They assume the
named assumptions of `MateGame` and `MateSearch` - the game's moves stay in the game,
and `MateMax` and `MateMin` count the rounds to a forced mate - and `SigFaithful`:
boards with equal signatures are alike. The last one is a hypothesis of the theorems and not an `ASSUME`
because `Board::hash` fulfils it only for lines of play without en passant rights, and
up to collisions.

The invariant `SearchInv` says, beside the types, that

1. every mate bound in the cache is a fact, and one in the table for replies has a
   stored solution (`CacheSound`);
2. every round below the top is in its minimising step, all replies it has finished
   lose within the levels left, and it waits for one of its replies (`MinStepOK`,
   `CallOK`);
3. a round that will update an entry has `first` below its own height there, and
   still has when the update comes.

Part 3 is the one that is easily overlooked. `updateCache` lowers the mate bound
whenever `score < CHECKMATE && first < height` is false, so a result *without* mate
would be booked as a mate if `first` had grown meanwhile. It cannot: the rounds above
work with fewer levels left, so what they write is too low (`CallOK` carries this
through the recursion). Without part 3 the invariant is not inductive.

`NewSearch` keeps the cache, so `SearchInv` is an invariant of any sequence of searches
in one process. `SearchImplementsSound` proves the refinement `ImplementsSound` from
it: a step of the search leaves the root's board and the levels alone (`RootStays`) and
is a stutter of the solver, except for `RootReturn`, which is its `Answer` and is sound
by `MateIsReal`, and `NewSearch`, which is its `Ask`.

**MateSearchDirectProofs** (the same parameters, pruning included; the shared step
lemmas are in MateSearchSteps). The other direction: under `SigFaithful` and
`DirectFaithful` (boards with equal signatures have the same mates and the same direct
mates) the search misses no direct mate. `MateFound` proves `DirectMateFound`,
`EscapesSound` proves `EscapeBoundsSound`, and `SearchImplementsDirect` is the safety
part of `ImplementsDirect` (`DirectSafety` of DirectContract). `DirectInv` says what
`SearchInv` leaves out: what the tables deny is not a direct mate (`EscapesOK`), the
moves that a round has dealt with do not lead to one or are circular on some line of
play to these squares (`Spent`, `Refuted`, and `Tried` for the one being searched), and
a round that returns without mate has no direct one (`NoneLeft`). A round passes over a
move only because of its own last step, but its score is read by rounds on other lines
of play, so `Spent` has to speak of all of them; this is where the quantifier in
`mayBeCircular` is needed. That the search finds all mates cannot be proved: the run
`chess_switchback` is the counterexample.

**MateSearchPathProofs** (the same parameters, pruning included). `TreesMatch` proves
`TreesAnswerReplies`, `RootHasMove` proves `PathHasMove`. `PathInv` says that each
stored node holds a legal move of every board with its signature (`ForestOK`), that
the solutions beside a round's replies are nodes of the forest and answer them in turn
(`TreesOK`, kept because the forest only grows), what a round has to show when it
returns (`Returned`), and that the root passes over no move before it has made one
(`RootMoved`).

**EvaluateProofs** (for every game, number of rounds and order of generation; assumes
`GameAssumption`, `MateAssumption`, and of Evaluate `EvaluateAssumption` and
`ForcedAssumption`, the defining equations of the references). All invariants of the
run `evaluate` are proved: `TypeCorrect`, `WinForced`, `LossReal`, `MateFoundOrMasked`,
`SolutionAnswersAll`, `PrintedMovesForced`, `WholeTreePrinted`. `EvaluateInv` follows the
phases of the program:

1. the layers are a tree whose siblings lie side by side in the order of their parents
   (`Layered`), filled up to a point (`Expanding`) and then completely (`Expanded`);
2. while scores travel up, the layers still to come have the score that `expand` gave
   them, the layer that receives has the best of that score and of the children seen so
   far (`Partial`), and a layer that is done has scores with a meaning (`Done`): a win
   is cornered, a loss is doomed, and without a stalemate every mate within the
   rounds left is a win. The meaning has to be stated for every height, not for the
   root alone, and for both sides at once;
3. the tree holds, in order, exactly the nodes that the trace keeps (`Tracing`,
   `Traced`).

The trace compares scores with the root's only. That this makes the tree of a win a
solution is `KeptBoardsWin`: a kept board of the first side scores no more than the
root, and no less than its parent, which is kept and so scores no less than the root.
With the score CHECKMATE it has a child of that score (`SolutionAnswersAll`) and none
of a higher one, so that each kept child is a winning move (`PrintedMovesForced`).

That the printing visits the whole tree rests on the first point: the children of a
node that are in the tree are one run of the next layer. `places` is a recursive
function of the layer; where induction over the layers would be used, the proof takes
the least layer that fails (`LeastNat`, from the well-foundedness of the naturals).

**BoardProofs and RoundProofs** (for every set of root boards and number of rounds;
castling allowed or not). All properties of the run `round` are proved. They assume of
the roots what the loader guarantees - a board of the right type without a last move,
each king once and on its cached square (`RootsAssumption`, compare
`LoaderKingsCached`) - and that the side that does not move is not in check
(`LegalRootsAssumption`), which the program takes for granted and CHECKs in debug
builds only.

BoardProofs has no state. It shows what a generated move is like (`MoveOK`, from the
generators of all seven piece classes), what `apply` leaves on each square
(`TypeAfter`, `ApplyFacts`), that `undo` takes it back (`UndoInverts`), and that
`canAttack` is `getMoves` restricted to enemy squares (`AttackIsCapture`). A board of a
line of play is `BoardOK`: a king stands on no other square than the cached one, a pawn
that has just moved by two squares stands where it went with nothing behind it, and
the last move did not castle (`NoCastling`: `canCastle` is never true).

RoundProofs has two invariants. `RoundInv` says that in both phases the piece lists are
those of the round's first board, and that the board of the minimising step is that
board after one generated move. `RoundTypeCorrect`, `UndoAlwaysRestores`,
`ChecksNeverFail`, `CapturesAccounted` and `AttacksAgree` follow from it. `LegalInv`
says that the kings are in place, that the side that does not move is not in check,
that the flags are exact, and two things that `canMove` relies on silently:

1. the piece moved last stands where its move took it (`LastMoverOK`), and every other
   enemy is still listed (`ListOK`), so that the list and the look at the last move
   together miss no attacker (`CheckedByList`);
2. if a pawn can be taken en passant, then before its double step the king of the side
   that can take it was not attacked (`EnPassantSafe`).

The second is why the walk along one line is enough. A capture en passant empties two
squares, the one that `noIndirectAttack` walks through and that of the pawn it takes,
which it never looks at. An attacker behind the taken pawn alone would be
missed. There is none: the line would either have been open before the double step, or
the pawn's home square would lie on it, and then so would the square that the capture
goes to (`NothingBehindPassed`, `LineBetween`). With that, an attack that a move of
another piece than the king opens comes through the square it leaves
(`OpenedAttackSeen`), and what the walk finds is an attack (`SeenIsAttack`);
`CanMoveExact` puts the parts together and gives `ShortcutsExact`. That no king is taken
(`KingsNeverTaken`) follows from legality and `AttackIsCapture`, and closes the
induction. `SquaresDecideEverywhere` compares the board with itself without a last
move, and `SearchersAgree` shows what `specialOf` rebuilds from the squares of a move
(`Reconstructed`), the two promotions included (`PromotionVariants`).

**Only model-checked.** `Termination` and the liveness part of `ImplementsDirect`
(liveness is outside this prover); the composition of the search with chess in
`chess_search`. That `MateMax` and `DirectMax` of a finite game exist is computed by recursion in the
MC modules and assumed in the proofs.

## 5. Not modelled

* `src/folly` (the bulk of the repository's lines), googletest, the shell environment
  and the build files. They are third-party code and tooling. The program links one
  function of folly, `crc32c`, and that stands behind `Sig`. A map of this project
  can therefore only ever cover a small share of the lines under `src/`; of
  `src/chess` it covers the logic except for the items below.
* The value of the heuristic: a float that decides the order of the moves and
  nothing else. The freedom of order is in the model.
* Boards that share a signature but not their right to take en passant: the search
  models exclude them by `SigFaithful`. `SquaresDecideMoves` shows that, collisions
  aside, there are no others.
* Hash collisions and the reserved key of `dense_hash_map`; counters and statistics.
* Text: notation, `print...`, logging. What the printing walks visit is modelled.
* The piece bank, whose objects are immutable.
* `Board::remove`, `Piece::hasNextStates`, `PieceBank::moveTo`,
  `SolutionCache::clear`, `StaticForest::add(data, parent)`: no caller.
* The pawn generators read the square of a capture before they test that it is on the
  board; the value read outside is discarded in every case and is left out.
* A search with the other side first on the same cache: it would contradict
  `SigFaithful`, and no program does it.

There is no concurrency, no message and no persistent state in the program, so there
is no fault model to add beyond the aborts and crashes above.

## 6. Plan

1. *(done)* Piece, Board, PieceMoves, OneRound, Round; BoardFile and its proofs.
2. *(done)* SolutionCache, MateSearch and the soundness proofs; ChessGame.
3. *(done)* Evaluate with the main program of `checkmate.cc`; the contracts and the
   refinements; several searches in one process; `printPath`.
4. *(done)* Proofs: the mates the depth-first search finds, its printing, all of
   Evaluate.
5. *(done)* Proofs about Round: `undo` inverts `apply`, no CHECK fires, attacks and
   captures agree, the legality test is exact, both searches have the same successors.
6. Proofs about ChessGame: the games of chess positions meet the assumptions that the
   search proofs make of a game.
