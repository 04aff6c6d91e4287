----------------------------- MODULE SmallGames -----------------------------
(***************************************************************************)
(* Small games for the two searches.  A game says where each side can move *)
(* and in which boards of the minimising side the king is in check; a      *)
(* position is a board of one of the games.  The searches of all games run *)
(* side by side, from the boards a and b.                                  *)
(***************************************************************************)
EXTENDS MateGame

CONSTANT Game    \* the games searched, a sequence from 0 or 1 on

\* The subset of {u, v} with the number i % 4.
Pick(i, u, v) ==
  {w \in {u, v} : IF w = u THEN i % 2 = 1 ELSE (i \div 2) % 2 = 1}

\* A game on the boards a, b (maximising side to move) and x, y in which a has
\* a move.  A number below codes says how x and y are left: by the moves
\* Pick(n, "a", "b") and, from 4 on, in check.  The moves x on a and y on b
\* go back and forth with the same piece: a triple of back is a step, a board
\* after it and a step that takes the first one back.
TinyGame(i, codes) ==
  LET x == (i \div 12) % codes
      y == i \div (12 * codes)
  IN  [maxTo |-> [a |-> Pick(1 + (i % 3), "x", "y"),
                  b |-> Pick((i \div 3) % 4, "x", "y")],
       minTo |-> [x |-> Pick(x, "a", "b"), y |-> Pick(y, "a", "b")],
       check |-> {n \in {"x", "y"} : 4 <= IF n = "x" THEN x ELSE y},
       back  |-> {<<"x", "b", "y">>, <<"y", "a", "x">>}]

\* All games in which a check is a mate, for the search that looks at a check
\* only where there is no move; and all games.
TinyGames  == [i \in 0 .. 299 |-> TinyGame(i, 5)]
CheckGames == [i \in 0 .. 767 |-> TinyGame(i, 8)]

----------------------------------------------------------------------------
\* All games have the boards of one of them.
Boards(field) ==
  LET names == DOMAIN Game[CHOOSE i \in DOMAIN Game : TRUE][field]
  IN  {[g |-> i, n |-> n] : i \in DOMAIN Game, n \in names}
After(pos, nodes) == {[g |-> pos.g, n |-> n] : n \in nodes}

\* TLC keeps the values of these; it evaluates a definition that stands for a
\* constant whenever it is used.
AllMaxPos == Boards("maxTo")
AllMinPos == Boards("minTo")
AllPos    == {pos \in AllMaxPos \cup AllMinPos : TRUE}
AllRoots  == {p \in AllMaxPos : p.n \in {"a", "b"}}

MCMaxPos        == AllMaxPos
MCMinPos        == AllMinPos
MCRoots         == AllRoots
MCMaxMoves(p)   == After(p, Game[p.g].maxTo[p.n])
MCMinMoves(q)   == After(q, Game[q.g].minTo[q.n])
MCMaxChecked(p) == p.n = "b"
MCMinChecked(q) == q.n \in Game[q.g].check

----------------------------------------------------------------------------
\* The boards of game g with a forced mate in at most h rounds.
RECURSIVE Won(_, _), Lost(_, _)
Won(g, h) ==
  IF h = 0 THEN {} ELSE LET lost == Lost(g, h)
                        IN  {n \in DOMAIN g.maxTo : g.maxTo[n] \cap lost # {}}
Lost(g, h) ==
  LET won == Won(g, h - 1)
  IN  {n \in DOMAIN g.minTo : IF g.minTo[n] = {} THEN n \in g.check
                                                 ELSE g.minTo[n] \subseteq won}

\* Rounds to a forced mate, Levels + 1 when there is none within Levels.
Smallest(S)  == CHOOSE n \in S : \A m \in S : n <= m
AllMates ==
  [pos \in AllPos |->
     Smallest({Levels + 1} \cup
              {h \in 1 .. Levels : pos.n \in Won(Game[pos.g], h) \cup Lost(Game[pos.g], h)})]
MCMate(pos) == AllMates[pos]
=============================================================================
