---------------------------- MODULE MCMateSearch ----------------------------
(***************************************************************************)
(* The depth-first search on small games.                                  *)
(***************************************************************************)
EXTENDS MateSearchDirect, SmallGames

\* Boards b and c have a mate in one, by z, and can also go back and forth
\* between each other, by x and y.  Board b is reached after q, whose other
\* reply d escapes; board c after x and, by another line of play, after k.
\* On the first line y is circular, on the second it is not.
BackAndForth ==
  <<[maxTo |-> [a |-> {"q", "u"}, b |-> {"x", "z"}, c |-> {"y", "z"},
                d |-> {"w"}, e |-> {"v"}, f |-> {"k"}],
     minTo |-> [q |-> {"b", "d"}, x |-> {"c"}, y |-> {"b"}, z |-> {},
                u |-> {"e"}, v |-> {"f"}, k |-> {"c"}, w |-> {}],
     check |-> {"z"},
     back  |-> {<<"x", "c", "y">>, <<"y", "b", "x">>}]>>

----------------------------------------------------------------------------
MCSigs          == AllPos
MCSig(pos)      == pos
AnyOrder(S, x)  == TRUE
SameGame(p, r)  == p.g = r.g
Never(p, r)     == FALSE
MCCircular(prev, p, q) == <<prev.n, p.n, q.n>> \in Game[p.g].back

\* The boards of game g with a direct mate in at most h rounds.
Reversible(g, p) ==
  {t[3] : t \in {u \in g.back : u[2] = p /\ p \in g.minTo[u[1]]}}
RECURSIVE DirectWon(_, _), DirectLost(_, _)
DirectWon(g, h) ==
  IF h = 0 THEN {}
  ELSE LET lost == DirectLost(g, h)
       IN  {n \in DOMAIN g.maxTo : (g.maxTo[n] \ Reversible(g, n)) \cap lost # {}}
DirectLost(g, h) ==
  LET won == DirectWon(g, h - 1)
  IN  {n \in DOMAIN g.minTo : IF g.minTo[n] = {} THEN n \in g.check
                                                 ELSE g.minTo[n] \subseteq won}

AllDirectMates ==
  [pos \in AllPos |->
     LET g == Game[pos.g]
     IN  Smallest({Levels + 1} \cup
           {h \in 1 .. Levels : pos.n \in DirectWon(g, h) \cup DirectLost(g, h)})]
MCDirectMate(pos) == AllDirectMates[pos]

\* Each board has a signature of its own, so that SigFaithful holds.
ASSUME SignaturesDiffer == \A pos \in AllPos : Sig(pos) = pos
=============================================================================
