----------------------------- MODULE MCEvaluate -----------------------------
(***************************************************************************)
(* The breadth-first evaluation on small games.  A board that no move leads*)
(* to may have been set up with the opponent in check.                     *)
(***************************************************************************)
EXTENDS Evaluate, SmallGames, SequencesExt

MCOtherChecked(p) ==
  /\ p.n = "b"
  /\ \A n \in {"x", "y"} : "b" \notin Game[p.g].minTo[n]
MCListed(S) == SetToSeq(S)

RECURSIVE MCCornered(_, _), MCDoomed(_, _)
MCCornered(q, h) ==
  IF MCMinMoves(q) = {} \/ h = 1 THEN MCMinChecked(q)
  ELSE \A p \in MCMinMoves(q) : \E r \in MCMaxMoves(p) : MCCornered(r, h - 1)
MCDoomed(p, h) ==
  /\ MCMaxChecked(p)
  /\ \A q \in MCMaxMoves(p) : \E r \in MCMinMoves(q) : h > 1 /\ MCDoomed(r, h - 1)
=============================================================================
