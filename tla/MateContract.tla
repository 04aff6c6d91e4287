---------------------------- MODULE MateContract ----------------------------
(***************************************************************************)
(* What a mate solver promises, whatever algorithm and whatever memory of  *)
(* earlier questions it uses: it is asked for a mate on a board within a   *)
(* number of rounds, and announces a mate only where there is one.  Which  *)
(* mates it finds is said in module DirectContract.                        *)
(***************************************************************************)
EXTENDS MateGame

VARIABLES
  asked,    \* the board in question
  depth,    \* the number of rounds to look ahead
  answer    \* "none" while the solver works, then "mate" or "nomate"

vars == <<asked, depth, answer>>

Sound == answer' = "mate" => MateMax(asked) <= depth

Init ==
  /\ asked \in RootPos
  /\ depth \in 1 .. Levels
  /\ answer = "none"

Answer ==
  /\ answer = "none"
  /\ answer' \in {"mate", "nomate"}
  /\ Sound
  /\ UNCHANGED <<asked, depth>>

Ask ==
  /\ answer # "none"
  /\ asked' \in RootPos
  /\ depth' \in 1 .. Levels
  /\ answer' = "none"

\* A solver that announces no mate that is not there.
SoundSpec == Init /\ [][Answer \/ Ask]_vars
=============================================================================
