--------------------------- MODULE DirectContract ---------------------------
(***************************************************************************)
(* A mate solver that announces no mate that is not there, finds the mates *)
(* that it is bound to find, and answers every question.                   *)
(***************************************************************************)
EXTENDS MateContract

CONSTANT MustFind(_, _)    \* the mates on a board within some rounds that the
                           \* solver may not miss

Complete == answer' = "nomate" => ~MustFind(asked, depth)

DirectAnswer == Answer /\ Complete

\* Every question is answered.
Responsive == answer = "none" ~> answer # "none"

\* A solver that answers, if at all, without a false mate and without missing
\* one that it must find; and one that answers every question.
DirectSafety == Init /\ [][DirectAnswer \/ Ask]_vars
DirectSpec   == DirectSafety /\ Responsive
=============================================================================
