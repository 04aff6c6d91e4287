------------------------------ MODULE MateGame ------------------------------
(***************************************************************************)
(* The game that both programs search.  A board with the maximising side   *)
(* (the one that moves first) to move is an element of MaxPos, one with    *)
(* the minimising side to move an element of MinPos.  MaxMoves and MinMoves*)
(* give the boards that the legal moves lead to.  Which moves are legal is *)
(* the subject of module Round; here the game is any game.                 *)
(***************************************************************************)
EXTENDS Integers

CONSTANTS
  MaxPos, MinPos,      \* boards by side to move
  MaxMoves(_),         \* MaxPos -> subset of MinPos
  MinMoves(_),         \* MinPos -> subset of MaxPos
  MaxChecked(_),       \* the maximising king is in check on a MaxPos board
  MinChecked(_),       \* the minimising king is in check on a MinPos board
  MateMax(_),          \* rounds to a forced mate from a MaxPos board
  MateMin(_),          \* rounds to a forced mate from a MinPos board
  RootPos,             \* boards the search may be started on
  Levels               \* the largest value of the --moves flag

ASSUME GameAssumption ==
  /\ Levels \in Nat \ {0}
  /\ RootPos \subseteq MaxPos
  /\ \A p \in MaxPos : MaxMoves(p) \subseteq MinPos /\ MaxChecked(p) \in BOOLEAN
  /\ \A q \in MinPos : MinMoves(q) \subseteq MaxPos /\ MinChecked(q) \in BOOLEAN

(***************************************************************************)
(* The reference the searches are measured by: MateMax and MateMin count   *)
(* the rounds of the shortest forced mate, and say nothing (beyond being   *)
(* larger than any level) where there is none.                             *)
(***************************************************************************)
ASSUME MateAssumption ==
  /\ \A p \in MaxPos : MateMax(p) \in Nat
  /\ \A q \in MinPos : MateMin(q) \in Nat
  /\ \A p \in MaxPos, h \in 1 .. Levels :
       MateMax(p) <= h <=> \E q \in MaxMoves(p) : MateMin(q) <= h
  /\ \A q \in MinPos, h \in 1 .. Levels :
       MateMin(q) <= h <=>
         \/ MinMoves(q) = {} /\ MinChecked(q)
         \/ /\ MinMoves(q) # {}
            /\ h > 1
            /\ \A p \in MinMoves(q) : MateMax(p) <= h - 1
=============================================================================
