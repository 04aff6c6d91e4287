---------------------------- MODULE MCBoardFile ----------------------------
(***************************************************************************)
(* Lines for the board loader: both kings on two squares, a piece on a     *)
(* square a king can also have, a comment, an empty line, and lines that   *)
(* fail each of the CHECKs (length, letter, file and rank just outside the *)
(* board, codes whose difference leaves the range of int8_t).              *)
(***************************************************************************)
EXTENDS BoardFile

Line(letter, file, rank) ==
  [size |-> 3, letter |-> letter, file |-> file, rank |-> rank]

\* 97 is 'a' and 49 is '1'.
TestLines ==
  {Line(l, f, 49) : l \in {"K", "k", "q"}, f \in {97, 98}} \cup
  {Line("K", 104, 56), Line("R", 104, 56), Line("p", 97, 56),
   Line("x", 97, 49), Line("p", 105, 49), Line("p", 96, 49),
   Line("p", 97, 57), Line("p", 97, 48), Line("p", -127, -128),
   [size |-> 0, letter |-> "", file |-> 0, rank |-> 0],
   [size |-> 2, letter |-> "#", file |-> 32, rank |-> 0],
   [size |-> 4, letter |-> "k", file |-> 97, rank |-> 49]}
============================================================================
