-------------------------------- MODULE MCValues --------------------------------
(***************************************************************************)
(* A few objects, one string and a few places for Values.                  *)
(***************************************************************************)
EXTENDS Values, TLC

\* objects are alike, and so are places
Symmetry == Permutations(Objects) \cup Permutations(Cells)
===============================================================================
