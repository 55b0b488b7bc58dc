-------------------------------- MODULE MCTable --------------------------------
(***************************************************************************)
(* Small tables for Table: one String, a negative Integer, and enough      *)
(* others for the hash table to be crowded.                                *)
(***************************************************************************)
EXTENDS Table

CONSTANTS name

SmallNumbers == -1 .. 4

\* no operation looks at a value
Symmetry == Permutations(Values)
===============================================================================
