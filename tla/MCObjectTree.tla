----------------------------- MODULE MCObjectTree -----------------------------
(***************************************************************************)
(* A line of four directories and a branch in its middle, for ObjectTree.  *)
(***************************************************************************)
EXTENDS ObjectTree

SmallPaths == {<<"a">>, <<"a", "b">>, <<"a", "b", "c">>, <<"a", "b", "c", "d">>, <<"a", "b", "e">>}
===============================================================================
