------------------------------ MODULE MCHashTable ------------------------------
(***************************************************************************)
(* Small tables for HashTable.  The keys in Colliding collide in a table   *)
(* of four main buckets, and all keys do in one of one or of two.          *)
(***************************************************************************)
EXTENDS HashTable

CONSTANTS Colliding, other, v0, v1

SmallHash == [k \in Keys |-> IF k \in Colliding THEN 0 ELSE 2]

\* an empty list and one that names a key twice
SmallLists == {<<>>} \cup {<<<<k, v1>>, <<other, v1>>, <<k, v0>>>> : k \in Colliding}
SmallOthers == {<<<<other, v1>>, <<k, v0>>>> : k \in Colliding}

\* the colliding keys have one hash, and every constant treats them alike
Symmetry == Permutations(Colliding)
===============================================================================
