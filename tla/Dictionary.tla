------------------------------ MODULE Dictionary ------------------------------
(***************************************************************************)
(* What HashTable<Key, Value> promises to the code that uses it: a finite  *)
(* map.  Insertion never overwrites, subscripting creates what is missing, *)
(* and no operation touches any other key.                                 *)
(***************************************************************************)
EXTENDS Functions

CONSTANTS
  Keys, Values,
  Default,  \* what subscripting an absent key creates
  Others    \* the maps that may be merged in

VARIABLE dict

Maps == UNION {[S -> Values] : S \in SUBSET Keys}

\* the entries of `new' win over those of `old'
Override(new, old) ==
  [k \in DOMAIN new \cup DOMAIN old |-> IF k \in DOMAIN new THEN new[k] ELSE old[k]]

NoEntry == [k \in {} |-> Default]
Entry(k, v) == [x \in {k} |-> v]

(* The maps that one operation on m can lead to.                           *)
Inserted(m) == {Override(m, Entry(k, v)) : k \in Keys, v \in Values}
Assigned(m) == {Override(Entry(k, v), m) : k \in Keys, v \in Values}
Subscripted(m) == {Override(m, Entry(k, Default)) : k \in Keys}
Erased(m) == {Restrict(m, DOMAIN m \ {k}) : k \in Keys}
Merged(m) == {Override(m, other) : other \in Others}

Outcomes(m) ==
  Inserted(m) \cup Assigned(m) \cup Subscripted(m) \cup Erased(m) \cup Merged(m) \cup {NoEntry}

Init == dict \in Maps

Next == dict' \in Outcomes(dict)

Spec == Init /\ [][Next]_dict
===============================================================================
