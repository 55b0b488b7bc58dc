--------------------------------- MODULE Table ---------------------------------
(***************************************************************************)
(* Tables (Table.cpp, the natives of nativefuncs/tablelib.cpp that change  *)
(* one, the order of ForEachBlock in AST.cpp).  A table is an array for    *)
(* the indices 0, 1, ... and a hash table for all the others, and moves    *)
(* entries between the two.  The hash table is the finite map that module  *)
(* HashTable shows it to be.  Doubles, which are rounded to an Integer     *)
(* first, and indices of other types, which are refused, are left out.     *)
(***************************************************************************)
EXTENDS Integers, Sequences, FiniteSets, SequencesExt, FiniteSetsExt, Functions

CONSTANTS
  Strings,    \* the Strings used as indices
  Numbers,    \* the Integers used as indices
  Values,     \* what tables hold, other than Null
  Null,       \* Value()
  MaxLength   \* bound: elements in the array

ASSUME IndicesAssumption ==
  Numbers \subseteq Int /\ Strings \cap Int = {} /\ IsFiniteSet(Strings)
ASSUME NullAssumption == Null \notin Values

VARIABLES t_array, t_hash

vars == <<t_array, t_hash>>

Indices == Strings \cup Numbers
Contents == Values \cup {Null}

Length(a) == Len(a)
InArray(a, i) == i \in Int /\ 0 <= i /\ i < Length(a)
Get(a, i) == a[i + 1]

Put(h, k, v) == [x \in DOMAIN h \cup {k} |-> IF x = k THEN v ELSE h[x]]
Without(h, ks) == Restrict(h, DOMAIN h \ ks)

\* the hash entries that continue the array
FirstGap(a, h) == CHOOSE n \in Length(a) .. Length(a) + Cardinality(DOMAIN h) :
  n \notin DOMAIN h /\ \A m \in Length(a) .. n - 1 : m \in DOMAIN h

\* the entries from Length(a) up to, not including, n move to the array
Moved(a, h, n) ==
  [array |-> a \o [i \in 1 .. n - Length(a) |-> h[Length(a) + i - 1]],
   hash |-> Without(h, Length(a) .. n - 1)]

\* Table::at, which reads only
At(a, h, i) ==
  IF InArray(a, i) THEN Get(a, i) ELSE IF i \in DOMAIN h THEN h[i] ELSE Null

Lookup(i) == At(t_array, t_hash, i)

\* size() / capacity() as a float is more than the double 0.8.  Four fifths is: as a float it is 0.8
\* rounded up.  The capacity is 5 or, once collision memory has run out, more.
Crowded(h) == IF Cardinality(DOMAIN h) >= 4 THEN BOOLEAN ELSE {FALSE}

\* mutant: an index beyond the end is taken for the next one
TallocAppends(a, h, i, v) ==
  IF i \in Strings \/ i < 0 THEN {[array |-> a, hash |-> Put(h, i, v)]}
  ELSE IF i < Length(a) THEN {[array |-> [a EXCEPT ![i + 1] = v], hash |-> h]}
  ELSE IF i \in DOMAIN h THEN {[array |-> a, hash |-> Put(h, i, v)]}
  ELSE {[array |-> Append(a, v), hash |-> h]}

\* Table::talloc, the outcomes
Talloc(a, h, i, v) ==
  LET hashed == [array |-> a, hash |-> Put(h, i, v)]
      moved == Moved(a, h, i)
  IN IF i \in Strings \/ i < 0 THEN {hashed}
     ELSE IF i = Length(a) THEN {[array |-> Append(a, v), hash |-> h]}
     ELSE IF i < Length(a) THEN {[array |-> [a EXCEPT ![i + 1] = v], hash |-> h]}
     ELSE IF i \in DOMAIN h THEN {hashed}
     ELSE {IF crowded \/ FirstGap(a, h) < i THEN hashed
           ELSE [moved EXCEPT !.array = Append(@, v)] : crowded \in Crowded(h)}

Becomes(t) == t_array' = t.array /\ t_hash' = t.hash

\* mutant: at_ref leaves the search to talloc
AssignAllocates(i, v) == \E t \in Talloc(t_array, t_hash, i, v) : Becomes(t)

\* t[i] = v: at_ref finds the entry, or allocates it with Null, and v is stored
\* there; with Null for v, any use of t[i] that only wants a reference to it
Assign(i, v) ==
  IF InArray(t_array, i)
  THEN Becomes([array |-> [t_array EXCEPT ![i + 1] = v], hash |-> t_hash])
  ELSE IF i \in DOMAIN t_hash
  THEN Becomes([array |-> t_array, hash |-> Put(t_hash, i, v)])
  ELSE \E t \in Talloc(t_array, t_hash, i, v) : Becomes(t)

\* the position /table/insert computes, `index || as_int', is a truth value
Position(i) == IF i = 0 THEN 0 ELSE 1

\* mutant: the hash entries that continue the array stay where they are
InsertLeavesHash(i, v) ==
  IF i \notin Strings /\ Position(i) < Length(t_array)
  THEN Becomes([array |-> InsertAt(t_array, Position(i) + 1, v), hash |-> t_hash])
  ELSE \E t \in Talloc(t_array, t_hash, i, v) : Becomes(t)

\* /table/insert
Insert(i, v) ==
  IF i \notin Strings /\ Position(i) < Length(t_array)
  THEN LET m == Moved(t_array, t_hash, FirstGap(t_array, t_hash))
       IN Becomes([m EXCEPT !.array = InsertAt(@, Position(i) + 1, v)])
  ELSE \E t \in Talloc(t_array, t_hash, i, v) : Becomes(t)

\* mutants: the hash entries that continue the array stay where they are, and
\* every Integer of the hash table is counted down
FreeLeavesHash(i) ==
  IF InArray(t_array, i) THEN Becomes([array |-> RemoveAt(t_array, i + 1), hash |-> t_hash])
  ELSE Becomes([array |-> t_array, hash |-> Without(t_hash, {i})])
FreeRenumbers(i) ==
  LET numbers == {k \in DOMAIN t_hash : k \notin Strings}
      strings == [k \in DOMAIN t_hash \cap Strings |-> t_hash[k]]
  IN IF InArray(t_array, i)
     THEN Becomes([array |-> RemoveAt(t_array, i + 1),
                   hash |-> [k \in {n - 1 : n \in numbers} |-> t_hash[k + 1]] @@ strings])
     ELSE Becomes([array |-> t_array, hash |-> Without(t_hash, {i})])

\* /table/remove, that is Table::tfree: the array is closed up
Free(i) ==
  IF InArray(t_array, i)
  THEN LET m == Moved(t_array, t_hash, FirstGap(t_array, t_hash))
       IN Becomes([m EXCEPT !.array = RemoveAt(@, i + 1)])
  ELSE Becomes([array |-> t_array, hash |-> Without(t_hash, {i})])

\* /table/New(...) and the table literals
Init ==
  /\ t_array \in BoundedSeq(Values, 2)
  /\ t_hash \in UNION {[S -> Values] : S \in SUBSET Strings}

Next ==
  /\ \E i \in Indices :
       \/ \E v \in Contents : Assign(i, v) \/ Insert(i, v)
       \/ Free(i)
  /\ Length(t_array') <= MaxLength

Spec == Init /\ [][Next]_vars

-----------------------------------------------------------------------------
(* Properties.                                                             *)

\* Type invariant.
TypeOK ==
  /\ t_array \in Seq(Contents)
  /\ t_hash \in [DOMAIN t_hash -> Contents]
  /\ DOMAIN t_hash \subseteq Indices

\* An assignment changes what its index reads, and nothing else: no entry is
\* lost, doubled or misplaced when talloc() moves a stretch of the hash table
\* to the array, whatever was assigned, inserted or removed before.
AssignExact ==
  [][ \A i \in Indices, v \in Contents : Assign(i, v) =>
        /\ Lookup(i)' = v
        /\ \A j \in Indices \ {i} : Lookup(j)' = Lookup(j) ]_vars

\* a hash entry that the array hides: talloc() appends to the array without a
\* look at the hash table, when it is called by /table/insert
Shadowed == {k \in DOMAIN t_hash : InArray(t_array, k)}

\* the elements that follow on each other from 0 on, in the array or beyond it
Stretch == FirstGap(t_array, t_hash)

\* what removing index i should leave at index j
AfterFree(i, j) ==
  IF ~InArray(t_array, i) THEN IF j = i THEN Null ELSE Lookup(j)
  ELSE IF j \in Strings \/ j < i \/ j >= Stretch THEN Lookup(j)
  ELSE IF j = Stretch - 1 THEN Null ELSE Lookup(j + 1)

\* Removing an element closes the gap over the border of array and hash table
\* (what testprograms/tests/mustpass/tablelib.jao tests once), and removing any
\* other index leaves all the rest as it was, as long as nothing is shadowed.
FreeExact ==
  [][ \A i \in Indices : (Free(i) /\ Shadowed = {}) =>
        \A j \in Indices : Lookup(j)' = AfterFree(i, j) ]_vars

\* Inserting before the first or the second element moves the elements after it
\* up by one, those in the hash table included, and clobbers none.  (Every other
\* Integer is treated as 1, see Position.)
InsertShifts ==
  [][ \A i \in Numbers \cap {0, 1}, v \in Contents :
        (Insert(i, v) /\ i < Length(t_array) /\ Shadowed = {}) =>
          /\ Lookup(i)' = v
          /\ \A j \in Indices :
               /\ (j \in Strings \/ j < i \/ j > Stretch) => Lookup(j)' = Lookup(j)
               /\ (j \notin Strings /\ i < j /\ j <= Stretch) => Lookup(j)' = Lookup(j - 1) ]_vars

\* A hash entry is hidden only by inserting at the end of the array.
ShadowedByInsert ==
  [][ (Shadowed = {} /\ Shadowed' # {}) =>
        /\ Length(t_array) \in DOMAIN t_hash
        /\ \E v \in Contents : Insert(Length(t_array), v) ]_vars

\* ForEachBlock::resolve, over a table that does not change meanwhile: the array,
\* the hash entries that continue it up to the first Null, and then the hash
\* table, without the Integers below the index reached
Reached == CHOOSE n \in Length(t_array) .. Length(t_array) + Cardinality(DOMAIN t_hash) :
  Lookup(n) = Null /\ \A m \in Length(t_array) .. n - 1 : Lookup(m) # Null
\* mutant: indices reached already are not skipped
VisitsTwice ==
  {<<"array", n, Lookup(n)>> : n \in 0 .. Reached - 1} \cup
  {<<"hash", k, t_hash[k]>> : k \in DOMAIN t_hash}

Visits ==
  {<<"array", n, Lookup(n)>> : n \in 0 .. Reached - 1} \cup
  {<<"hash", k, t_hash[k]>> : k \in {k \in DOMAIN t_hash : k \in Strings \/ k >= Reached}}

\* A for-each loop visits every entry once, with the value that indexing reads,
\* shadowed ones not at all.  (Negative Integers are below the index reached,
\* and are never visited.)
ForEachExact ==
  \A k \in (0 .. Length(t_array) - 1) \cup DOMAIN t_hash :
    (k \in Strings \/ k >= 0) => {v \in Visits : v[2] = k} \in {{<<w, k, Lookup(k)>>} : w \in {"array", "hash"}}
===============================================================================
