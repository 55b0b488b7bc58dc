------------------------------- MODULE HashTable -------------------------------
(***************************************************************************)
(* HashTable.h: a chained hash table in one block of memory.  The first    *)
(* mainCap buckets are indexed by the hash, the rest are "collision"       *)
(* buckets, linked behind the main bucket their key hashes to.  Buckets    *)
(* are numbered from 0 and a Bucket* is such a number, or Nil; a copy of   *)
(* the table rebases its pointers, which leaves the numbers as they are.   *)
(*                                                                         *)
(* The table is one record, since rehash() and merge() pass it through     *)
(* several steps within one operation:                                     *)
(*   bucket   bucket_block; its domain is 0 .. total_capacity - 1          *)
(*   mainCap  main_capacity; the collision memory is what follows          *)
(*   nextFree collision_data.next                                          *)
(*   holes    collision_data.known_holes                                   *)
(*   count    used_bucket_count                                            *)
(***************************************************************************)
EXTENDS Integers, FiniteSets, Sequences, SequencesExt, FiniteSetsExt, Functions

CONSTANTS
  Keys, Values,
  Default,     \* Value()
  Hash,        \* std::hash<Key>
  Lists,       \* initializer lists: sequences of <<key, value>>
  Others,      \* tables that are merged in, as sequences of <<key, value>>
  Requests,    \* capacities asked of ensure_capacity
  MaxCapacity  \* bound: total_capacity

Nil == -1
NoKey == "no key"

ASSUME DefaultAssumption == Default \in Values /\ NoKey \notin Keys
ASSUME HashAssumption == Hash \in [Keys -> Nat]
ASSUME RequestsAssumption == Requests \subseteq Nat
ASSUME ListsAssumption == Lists \cup Others \subseteq Seq(Keys \X Values)

VARIABLE table

Ratio == 4           \* collision_block_ratio

Unused == [used |-> FALSE, key |-> NoKey, value |-> Default, next |-> Nil]
Holding(k, v, n) == [used |-> TRUE, key |-> k, value |-> v, next |-> n]

Total(t) == Cardinality(DOMAIN t.bucket)
CollisionCap(t) == Total(t) - t.mainCap

Empty(main, collision) ==
  [bucket |-> [i \in 0 .. main + collision - 1 |-> Unused],
   mainCap |-> main, nextFree |-> 0, holes |-> <<>>, count |-> 0]

\* hash & (main_capacity - 1), the capacity being a power of two
Index(t, k) == Hash[k] % t.mainCap

\* next_collision_bucket of every bucket; nothing is behind Nil
Link(t) == [b \in DOMAIN t.bucket \cup {Nil} |-> IF b = Nil THEN Nil ELSE t.bucket[b].next]

\* the bucket that so many links lead to from bucket i, or Nil; no chain is
\* longer than the block
Walk(t, i) ==
  LET reached[n \in 0 .. Total(t)] == IF n = 0 THEN i ELSE Link(t)[reached[n - 1]]
  IN reached

\* the buckets linked from bucket i on, i first
Chain(t, i) ==
  LET w == Walk(t, i)
  IN [n \in 1 .. Cardinality({x \in DOMAIN w : w[x] # Nil}) |-> w[n - 1]]

ChainEnd(t, i) ==
  LET w == Walk(t, i) IN w[CHOOSE n \in DOMAIN w : w[n] # Nil /\ Link(t)[w[n]] = Nil]

\* the bucket of a key: the first on the chain that holds it; the search ends at
\* a bucket that is not in use
At(t, k) ==
  LET w == Walk(t, Index(t, k))
      Holds(b) == t.bucket[b].used /\ t.bucket[b].key = k
      Passed(b) == t.bucket[b].used /\ t.bucket[b].key # k
      met == {b \in DOMAIN t.bucket :
                Holds(b) /\ \E n \in DOMAIN w : w[n] = b /\ \A m \in 0 .. n - 1 : Passed(w[m])}
  IN IF met = {} THEN Nil ELSE CHOOSE b \in met : TRUE

Has(t, k) == At(t, k) # Nil

-----------------------------------------------------------------------------
(* Finding a bucket for a new key.                                         *)

\* a known hole is taken first, then the next free bucket at or after `next';
\* the bucket is not marked as used yet, so `next' stays on it
Allocate(t) ==
  IF t.holes # <<>> THEN [slot |-> Head(t.holes), table |-> [t EXCEPT !.holes = Tail(@)]]
  ELSE LET free == {n \in t.nextFree .. CollisionCap(t) - 1 : ~t.bucket[t.mainCap + n].used}
       IN IF free = {} THEN [slot |-> Nil, table |-> [t EXCEPT !.nextFree = CollisionCap(t)]]
          ELSE [slot |-> t.mainCap + Min(free), table |-> [t EXCEPT !.nextFree = Min(free)]]

\* the bucket is filled behind the last of a chain
Linked(t, tail, slot, k, v) ==
  [t EXCEPT !.bucket[tail].next = slot, !.bucket[slot] = Holding(k, v, @.next)]

\* mutant: the chain of the old block is not broken up
MoveKeepingNext(new, old) ==
  IF ~old.used THEN new
  ELSE LET i == Index(new, old.key) IN
       IF ~new.bucket[i].used THEN [new EXCEPT !.bucket[i] = old]
       ELSE LET a == Allocate(new)
            IN Linked(a.table, ChainEnd(new, i), a.slot, old.key, old.value)

\* the old bucket moved to its place in the new block, if it is in use.  The
\* allocation cannot fail here, see RehashFits.
MoveOne(new, old) ==
  IF ~old.used THEN new
  ELSE LET i == Index(new, old.key) IN
       IF ~new.bucket[i].used
       THEN [new EXCEPT !.bucket[i] = Holding(old.key, old.value, Nil)]
       ELSE LET a == Allocate(new)
            IN Linked(a.table, ChainEnd(new, i), a.slot, old.key, old.value)

\* mutant: stops one doubling early
DoubledOnceLess(m, want) == IF 2 * (m + Ratio * m) <= want THEN 2 * m ELSE m

\* one turn of the loop of compute_real_capacities
Doubled(m, want) == IF m + Ratio * m < want THEN 2 * m ELSE m

\* compute_real_capacities as C++17 builds it (meson.build, cpp_std), called with
\* its two results swapped: main memory gets the smaller share.  The loop has no
\* more turns than `want'.
MainFor(want) ==
  LET doubled[n \in 0 .. want] == IF n = 0 THEN 1 ELSE Doubled(doubled[n - 1], want)
  IN doubled[want]

\* every bucket in use is moved, in the order of the old block
Rehash(t, want) ==
  LET m == MainFor(want)
      moved[n \in 0 .. Total(t)] ==
        IF n = 0 THEN Empty(m, Ratio * m) ELSE MoveOne(moved[n - 1], t.bucket[n - 1])
  IN [moved[Total(t)] EXCEPT !.count = t.count]

\* mutant: the new bucket is linked behind the main bucket, whatever that links to
PlaceAtHead(t, k, v) ==
  LET i == Index(t, k)
      a == Allocate(t)
  IN IF ~t.bucket[i].used THEN [t EXCEPT !.bucket[i] = Holding(k, v, @.next)]
     ELSE Linked(a.table, i, a.slot, k, v)

\* a key that is absent gets the main bucket, or a collision bucket behind the
\* last of the chain
Place(t, k, v) ==
  LET i == Index(t, k)
      a == Allocate(t)
  IN IF ~t.bucket[i].used THEN [t EXCEPT !.bucket[i] = Holding(k, v, @.next)]
     ELSE Linked(a.table, ChainEnd(t, i), a.slot, k, v)

HasRoom(t, k) == ~t.bucket[Index(t, k)].used \/ Allocate(t).slot # Nil

\* mutant: the caller of make_bucket forgets used_bucket_count
AddedUncounted(t, k, v) == Place(IF HasRoom(t, k) THEN t ELSE Rehash(t, 2 * Total(t)), k, v)

\* make_bucket, or the same in operator[]; when collision memory is full the
\* table is rehashed and the search begins again, successfully: see RehashFits
Added(t, k, v) ==
  LET r == IF HasRoom(t, k) THEN t ELSE Rehash(t, 2 * Total(t))
  IN [Place(r, k, v) EXCEPT !.count = @ + 1]

\* mutant: insert() overwrites
InsertOverwrites(t, k, v) ==
  IF Has(t, k) THEN [t EXCEPT !.bucket[At(t, k)].value = v] ELSE Added(t, k, v)

InsertIn(t, k, v) == IF Has(t, k) THEN t ELSE Added(t, k, v)
AssignIn(t, k, v) ==
  IF Has(t, k) THEN [t EXCEPT !.bucket[At(t, k)].value = v] ELSE Added(t, k, v)

\* the pairs of a list, one after another
InsertAll(t, list) ==
  LET done[n \in 0 .. Len(list)] ==
        IF n = 0 THEN t ELSE InsertIn(done[n - 1], list[n][1], list[n][2])
  IN done[Len(list)]

\* mutant: the last collision bucket is promoted
PromotedLast(t, i) ==
  LET c == Chain(t, i)
      j == Last(c)
  IN [t EXCEPT !.holes = Append(@, j), !.bucket[c[Len(c) - 1]].next = Nil, !.bucket[j] = Unused,
               !.bucket[i] = [t.bucket[j] EXCEPT !.next = IF Len(c) > 2 THEN t.bucket[i].next ELSE Nil]]

\* mutant: the bucket that is filled again is remembered as the hole
PromotedWrongHole(t, i) ==
  LET j == t.bucket[i].next
  IN [t EXCEPT !.holes = Append(@, i), !.bucket[i] = t.bucket[j], !.bucket[j] = Unused]

\* the key's bucket in main memory: the first collision bucket takes its place
Promoted(t, i) ==
  LET j == t.bucket[i].next
  IN [t EXCEPT !.holes = Append(@, j), !.bucket[i] = t.bucket[j], !.bucket[j] = Unused]

\* mutant: the freed bucket is not remembered
UnlinkedForgotten(t, p, j) ==
  [t EXCEPT !.bucket[p].next = t.bucket[j].next, !.bucket[j] = Unused]

\* the key's bucket j in collision memory, behind p
Unlinked(t, p, j) ==
  [t EXCEPT !.bucket[p].next = t.bucket[j].next, !.bucket[j] = Unused, !.holes = Append(@, j)]

\* mutant: counts down for a key that is absent, too
RemoveCountsAlways(t, k) ==
  LET i == Index(t, k)
  IN [t EXCEPT !.count = @ - 1, !.bucket[i] = IF Has(t, k) /\ At(t, k) = i THEN Unused ELSE @]

RemoveFrom(t, k) ==
  LET i == Index(t, k)
      w == Walk(t, i)
      n == CHOOSE x \in DOMAIN w : w[x] = At(t, k)
      r == IF n > 0 THEN Unlinked(t, w[n - 1], w[n])
           ELSE IF t.bucket[i].next # Nil THEN Promoted(t, i)
           ELSE [t EXCEPT !.bucket[i] = Unused]
  IN IF Has(t, k) THEN [r EXCEPT !.count = @ - 1] ELSE t

-----------------------------------------------------------------------------
(* The operations.                                                         *)

\* the default constructor gives main memory the larger share, the one from
\* an initializer list rehashes first
Init ==
  \/ table = Empty(Ratio, 1)
  \/ \E list \in Lists :
       LET m == MainFor(IF list = <<>> THEN Ratio + 1 ELSE Len(list))
       IN table = InsertAll(Empty(m, Ratio * m), list)

Insert(k, v) == table' = InsertIn(table, k, v)
Assign(k, v) == table' = AssignIn(table, k, v)
Subscript(k) == table' = IF Has(table, k) THEN table ELSE Added(table, k, Default)
Erase(k) == table' = RemoveFrom(table, k)
Merge(list) == table' = InsertAll(table, list)

EnsureCapacity(n) == n > Total(table) /\ table' = Rehash(table, n)

\* a copy of the table, which is used from now on
Copy == table' = [table EXCEPT !.holes = <<>>]

\* clear(): a fresh table is moved in
Clear == table' = Empty(Ratio, 1)

Next ==
  /\ \/ \E k \in Keys, v \in Values : Insert(k, v) \/ Assign(k, v)
     \/ \E k \in Keys : Subscript(k) \/ Erase(k)
     \/ \E list \in Others : Merge(list)
     \/ \E n \in Requests : EnsureCapacity(n)
     \/ Copy
     \/ Clear
  /\ Cardinality(DOMAIN table'.bucket) <= MaxCapacity

Spec == Init /\ [][Next]_table

-----------------------------------------------------------------------------
(* Properties.                                                             *)

Slots == DOMAIN table.bucket
MainSlots == 0 .. table.mainCap - 1
InUse == {i \in Slots : table.bucket[i].used}

\* Type invariant.
TypeOK ==
  /\ table.mainCap \in Nat \ {0}
  /\ Slots = 0 .. Total(table) - 1
  /\ table.bucket \in [Slots -> [used : BOOLEAN, key : Keys \cup {NoKey},
                                 value : Values, next : Slots \cup {Nil}]]
  /\ table.nextFree \in 0 .. CollisionCap(table)
  /\ table.holes \in Seq(Slots)
  /\ table.count \in 0 .. Total(table)

\* A chain holds buckets in use only, whose keys hash to its main bucket, and
\* none but the first in main memory; no key is in two buckets; a bucket that is
\* not in use links to nothing.  at_bucket() gives up at an unused bucket, and
\* operator[] would fill it: the promotion in remove() and the relinking in
\* rehash() have to leave none on a chain.
ChainsSound ==
  /\ \A i \in MainSlots \cap InUse :
       LET c == Chain(table, i) IN
       \A j \in DOMAIN c :
         /\ table.bucket[c[j]].used
         /\ Index(table, table.bucket[c[j]].key) = i
         /\ j > 1 => c[j] >= table.mainCap
  /\ \A i, j \in InUse : table.bucket[i].key = table.bucket[j].key => i = j
  /\ \A i \in Slots \ InUse : table.bucket[i].next = Nil

\* A hole is a free bucket of the collision memory and is queued once, so that
\* no bucket is handed to two keys, whatever order removals, rehashes and copies
\* of the table come in (known_holes, line 207, and allocate_collision_bucket).
HolesFree ==
  /\ IsInjective(table.holes)
  /\ \A h \in Range(table.holes) : h >= table.mainCap /\ ~table.bucket[h].used

\* A free bucket behind `next' that is not a known hole is never used again.
Lost(t) == {i \in t.mainCap .. t.mainCap + t.nextFree - 1 :
              ~t.bucket[i].used /\ i \notin Range(t.holes)}

\* Only copying a table (block_copy drops the holes, its FIXME at line 423)
\* loses buckets: remove() and rehash() account for every one they free.
NothingLost == [][Copy \/ Lost(table') \subseteq Lost(table)]_table

\* size() is the number of keys the table holds: clear_bucket_block() counts
\* down from it and stops destroying entries at zero.
SizeExact == table.count = Cardinality({k \in Keys : Has(table, k)})

\* the order of Iterator: each used main bucket, and its chain
Iteration(t) ==
  LET visited[n \in 0 .. t.mainCap] ==
        IF n = 0 THEN <<>>
        ELSE visited[n - 1] \o (IF t.bucket[n - 1].used THEN Chain(t, n - 1) ELSE <<>>)
  IN visited[t.mainCap]

\* An iteration visits every entry exactly once: the chains are disjoint, and
\* every bucket in use is on one (clear_bucket_block() walks them the same way).
IterationExact ==
  LET it == Iteration(table)
  IN IsInjective(it) /\ Range(it) = InUse

\* A rehash finds room in collision memory for every key and for one more, so
\* that the branch of rehash() that throws the new block away, with the entries
\* it already holds, is never taken, and make_bucket() tries again only once.
RehashFits == table.count < Ratio * MainFor(Total(table) + 1)

\* An operation moves an entry from one bucket to another only when it rehashes
\* (or rebuilds) the block, or when it removes the key at the head of the
\* entry's chain: a Value& from at() or operator[] survives everything else.
EntriesStay ==
  [][ (DOMAIN table.bucket = DOMAIN table'.bucket /\ table.mainCap = table'.mainCap) =>
        \A i \in InUse :
          LET head == Index(table, table.bucket[i].key)
              Keeps(j) == table'.bucket[j].key = table.bucket[i].key
          IN \/ Keeps(i)
             \/ \A j \in Slots : ~Keeps(j)
             \/ Keeps(head) /\ table.bucket[head].next = i /\ table'.count < table.count ]_table

\* The table is the finite map its users take it for.
Contents == [k \in {x \in Keys : Has(table, x)} |-> table.bucket[At(table, k)].value]
AsMap(list) ==
  [k \in {list[i][1] : i \in DOMAIN list} |->
     list[Min({i \in DOMAIN list : list[i][1] = k})][2]]
Map == INSTANCE Dictionary WITH dict <- Contents, Others <- {AsMap(list) : list \in Others}
IsMap == Map!Spec
===============================================================================
