--------------------------------- MODULE Values ---------------------------------
(***************************************************************************)
(* Reference counts (Value.h, Value.cpp).  A Value that holds an Object    *)
(* counts for it in the table cached_ptrs; the Value that takes the count  *)
(* to zero deletes the Object, whose destructor destroys the Values the    *)
(* Object holds, and so on.  A string is shared by all Values that hold    *)
(* its characters and counted in the same table.  Other Values are Null.   *)
(*                                                                         *)
(* A place is where a Value may be: a cell (a variable, an argument,       *)
(* Interpreter::tempvalue, a local of the C++ code), or an Object o, for   *)
(* the one Value that o holds.                                             *)
(***************************************************************************)
EXTENDS Integers, FiniteSets, Functions

CONSTANTS
  Objects,
  Strings,
  Cells,
  CountBits,  \* bound: the width of a count, 32 in the code
  MaxSurplus  \* bound: how many counts of one thing are lost

Null == "null"

ASSUME PlacesAssumption ==
  /\ Objects \cap Strings = {} /\ Objects \cap Cells = {} /\ Strings \cap Cells = {}
  /\ Null \notin Objects \cup Strings
ASSUME BoundsAssumption ==
  CountBits \in Nat \ {0} /\ MaxSurplus \in Nat /\ IsFiniteSet(Objects) /\ IsFiniteSet(Cells)

VARIABLES
  value,        \* what each place holds
  cached_ptrs,  \* the count of each Object and string that has an entry
  alive,        \* the Objects and strings that are allocated
  surplus       \* history: counts that no Value holds any more

memory == [value |-> value, count |-> cached_ptrs, alive |-> alive]
vars == <<value, cached_ptrs, alive, surplus>>

Places == Cells \cup Objects
Shared == Objects \cup Strings
Wrap(n) == n % 2^CountBits

\* no count wraps: 2^32 Values are 64 GB, and as many assignments have to be lost
ASSUME CountsFitAssumption == Cardinality(Places) + MaxSurplus < 2^CountBits

\* cached_ptrs[o], which makes an entry if there is none
Count(m, o) == IF o \in DOMAIN m.count THEN m.count[o] ELSE 0
Counted(m, o, n) == [m EXCEPT !.count = [x \in DOMAIN @ \cup {o} |-> IF x = o THEN n ELSE @[x]]]

Reference(m, o) == IF o = Null THEN m ELSE Counted(m, o, Wrap(Count(m, o) + 1))

\* delete, or cached_strings.erase
Deleted(m, o) == [m EXCEPT !.alive = @ \ {o}, !.value = [p \in Places |-> IF p = o THEN Null ELSE @[p]]]

\* mutant: an entry that reaches zero stays
DropKeepsEntry(m, o) ==
  LET n == Wrap(Count(m, o) - 1)
  IN IF n # 0 THEN Counted(m, o, n) ELSE Deleted(Counted(m, o, 0), o)

\* mutant: deleted when one reference is left
DropEarly(m, o) ==
  LET n == Wrap(Count(m, o) - 1)
  IN IF n > 1 THEN Counted(m, o, n) ELSE [Deleted(m, o) EXCEPT !.count = Restrict(@, DOMAIN @ \ {o})]

\* what deref_as_obj() and deref_as_str() do to o itself
Drop(m, o) ==
  LET n == Wrap(Count(m, o) - 1)
  IN IF n # 0 THEN Counted(m, o, n)
     ELSE [Deleted(m, o) EXCEPT !.count = Restrict(@, DOMAIN @ \ {o})]

\* mutant: what a deleted Object holds stays counted
BehindNothing(m, o) == Null

\* ~Value() of the Value that o holds, if this takes the count of the Object o to zero
Behind(m, o) == IF o \in Objects /\ Wrap(Count(m, o) - 1) = 0 THEN m.value[o] ELSE Null

Fall(f) ==
  IF f.next = Null THEN f ELSE [mem |-> Drop(f.mem, f.next), next |-> Behind(f.mem, f.next)]

\* one deletion after another: each leaves an Object less that can be deleted
Dereference(m, o) ==
  LET falling[n \in Nat] == IF n = 0 THEN [mem |-> m, next |-> o] ELSE Fall(falling[n - 1])
  IN falling[Cardinality(Objects) + 1].mem

\* Value(Object*): a known Object is inserted with count 1, and insert() leaves
\* the count it has
Adopt(m, o) == IF o \in DOMAIN m.count THEN m ELSE Reference(m, o)

\* what the place p holds is assigned, and what exists gets a new member
Hold(m, p, o) == [m EXCEPT !.value = [@ EXCEPT ![p] = o]]
Allocated(m, o) == [m EXCEPT !.alive = @ \cup {o}]

Becomes(m) == value' = m.value /\ cached_ptrs' = m.count /\ alive' = m.alive

-----------------------------------------------------------------------------
(* The operations.  A place that is being constructed holds Null before.   *)

\* places that the program can get at: the Cells, and what every set of Objects
\* has that leaves out nothing which it holds, or a Cell
Closed(val, S) == \A p \in Cells \cup S : val[p] \in Objects => val[p] \in S
Reach(val) == Cells \cup {o \in Objects : \A S \in SUBSET Objects : Closed(val, S) => o \in S}
Reachable == Reach(value)

Fresh(c) == c \in Cells /\ value[c] = Null

\* Value(prog->definedObjTypes[str]->makeObject(...))
MakeObject(c, o) ==
  /\ Fresh(c) /\ o \notin alive
  /\ Becomes(Hold(Hold(Allocated(Adopt(memory, o), o), o, Null), c, o))
  /\ UNCHANGED surplus

\* Value(const std::string&)
StringValue(c, s) ==
  /\ Fresh(c)
  /\ LET m == IF s \in alive THEN Reference(memory, s) ELSE Counted(memory, s, 1)
     IN Becomes(Hold(Allocated(m, s), c, s))
  /\ UNCHANGED surplus

\* ParentGet: the receiver, of which the scope keeps a bare pointer
ReceiverValue(c, o) ==
  /\ Fresh(c) /\ o \in Reachable \cap Objects
  /\ Becomes(Hold(Adopt(memory, o), c, o))
  /\ UNCHANGED surplus

\* mutant: the copy is not counted
CopyUncounted(c, p) ==
  /\ Fresh(c) /\ p \in Reachable
  /\ Becomes(Hold(memory, c, value[p]))
  /\ UNCHANGED surplus

\* Value(const Value&)
Copy(c, p) ==
  /\ Fresh(c) /\ p \in Reachable
  /\ Becomes(Hold(Reference(memory, value[p]), c, value[p]))
  /\ UNCHANGED surplus

\* Value(Value&&)
Move(c, p) ==
  /\ Fresh(c) /\ p \in Reachable
  /\ Becomes(Hold(Hold(memory, c, value[p]), p, Null))
  /\ UNCHANGED surplus

\* operator=(const Value&), from a local of the caller
AssignCopy(p, c) ==
  /\ p \in Reachable
  /\ IF p = c \/ value[p] = value[c] THEN UNCHANGED vars
     ELSE /\ Becomes(Hold(Reference(Dereference(memory, value[p]), value[c]), p, value[c]))
          /\ UNCHANGED surplus

\* operator=(Value&&): a source that holds the same is emptied, and its count stays
AssignMove(p, c) ==
  /\ p \in Reachable /\ p # c
  /\ IF value[p] = value[c]
     THEN /\ value[c] # Null /\ surplus[value[c]] < MaxSurplus
          /\ Becomes(Hold(memory, c, Null))
          /\ surplus' = [surplus EXCEPT ![value[c]] = @ + 1]
     ELSE /\ Becomes(Hold(Hold(Dereference(memory, value[p]), p, value[c]), c, Null))
          /\ UNCHANGED surplus

\* ~Value(): a temporary dies, a scope is popped
Destroy(c) ==
  /\ value[c] # Null
  /\ Becomes(Hold(Dereference(memory, value[c]), c, Null))
  /\ UNCHANGED surplus

Init ==
  /\ value = [p \in Places |-> Null]
  /\ cached_ptrs = [o \in {} |-> 0]
  /\ alive = {}
  /\ surplus = [o \in Shared |-> 0]

Next ==
  \E c \in Cells :
    \/ \E o \in Objects : MakeObject(c, o)
    \/ \E s \in Strings : StringValue(c, s)
    \/ \E p \in Places :
         Copy(c, p) \/ Move(c, p) \/ AssignCopy(p, c) \/ AssignMove(p, c)
    \/ Destroy(c)

Spec == Init /\ [][Next]_vars

\* a program whose methods say `.` for their receiver
NextWithReceivers == Next \/ \E c \in Cells, o \in Objects : ReceiverValue(c, o)
SpecWithReceivers == Init /\ [][NextWithReceivers]_vars

-----------------------------------------------------------------------------
(* Properties.                                                             *)

\* The types of the variables; no entry of cached_ptrs is ever 0.
TypeOK ==
  /\ value \in [Places -> Shared \cup {Null}]
  /\ alive \subseteq Shared
  /\ DOMAIN cached_ptrs \subseteq Shared
  /\ \A o \in DOMAIN cached_ptrs : cached_ptrs[o] \in 1 .. 2^CountBits - 1
  /\ surplus \in [Shared -> 0 .. MaxSurplus]

Live == Cells \cup (Objects \cap alive)
Holders(o) == {p \in Live : value[p] = o}

\* No Value that is alive holds an Object or a string that was deleted, whatever
\* was copied, moved, overwritten and destroyed before.
HeldAlive == \A o \in Shared \ alive : Holders(o) = {}

\* cached_ptrs has an entry for exactly what is allocated, and it is the number
\* of Values that hold it plus the counts that move-assignment dropped nowhere.
CountsHolders ==
  /\ DOMAIN cached_ptrs = alive
  /\ \A o \in alive : cached_ptrs[o] = Wrap(Cardinality(Holders(o)) + surplus[o])

\* Objects that nothing the program can get at leads to
Garbage == (alive \cap Objects) \ Reachable

\* Only cycles and lost counts keep what the program cannot reach: in the step
\* that takes the last way to a place, everything behind it goes, and each Object
\* that stays holds another one.
Collected ==
  \/ \E x \in alive : surplus[x] > 0
  \/ \A o \in Garbage : value[o] \in Garbage
===============================================================================
