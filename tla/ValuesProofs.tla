----------------------------- MODULE ValuesProofs -----------------------------
(***************************************************************************)
(* The theorems on reference counts and their proofs.                      *)
(*                                                                         *)
(* Every operation is a sequence of a few moves of a reference: out of a   *)
(* place, into a place, out of the world.  The invariant is therefore      *)
(* stated of a memory in which some places D are counted and at most one   *)
(* reference, to x, is on its way; between two operations D is Places and  *)
(* x is Null.                                                              *)
(***************************************************************************)
EXTENDS Values, FiniteSetTheorems, SequenceFacts, TLAPS

Things == Shared \cup {Null}
Mem(v, c, a) == [value |-> v, count |-> c, alive |-> a]
HoldersIn(v, D, o) == {q \in D : v[q] = o}

Typed(v, c, a, s) ==
  /\ v \in [Places -> Things]
  /\ a \in SUBSET Shared
  /\ c \in [a -> Nat]
  /\ s \in [Shared -> 0 .. MaxSurplus]

\* what is not allocated holds nothing and is owed nothing
Clean(v, a, s) ==
  /\ \A o \in Objects \ a : v[o] = Null
  /\ \A o \in Shared \ a : s[o] = 0

Balanced(v, c, a, s, x, D) ==
  \A o \in a : /\ c[o] = Cardinality(HoldersIn(v, D, o)) + s[o] + (IF o = x THEN 1 ELSE 0)
               /\ c[o] # 0

Sound(v, c, a, s, x, D) ==
  /\ Typed(v, c, a, s)
  /\ D \in SUBSET Places
  /\ x \in a \cup {Null}
  /\ \A q \in D : v[q] \in a \cup {Null}
  /\ Clean(v, a, s)
  /\ Balanced(v, c, a, s, x, D)

IInv == Sound(value, cached_ptrs, alive, surplus, Null, Places)

-------------------------------------------------------------------------------
(* Counting *)

LEMMA ThingsDistinct ==
  /\ Null \notin Shared
  /\ Objects \subseteq Places /\ Cells \subseteq Places /\ Objects \subseteq Shared
  /\ Objects \cap Cells = {} /\ Strings \cap Places = {}
  BY PlacesAssumption DEF Shared, Places

LEMMA WrapFits ==
  ASSUME NEW n \in Nat, n <= Cardinality(Places) + MaxSurplus
  PROVE  Wrap(n) = n
<1> DEFINE M == 2^CountBits
<1>1. M \in Int
  BY BoundsAssumption
<1>2. IsFiniteSet(Places) /\ Cardinality(Places) \in Nat
  BY BoundsAssumption, FS_Union, FS_CardinalityType DEF Places
<1>3. n < M
  BY <1>1, <1>2, CountsFitAssumption, BoundsAssumption
<1>4. QED
  BY <1>1, <1>3 DEF Wrap

\* The holders are finitely many, and fewer where fewer places count.
LEMMA HoldersFinite ==
  ASSUME NEW v, NEW D \in SUBSET Places, NEW o
  PROVE  /\ IsFiniteSet(HoldersIn(v, D, o))
         /\ Cardinality(HoldersIn(v, D, o)) \in Nat
         /\ Cardinality(HoldersIn(v, D, o)) <= Cardinality(Places)
         /\ D # Places => Cardinality(HoldersIn(v, D, o)) < Cardinality(Places)
<1> DEFINE H == HoldersIn(v, D, o)
<1>1. IsFiniteSet(Places) /\ Cardinality(Places) \in Nat
  BY BoundsAssumption, FS_Union, FS_CardinalityType DEF Places
<1>2. H \subseteq D /\ H \subseteq Places
  BY DEF HoldersIn
<1> HIDE DEF H
<1>3. IsFiniteSet(H) /\ Cardinality(H) \in Nat /\ Cardinality(H) <= Cardinality(Places)
  BY <1>1, <1>2, FS_Subset, FS_CardinalityType
<1>4. ASSUME D # Places PROVE Cardinality(H) < Cardinality(Places)
  <2>1. H # Places
    BY <1>2, <1>4
  <2>2. Cardinality(H) # Cardinality(Places)
    BY <1>1, <1>2, <2>1, FS_Subset
  <2> QED
    BY <1>1, <1>3, <2>2
<1> QED
  BY <1>3, <1>4 DEF H

\* A place that is no longer counted takes one from the holders of what it holds.
LEMMA HoldersLess ==
  ASSUME NEW v, NEW D \in SUBSET Places, NEW q \in D, NEW o
  PROVE  Cardinality(HoldersIn(v, D, o))
           = Cardinality(HoldersIn(v, D \ {q}, o)) + (IF v[q] = o THEN 1 ELSE 0)
<1> DEFINE H == HoldersIn(v, D, o)
           G == HoldersIn(v, D \ {q}, o)
<1>1. IsFiniteSet(G) /\ Cardinality(G) \in Nat
  BY HoldersFinite
<1>2. CASE v[q] = o
  <2>1. H = G \cup {q} /\ q \notin G
    BY <1>2 DEF HoldersIn
  <2> HIDE DEF H, G
  <2>2. Cardinality(H) = Cardinality(G) + 1
    BY <1>1, <2>1, FS_AddElement
  <2> QED
    BY <1>2, <2>2 DEF H, G
<1>3. CASE v[q] # o
  <2>1. H = G
    BY <1>3 DEF HoldersIn
  <2> QED
    BY <1>1, <1>3, <2>1
<1> QED
  BY <1>2, <1>3

\* A place that is counted again adds one.
LEMMA HoldersMore ==
  ASSUME NEW v, NEW D \in SUBSET Places, NEW q \in Places \ D, NEW o
  PROVE  Cardinality(HoldersIn(v, D \cup {q}, o))
           = Cardinality(HoldersIn(v, D, o)) + (IF v[q] = o THEN 1 ELSE 0)
<1> SUFFICES ASSUME NEW E, E = D \cup {q}
             PROVE  Cardinality(HoldersIn(v, E, o))
                      = Cardinality(HoldersIn(v, D, o)) + (IF v[q] = o THEN 1 ELSE 0)
  OBVIOUS
<1>1. E \in SUBSET Places /\ q \in E /\ E \ {q} = D
  OBVIOUS
<1> QED
  BY <1>1, HoldersLess

-------------------------------------------------------------------------------
(* Moves of one reference *)

\* out of a place
LEMMA Take ==
  ASSUME NEW v, NEW c, NEW a, NEW s, NEW D, NEW q \in D, Sound(v, c, a, s, Null, D)
  PROVE  Sound(v, c, a, s, v[q], D \ {q})
<1>1. ASSUME NEW o \in a
      PROVE  /\ c[o] = Cardinality(HoldersIn(v, D \ {q}, o)) + s[o] + (IF o = v[q] THEN 1 ELSE 0)
             /\ c[o] # 0
  <2>1. D \in SUBSET Places /\ o # Null /\ s[o] \in Nat
    BY ThingsDistinct, BoundsAssumption DEF Sound, Typed
  <2>2. c[o] = Cardinality(HoldersIn(v, D, o)) + s[o] /\ c[o] # 0
    <3> DEFINE n == Cardinality(HoldersIn(v, D, o))
    <3>1. n \in Nat
      BY <2>1, HoldersFinite
    <3>2. c[o] = n + s[o] + (IF o = Null THEN 1 ELSE 0) /\ c[o] # 0
      BY DEF Sound, Balanced
    <3> HIDE DEF n
    <3>3. c[o] = n + s[o]
      BY <2>1, <3>1, <3>2
    <3> QED
      BY <3>2, <3>3 DEF n
  <2> DEFINE k == Cardinality(HoldersIn(v, D, o))
             l == Cardinality(HoldersIn(v, D \ {q}, o))
  <2>3. k = l + (IF v[q] = o THEN 1 ELSE 0) /\ l \in Nat
    BY <2>1, HoldersLess, HoldersFinite
  <2> HIDE DEF k, l
  <2>4. c[o] = k + s[o] /\ c[o] # 0
    BY <2>2 DEF k
  <2>5. c[o] = l + s[o] + (IF o = v[q] THEN 1 ELSE 0)
    BY <2>1, <2>3, <2>4
  <2> QED
    BY <2>4, <2>5 DEF l
<1> QED
  BY <1>1 DEF Sound, Balanced

\* into a place, if the place is allocated
LEMMA Put ==
  ASSUME NEW v, NEW c, NEW a, NEW s, NEW x, NEW D, NEW p \in Places \ D,
         Sound(v, c, a, s, x, D), p \in Objects \ a => x = Null
  PROVE  Sound([v EXCEPT ![p] = x], c, a, s, Null, D \cup {p})
<1> DEFINE w == [v EXCEPT ![p] = x]
           E == D \cup {p}
<1>1. /\ v \in [Places -> Things] /\ a \in SUBSET Shared /\ D \in SUBSET Places
      /\ x \in a \cup {Null} /\ p \notin D
  BY DEF Sound, Typed
<1>2. w \in [Places -> Things] /\ w[p] = x /\ \A q \in Places \ {p} : w[q] = v[q]
  BY <1>1 DEF Things
<1> HIDE DEF w
<1>3. ASSUME NEW o \in a
      PROVE  /\ c[o] = Cardinality(HoldersIn(w, E, o)) + s[o] + (IF o = Null THEN 1 ELSE 0)
             /\ c[o] # 0
  <2>1. o # Null /\ s[o] \in Nat
    BY ThingsDistinct, BoundsAssumption DEF Sound, Typed
  <2>3. HoldersIn(w, D, o) = HoldersIn(v, D, o)
    BY <1>1, <1>2 DEF HoldersIn
  <2> DEFINE k == Cardinality(HoldersIn(w, E, o))
             l == Cardinality(HoldersIn(v, D, o))
  <2>4. Cardinality(HoldersIn(w, E, o)) = Cardinality(HoldersIn(w, D, o)) + (IF w[p] = o THEN 1 ELSE 0)
    BY <1>1, HoldersMore
  <2>5. k = l + (IF x = o THEN 1 ELSE 0)
    BY <1>2, <2>3, <2>4
  <2>6. l \in Nat
    BY <1>1, HoldersFinite
  <2>7. c[o] = l + s[o] + (IF o = x THEN 1 ELSE 0) /\ c[o] # 0
    BY DEF Sound, Balanced
  <2> HIDE DEF k, l
  <2>8. c[o] = k + s[o] + (IF o = Null THEN 1 ELSE 0)
    BY <2>1, <2>5, <2>6, <2>7
  <2> QED
    BY <2>7, <2>8 DEF k
<1>4. Balanced(w, c, a, s, Null, E)
  BY <1>3 DEF Balanced
<1>5. Typed(w, c, a, s)
  BY <1>2 DEF Sound, Typed
<1>6. Clean(w, a, s)
  BY <1>1, <1>2, ThingsDistinct DEF Sound, Clean
<1>7. \A q \in E : w[q] \in a \cup {Null}
  BY <1>1, <1>2 DEF Sound
<1>8. E \in SUBSET Places
  BY <1>1
<1> QED
  BY <1>4, <1>5, <1>6, <1>7, <1>8 DEF Sound, w

\* into the world: one more reference to y is on its way
LEMMA Gain ==
  ASSUME NEW v, NEW c, NEW a, NEW s, NEW D, NEW y \in a, Sound(v, c, a, s, Null, D), D # Places
  PROVE  /\ Wrap(c[y] + 1) = c[y] + 1
         /\ Sound(v, [o \in a |-> IF o = y THEN c[y] + 1 ELSE c[o]], a, s, y, D)
<1> DEFINE d == [o \in a |-> IF o = y THEN c[y] + 1 ELSE c[o]]
<1>1. /\ a \in SUBSET Shared /\ c \in [a -> Nat] /\ s \in [Shared -> 0 .. MaxSurplus] /\ D \in SUBSET Places
      /\ MaxSurplus \in Nat
  BY BoundsAssumption DEF Sound, Typed
<1>2. d \in [a -> Nat]
  BY <1>1
<1>3. ASSUME NEW o \in a
      PROVE  /\ d[o] = Cardinality(HoldersIn(v, D, o)) + s[o] + (IF o = y THEN 1 ELSE 0)
             /\ d[o] # 0
  <2> DEFINE k == Cardinality(HoldersIn(v, D, o))
  <2>1. k \in Nat /\ o # Null /\ s[o] \in Nat
    BY <1>1, HoldersFinite, ThingsDistinct
  <2>2. c[o] = k + s[o] + (IF o = Null THEN 1 ELSE 0) /\ c[o] # 0
    BY DEF Sound, Balanced
  <2> HIDE DEF k
  <2>3. c[o] = k + s[o] /\ c[o] \in Nat
    BY <2>1, <2>2
  <2>4. d[o] = k + s[o] + (IF o = y THEN 1 ELSE 0) /\ d[o] # 0
    BY <2>1, <2>2, <2>3
  <2> QED
    BY <2>4 DEF k
<1>4. Wrap(c[y] + 1) = c[y] + 1
  <2> DEFINE k == Cardinality(HoldersIn(v, D, y))
             P == Cardinality(Places)
  <2>1. k \in Nat /\ y # Null /\ s[y] \in 0 .. MaxSurplus /\ k < P
    BY <1>1, HoldersFinite, ThingsDistinct
  <2>2. P \in Nat
    BY BoundsAssumption, FS_Union, FS_CardinalityType DEF Places
  <2>3. c[y] = k + s[y] + (IF y = Null THEN 1 ELSE 0)
    BY DEF Sound, Balanced
  <2> HIDE DEF k, P
  <2>4. c[y] + 1 \in Nat /\ c[y] + 1 <= P + MaxSurplus
    BY <1>1, <2>1, <2>2, <2>3
  <2> QED
    BY <2>4, WrapFits DEF P
<1> HIDE DEF d
<1>5. Balanced(v, d, a, s, y, D)
  BY <1>3 DEF Balanced
<1>6. Sound(v, d, a, s, y, D)
  BY <1>2, <1>5 DEF Sound, Typed
<1> QED
  BY <1>4, <1>6 DEF d

\* the first reference to what is allocated now
LEMMA New ==
  ASSUME NEW v, NEW c, NEW a, NEW s, NEW D, NEW y \in Shared \ a, Sound(v, c, a, s, Null, D)
  PROVE  Sound(v, [o \in a \cup {y} |-> IF o = y THEN 1 ELSE c[o]], a \cup {y}, s, y, D)
<1> DEFINE d == [o \in a \cup {y} |-> IF o = y THEN 1 ELSE c[o]]
<1>1. /\ a \in SUBSET Shared /\ c \in [a -> Nat] /\ s \in [Shared -> 0 .. MaxSurplus] /\ D \in SUBSET Places
      /\ MaxSurplus \in Nat /\ y # Null /\ s[y] = 0
  BY BoundsAssumption, ThingsDistinct DEF Sound, Typed, Clean
<1>2. d \in [a \cup {y} -> Nat]
  BY <1>1
<1>3. ASSUME NEW o \in a \cup {y}
      PROVE  /\ d[o] = Cardinality(HoldersIn(v, D, o)) + s[o] + (IF o = y THEN 1 ELSE 0)
             /\ d[o] # 0
  <2> DEFINE k == Cardinality(HoldersIn(v, D, o))
  <2>1. k \in Nat /\ o # Null /\ s[o] \in Nat
    BY <1>1, HoldersFinite, ThingsDistinct
  <2>2. CASE o = y
    <3>1. HoldersIn(v, D, o) = {}
      BY <1>1, <2>2 DEF HoldersIn, Sound
    <3>2. k = 0
      BY <3>1, FS_EmptySet
    <3> QED
      BY <1>1, <2>2, <3>2
  <2>3. CASE o # y
    <3>1. c[o] = k + s[o] + (IF o = Null THEN 1 ELSE 0) /\ c[o] # 0
      BY <2>3 DEF Sound, Balanced
    <3> HIDE DEF k
    <3>2. d[o] = k + s[o] + (IF o = y THEN 1 ELSE 0) /\ d[o] # 0
      BY <2>1, <2>3, <3>1
    <3> QED
      BY <3>2 DEF k
  <2> QED
    BY <2>2, <2>3
<1> HIDE DEF d
<1>4. Balanced(v, d, a \cup {y}, s, y, D)
  BY <1>3 DEF Balanced
<1>5. Sound(v, d, a \cup {y}, s, y, D)
  BY <1>1, <1>2, <1>4 DEF Sound, Typed, Clean
<1> QED
  BY <1>5 DEF d

\* nowhere: its count stays
LEMMA Lose ==
  ASSUME NEW v, NEW c, NEW a, NEW s, NEW D, NEW y \in a, Sound(v, c, a, s, y, D), s[y] < MaxSurplus
  PROVE  Sound(v, c, a, [s EXCEPT ![y] = @ + 1], Null, D)
<1> DEFINE t == [s EXCEPT ![y] = @ + 1]
<1>1. /\ a \in SUBSET Shared /\ s \in [Shared -> 0 .. MaxSurplus] /\ D \in SUBSET Places
      /\ MaxSurplus \in Nat /\ y # Null /\ y \in Shared
  BY BoundsAssumption, ThingsDistinct DEF Sound, Typed
<1>2. t \in [Shared -> 0 .. MaxSurplus] /\ t[y] = s[y] + 1 /\ \A o \in Shared \ {y} : t[o] = s[o]
  BY <1>1
<1> HIDE DEF t
<1>3. ASSUME NEW o \in a
      PROVE  /\ c[o] = Cardinality(HoldersIn(v, D, o)) + t[o] + (IF o = Null THEN 1 ELSE 0)
             /\ c[o] # 0
  <2> DEFINE k == Cardinality(HoldersIn(v, D, o))
  <2>1. k \in Nat /\ o # Null /\ s[o] \in Nat /\ o \in Shared
    BY <1>1, HoldersFinite, ThingsDistinct
  <2>2. c[o] = k + s[o] + (IF o = y THEN 1 ELSE 0) /\ c[o] # 0
    BY DEF Sound, Balanced
  <2> HIDE DEF k
  <2>3. c[o] = k + t[o] + (IF o = Null THEN 1 ELSE 0)
    BY <1>2, <2>1, <2>2
  <2> QED
    BY <2>2, <2>3 DEF k
<1>4. Balanced(v, c, a, t, Null, D)
  BY <1>3 DEF Balanced
<1>5. Sound(v, c, a, t, Null, D)
  BY <1>1, <1>2, <1>4 DEF Sound, Typed, Clean
<1> QED
  BY <1>5 DEF t

-------------------------------------------------------------------------------
(* Out of the world: the deletions.  The place p that gives the reference up   *)
(* can be reached, and therefore is not deleted.                               *)

But(p) == Places \ {p}

LEMMA ReachableLives ==
  ASSUME NEW v, NEW c, NEW a, NEW s, NEW x, NEW D, NEW p \in Reach(v), Sound(v, c, a, s, x, D), But(p) \subseteq D
  PROVE  p \in Places /\ p \notin Objects \ a
<1>1. p \in Places
  BY DEF Reach, Places
<1> SUFFICES ASSUME p \in Objects \ a PROVE FALSE
  BY <1>1
<1> DEFINE S == Objects \cap a
<1>2. S \in SUBSET Objects /\ p \notin S /\ p \notin Cells
  BY ThingsDistinct
<1>3. Closed(v, S)
  <2> SUFFICES ASSUME NEW q \in Cells \cup S, v[q] \in Objects PROVE v[q] \in S
    BY DEF Closed
  <2>1. q \in D
    BY <1>2, ThingsDistinct DEF But
  <2> QED
    BY <2>1, PlacesAssumption DEF Sound
<1> QED
  BY <1>2, <1>3 DEF Reach

\* The object that nothing but p holds is not p, and p can still be reached when it is gone.
LEMMA ReachableStays ==
  ASSUME NEW v \in [Places -> Things], NEW p \in Reach(v), NEW x \in Shared, HoldersIn(v, But(p), x) = {}
  PROVE  /\ x \in Objects => x # p
         /\ p \in Reach([q \in Places |-> IF q = x THEN Null ELSE v[q]])
<1> DEFINE w == [q \in Places |-> IF q = x THEN Null ELSE v[q]]
<1>1. \A q \in Places \ {p} : v[q] # x
  BY DEF HoldersIn, But
<1>2. ASSUME x \in Objects, x = p PROVE FALSE
  <2> DEFINE S == Objects \ {p}
  <2>1. Closed(v, S)
    BY <1>1, <1>2, ThingsDistinct DEF Closed
  <2> QED
    BY <1>2, <2>1, ThingsDistinct DEF Reach
<1>3. ASSUME p \in Cells PROVE p \in Reach(w)
  BY <1>3 DEF Reach
<1>4. ASSUME p \in Objects PROVE p \in Reach(w)
  <2> SUFFICES ASSUME NEW S \in SUBSET Objects, Closed(w, S), p \notin S PROVE FALSE
    BY <1>4 DEF Reach
  <2>1. Closed(v, S \ {x})
    <3> SUFFICES ASSUME NEW q \in Cells \cup (S \ {x}), v[q] \in Objects PROVE v[q] \in S \ {x}
      BY DEF Closed
    <3>1. q \in Places \ {p} /\ q \in Cells \cup S
      BY <1>4, ThingsDistinct
    <3>2. q # x
      BY ThingsDistinct DEF Shared
    <3>3. w[q] = v[q]
      BY <3>1, <3>2
    <3> QED
      BY <1>1, <3>1, <3>3 DEF Closed
  <2> QED
    BY <1>4, <2>1, ThingsDistinct DEF Reach
<1> QED
  BY <1>2, <1>3, <1>4 DEF Reach


\* One reference to x less, when others are left.
LEMMA DropKeeps ==
  ASSUME NEW v, NEW c, NEW a, NEW s, NEW x \in a, NEW D, Sound(v, c, a, s, x, D), c[x] # 1
  PROVE  Sound(v, [o \in a |-> IF o = x THEN c[x] - 1 ELSE c[o]], a, s, Null, D)
<1> DEFINE d == [o \in a |-> IF o = x THEN c[x] - 1 ELSE c[o]]
<1>1. /\ a \in SUBSET Shared /\ c \in [a -> Nat] /\ s \in [Shared -> 0 .. MaxSurplus] /\ D \in SUBSET Places
      /\ MaxSurplus \in Nat
  BY BoundsAssumption DEF Sound, Typed
<1>2. c[x] # 0
  BY DEF Sound, Balanced
<1>3. d \in [a -> Nat] /\ d[x] = c[x] - 1 /\ d[x] # 0 /\ \A o \in a \ {x} : d[o] = c[o]
  BY <1>1, <1>2
<1> HIDE DEF d
<1>4. ASSUME NEW o \in a
      PROVE  /\ d[o] = Cardinality(HoldersIn(v, D, o)) + s[o] + (IF o = Null THEN 1 ELSE 0)
             /\ d[o] # 0
  <2> DEFINE k == Cardinality(HoldersIn(v, D, o))
  <2>1. k \in Nat /\ o # Null /\ s[o] \in Nat /\ c[o] \in Nat
    BY <1>1, HoldersFinite, ThingsDistinct
  <2>2. c[o] = k + s[o] + (IF o = x THEN 1 ELSE 0) /\ c[o] # 0
    BY DEF Sound, Balanced
  <2> HIDE DEF k
  <2>3. d[o] = k + s[o] + (IF o = Null THEN 1 ELSE 0) /\ d[o] # 0
    BY <1>3, <2>1, <2>2
  <2> QED
    BY <2>3 DEF k
<1>5. Balanced(v, d, a, s, Null, D)
  BY <1>4 DEF Balanced
<1>6. Sound(v, d, a, s, Null, D)
  BY <1>3, <1>5 DEF Sound, Typed
<1> QED
  BY <1>6 DEF d

Behead(v, x) == IF x \in Objects THEN v[x] ELSE Null

\* The last reference to x: x is deleted, and what it holds is next.
LEMMA DropDeletes ==
  ASSUME NEW v, NEW c, NEW a, NEW s, NEW p \in Reach(v), NEW x \in a, Sound(v, c, a, s, x, But(p)), c[x] = 1
  PROVE  LET w == [q \in Places |-> IF q = x THEN Null ELSE v[q]] IN
         /\ Sound(w, [o \in a \ {x} |-> c[o]], a \ {x}, s, Behead(v, x), But(p))
         /\ p \in Reach(w)
<1> DEFINE w == [q \in Places |-> IF q = x THEN Null ELSE v[q]]
           d == [o \in a \ {x} |-> c[o]]
           D == But(p)
           y == Behead(v, x)
<1>1. /\ a \in SUBSET Shared /\ c \in [a -> Nat] /\ s \in [Shared -> 0 .. MaxSurplus] /\ D \in SUBSET Places
      /\ v \in [Places -> Things] /\ MaxSurplus \in Nat /\ x \in Shared /\ x # Null /\ x \notin Cells
  BY BoundsAssumption, ThingsDistinct DEF Sound, Typed, Shared
<1>2. HoldersIn(v, D, x) = {} /\ s[x] = 0
  <2> DEFINE H == HoldersIn(v, D, x)
             k == Cardinality(H)
  <2>1. k \in Nat /\ IsFiniteSet(H) /\ s[x] \in Nat
    BY <1>1, HoldersFinite
  <2>2. c[x] = k + s[x] + 1
    BY DEF Sound, Balanced
  <2> HIDE DEF k
  <2>3. k = 0 /\ s[x] = 0
    BY <2>1, <2>2
  <2> HIDE DEF H
  <2>4. H = {}
    BY <2>1, <2>3, FS_EmptySet DEF k
  <2> QED
    BY <2>3, <2>4 DEF H
<1>3. /\ x \in Objects => x # p
      /\ p \in Reach(w)
  BY <1>1, <1>2, ReachableStays
<1>4. w \in [Places -> Things] /\ \A q \in Places \ {x} : w[q] = v[q]
  BY <1>1 DEF Things
<1>5. d \in [a \ {x} -> Nat] /\ \A o \in a \ {x} : d[o] = c[o]
  BY <1>1
<1>6. x \in Objects => x \in D /\ w[x] = Null
  BY <1>3, ThingsDistinct DEF But
<1>7. x \notin Objects => y = Null /\ x \notin Places
  BY <1>1, ThingsDistinct DEF Behead, Shared
<1>8. x \in Objects => y = v[x]
  BY DEF Behead
<1>9. \A q \in D : v[q] \in (a \ {x}) \cup {Null}
  BY <1>2 DEF HoldersIn, Sound
<1>10. y \in (a \ {x}) \cup {Null}
  BY <1>6, <1>7, <1>8, <1>9
<1> HIDE DEF w, d, y, D
<1>11. ASSUME NEW o \in a \ {x}
       PROVE  /\ d[o] = Cardinality(HoldersIn(w, D, o)) + s[o] + (IF o = y THEN 1 ELSE 0)
              /\ d[o] # 0
  <2> DEFINE k == Cardinality(HoldersIn(v, D, o))
             l == Cardinality(HoldersIn(w, D, o))
  <2>1. k \in Nat /\ l \in Nat /\ o # Null /\ s[o] \in Nat /\ c[o] \in Nat
    BY <1>1, HoldersFinite, ThingsDistinct
  <2>2. c[o] = k + s[o] /\ c[o] # 0
    <3>1. c[o] = k + s[o] + (IF o = x THEN 1 ELSE 0) /\ c[o] # 0
      BY DEF Sound, Balanced, D
    <3> HIDE DEF k
    <3> QED
      BY <2>1, <3>1
  <2>3. k = l + (IF o = y THEN 1 ELSE 0)
    <3>1. CASE x \in Objects
      <4>1. HoldersIn(w, D, o) = HoldersIn(v, D \ {x}, o)
        BY <1>1, <1>4, <1>6, <2>1, <3>1 DEF HoldersIn
      <4>2. k = Cardinality(HoldersIn(v, D \ {x}, o)) + (IF v[x] = o THEN 1 ELSE 0)
        BY <1>1, <1>6, <3>1, HoldersLess
      <4> QED
        BY <1>8, <3>1, <4>1, <4>2
    <3>2. CASE x \notin Objects
      <4>1. HoldersIn(w, D, o) = HoldersIn(v, D, o)
        BY <1>1, <1>4, <1>7, <3>2 DEF HoldersIn
      <4> HIDE DEF k
      <4>2. k = l
        BY <4>1 DEF k
      <4> HIDE DEF l
      <4> QED
        BY <1>7, <2>1, <3>2, <4>2
    <3> QED
      BY <3>1, <3>2
  <2> HIDE DEF k, l
  <2>4. d[o] = l + s[o] + (IF o = y THEN 1 ELSE 0) /\ d[o] # 0
    BY <1>5, <2>1, <2>2, <2>3
  <2> QED
    BY <2>4 DEF l
<1>12. Balanced(w, d, a \ {x}, s, y, D)
  BY <1>11 DEF Balanced
<1>13. Typed(w, d, a \ {x}, s)
  BY <1>1, <1>4, <1>5 DEF Typed
<1>14. Clean(w, a \ {x}, s)
  BY <1>1, <1>2, <1>4, <1>6, ThingsDistinct DEF Clean, Sound
<1>15. \A q \in D : w[q] \in (a \ {x}) \cup {Null}
  BY <1>1, <1>4, <1>6, <1>7, <1>9
<1> QED
  BY <1>1, <1>3, <1>10, <1>12, <1>13, <1>14, <1>15 DEF Sound, w, d, y, D


\* what Drop and Behind compute, in terms of the fields, when other references are left
LEMMA DropFields ==
  ASSUME NEW v, NEW a, NEW c \in [a -> Nat], NEW x \in a, Wrap(c[x] - 1) = c[x] - 1, c[x] # 1
  PROVE  /\ Drop(Mem(v, c, a), x) = Mem(v, [o \in a |-> IF o = x THEN c[x] - 1 ELSE c[o]], a)
         /\ Behind(Mem(v, c, a), x) = Null
<1> DEFINE m == Mem(v, c, a)
<1>1. m.value = v /\ m.count = c /\ m.alive = a /\ DOMAIN c = a
  BY DEF Mem
<1>2. Count(m, x) = c[x] /\ c[x] \in Nat
  BY <1>1 DEF Count
<1>3. a \cup {x} = a
  OBVIOUS
<1>4. c[x] - 1 # 0
  BY <1>2
<1>5. Counted(m, x, c[x] - 1) = Mem(v, [o \in a |-> IF o = x THEN c[x] - 1 ELSE c[o]], a)
  BY <1>1, <1>3 DEF Counted, Mem
<1> QED
  BY <1>2, <1>4, <1>5 DEF Drop, Behind

\* and when there is none
LEMMA DropFieldsLast ==
  ASSUME NEW v, NEW a, NEW c \in [a -> Nat], NEW x \in a, Wrap(c[x] - 1) = c[x] - 1, c[x] = 1
  PROVE  /\ Drop(Mem(v, c, a), x)
              = Mem([q \in Places |-> IF q = x THEN Null ELSE v[q]], [o \in a \ {x} |-> c[o]], a \ {x})
         /\ Behind(Mem(v, c, a), x) = Behead(v, x)
<1> DEFINE m == Mem(v, c, a)
           w == [q \in Places |-> IF q = x THEN Null ELSE v[q]]
           d == [o \in a \ {x} |-> c[o]]
           mvalue == m.value
<1>1. m.value = v /\ m.count = c /\ m.alive = a /\ DOMAIN c = a
  BY DEF Mem
<1>2. Count(m, x) = c[x] /\ c[x] \in Nat /\ c[x] - 1 = 0
  BY <1>1 DEF Count
<1>3. Deleted(m, x) = Mem(w, c, a \ {x})
  <2>1. Deleted(m, x) = [m EXCEPT !.alive = m.alive \ {x},
                                  !.value = [q \in Places |-> IF q = x THEN Null ELSE mvalue[q]]]
    BY DEF Deleted
  <2>2. [q \in Places |-> IF q = x THEN Null ELSE mvalue[q]] = w
    BY <1>1
  <2> HIDE DEF w, mvalue
  <2> QED
    BY <1>1, <2>1, <2>2 DEF Mem
<1>4. Drop(m, x) = [Deleted(m, x) EXCEPT !.count = Restrict(@, DOMAIN @ \ {x})]
  BY <1>2 DEF Drop
<1>5. Restrict(c, DOMAIN c \ {x}) = d
  BY <1>1 DEF Restrict
<1>6. Drop(m, x) = Mem(w, d, a \ {x})
  <2> DEFINE e == Deleted(m, x)
  <2>1. e.value = w /\ e.count = c /\ e.alive = a \ {x}
    BY <1>3 DEF Mem
  <2> HIDE DEF w, d
  <2>2. e = [value |-> w, count |-> c, alive |-> a \ {x}]
    BY <1>3 DEF Mem
  <2> HIDE DEF e
  <2>3. [e EXCEPT !.count = Restrict(e.count, DOMAIN e.count \ {x})]
          = [value |-> w, count |-> Restrict(e.count, DOMAIN e.count \ {x}), alive |-> a \ {x}]
    BY <2>2
  <2> QED
    BY <1>4, <1>5, <2>1, <2>3 DEF Mem, e
<1> QED
  BY <1>1, <1>2, <1>6 DEF Behind, Behead

Falling(v, c, a, x) == [mem |-> Mem(v, c, a), next |-> x]

FallsSoundly(v, c, a, s, p, x) ==
  \E w, d, b, y :
    /\ Fall(Falling(v, c, a, x)) = Falling(w, d, b, y)
    /\ Sound(w, d, b, s, y, But(p))
    /\ p \in Reach(w)
    /\ \A q \in Cells : w[q] = v[q]
    /\ y = Null \/ (x \in Objects \cap a /\ b = a \ {x})

\* One step of a deletion leaves the memory sound, and deletes an Object unless it is the last.
LEMMA FallStep ==
  ASSUME NEW v, NEW c, NEW a, NEW s, NEW p \in Reach(v), NEW x, Sound(v, c, a, s, x, But(p))
  PROVE  FallsSoundly(v, c, a, s, p, x)
<1> DEFINE f == Falling(v, c, a, x)
           Good(w, d, b, y) ==
             /\ Fall(f) = Falling(w, d, b, y)
             /\ Sound(w, d, b, s, y, But(p))
             /\ p \in Reach(w)
             /\ \A q \in Cells : w[q] = v[q]
             /\ y = Null \/ (x \in Objects \cap a /\ b = a \ {x})
<1>1. f.mem = Mem(v, c, a) /\ f.next = x
  BY DEF Falling
<1>2. CASE x = Null
  <2>1. Fall(f) = f
    BY <1>1, <1>2 DEF Fall
  <2>2. Good(v, c, a, x)
    BY <1>2, <2>1
  <2> QED
    BY <2>2 DEF FallsSoundly
<1>3. CASE x # Null
  <2>1. /\ x \in a /\ c \in [a -> Nat] /\ a \in SUBSET Shared /\ s \in [Shared -> 0 .. MaxSurplus]
        /\ v \in [Places -> Things] /\ MaxSurplus \in Nat
    BY <1>3, BoundsAssumption DEF Sound, Typed
  <2>3. Fall(f) = [mem |-> Drop(Mem(v, c, a), x), next |-> Behind(Mem(v, c, a), x)]
    BY <1>1, <1>3 DEF Fall
  <2>4. Wrap(c[x] - 1) = c[x] - 1
    <3> DEFINE k == Cardinality(HoldersIn(v, But(p), x))
               P == Cardinality(Places)
    <3>1. k \in Nat /\ s[x] \in 0 .. MaxSurplus /\ k <= P
      BY <2>1, HoldersFinite DEF But
    <3>2. P \in Nat
      BY BoundsAssumption, FS_Union, FS_CardinalityType DEF Places
    <3>3. c[x] = k + s[x] + 1
      BY <2>1 DEF Sound, Balanced
    <3> HIDE DEF k, P
    <3>4. c[x] - 1 \in Nat /\ c[x] - 1 <= P + MaxSurplus
      BY <2>1, <3>1, <3>2, <3>3
    <3> QED
      BY <3>4, WrapFits DEF P
  <2>5. CASE c[x] # 1
    <3> DEFINE d == [o \in a |-> IF o = x THEN c[x] - 1 ELSE c[o]]
    <3>1. Drop(Mem(v, c, a), x) = Mem(v, d, a) /\ Behind(Mem(v, c, a), x) = Null
      BY <2>1, <2>4, <2>5, DropFields
    <3>2. Sound(v, d, a, s, Null, But(p))
      BY <2>1, <2>5, DropKeeps
    <3> HIDE DEF d
    <3>3. Good(v, d, a, Null)
      BY <2>3, <3>1, <3>2 DEF Falling
    <3> QED
      BY <3>3 DEF FallsSoundly
  <2>6. CASE c[x] = 1
    <3> DEFINE w == [q \in Places |-> IF q = x THEN Null ELSE v[q]]
               d == [o \in a \ {x} |-> c[o]]
               y == Behead(v, x)
    <3>1. Drop(Mem(v, c, a), x) = Mem(w, d, a \ {x}) /\ Behind(Mem(v, c, a), x) = y
      BY <2>1, <2>4, <2>6, DropFieldsLast
    <3>2. Sound(w, d, a \ {x}, s, y, But(p)) /\ p \in Reach(w)
      BY <2>1, <2>6, DropDeletes, SMTT(30)
    <3>3. \A q \in Cells : w[q] = v[q]
      BY <2>1, ThingsDistinct DEF Shared
    <3>4. y = Null \/ x \in Objects \cap a
      BY <2>1 DEF Behead
    <3> HIDE DEF w, d, y
    <3>5. Good(w, d, a \ {x}, y)
      BY <2>3, <3>1, <3>2, <3>3, <3>4 DEF Falling
    <3> QED
      BY <3>5 DEF FallsSoundly
  <2> QED
    BY <2>5, <2>6
<1> QED
  BY <1>2, <1>3


States ==
  [mem : [value : [Places -> Things], count : UNION {[b -> Nat] : b \in SUBSET Shared}, alive : SUBSET Shared],
   next : Things]
SoundState(f, s, p, v) ==
  /\ Sound(f.mem.value, f.mem.count, f.mem.alive, s, f.next, But(p))
  /\ p \in Reach(f.mem.value)
  /\ \A q \in Cells : f.mem.value[q] = v[q]

LEMMA FallingSound ==
  ASSUME NEW w, NEW d, NEW b, NEW y, NEW s, NEW p \in Reach(w), NEW v,
         Sound(w, d, b, s, y, But(p)), \A q \in Cells : w[q] = v[q]
  PROVE  Falling(w, d, b, y) \in States /\ SoundState(Falling(w, d, b, y), s, p, v)
<1> DEFINE f == Falling(w, d, b, y)
<1>1. f.mem.value = w /\ f.mem.count = d /\ f.mem.alive = b /\ f.next = y
  BY DEF Falling, Mem
<1>2. w \in [Places -> Things] /\ b \in SUBSET Shared /\ d \in [b -> Nat] /\ y \in Things
  BY DEF Sound, Typed, Things
<1>3. f \in States
  <2>1. d \in UNION {[e -> Nat] : e \in SUBSET Shared}
    BY <1>2
  <2> QED
    BY <1>2, <2>1 DEF Falling, Mem, States
<1> HIDE DEF f
<1> QED
  BY <1>1, <1>3 DEF SoundState, f

Dereferenced(v, c, a, s, p, x) ==
  \E w, d, b :
    /\ Dereference(Mem(v, c, a), x) = Mem(w, d, b)
    /\ Sound(w, d, b, s, Null, But(p))
    /\ p \in Reach(w)
    /\ \A q \in Cells : w[q] = v[q]

\* Dereferencing what p holds, or held, ends with a sound memory in which no reference is on its way:
\* the loop has as many turns as a deletion can take.
LEMMA DereferenceSound ==
  ASSUME NEW v, NEW c, NEW a, NEW s, NEW p \in Reach(v), NEW x, Sound(v, c, a, s, x, But(p))
  PROVE  Dereferenced(v, c, a, s, p, x)
<1> DEFINE V == {f \in States : SoundState(f, s, p, v)}
           base == Falling(v, c, a, x)
           step == [f \in V |-> Fall(f)]
           Alive(f) == Cardinality(f.mem.alive \cap Objects)
           N == Cardinality(Objects)
<1>1. base \in V
  BY FallingSound
<1>2. ASSUME NEW f \in V
      PROVE  /\ Fall(f) \in V
             /\ Fall(f).next = Null \/ (f.next # Null /\ Alive(Fall(f)) = Alive(f) - 1)
  <2> DEFINE fv == f.mem.value
             fc == f.mem.count
             fa == f.mem.alive
             fx == f.next
  <2>1. f = Falling(fv, fc, fa, fx)
    BY DEF States, Falling, Mem
  <2>2. p \in Reach(fv) /\ Sound(fv, fc, fa, s, fx, But(p)) /\ \A q \in Cells : fv[q] = v[q]
    BY DEF SoundState
  <2> HIDE DEF fv, fc, fa, fx
  <2>3. PICK w, d, b, y :
           /\ Fall(Falling(fv, fc, fa, fx)) = Falling(w, d, b, y)
           /\ Sound(w, d, b, s, y, But(p))
           /\ p \in Reach(w)
           /\ \A q \in Cells : w[q] = fv[q]
           /\ y = Null \/ (fx \in Objects \cap fa /\ b = fa \ {fx})
    <3>1. FallsSoundly(fv, fc, fa, s, p, fx)
      BY <2>2, FallStep
    <3> QED
      BY <3>1 DEF FallsSoundly
  <2>4. Fall(f) = Falling(w, d, b, y)
    BY <2>1, <2>3
  <2>5. Fall(f) \in V
    BY <2>2, <2>3, <2>4, FallingSound
  <2>6. Fall(f).next = y /\ Fall(f).mem.alive = b
    BY <2>4 DEF Falling, Mem
  <2>7. ASSUME fx \in Objects \cap fa, b = fa \ {fx}
        PROVE  fx # Null /\ Alive(Fall(f)) = Alive(f) - 1
    <3> DEFINE A == fa \cap Objects
    <3>1. fx \in A /\ IsFiniteSet(A) /\ b \cap Objects = A \ {fx}
      BY <2>7, BoundsAssumption, FS_Subset
    <3> HIDE DEF A
    <3>2. Cardinality(A \ {fx}) = Cardinality(A) - 1
      BY <3>1, FS_RemoveElement
    <3>3. Alive(Fall(f)) = Cardinality(b \cap Objects) /\ Alive(f) = Cardinality(A)
      BY <2>6 DEF A, fa
    <3> QED
      BY <2>7, <3>1, <3>2, <3>3, ThingsDistinct
  <2> QED
    BY <2>3, <2>5, <2>6, <2>7 DEF fx
<1>3. step \in [V -> V]
  BY <1>2
<1> HIDE DEF V, base, step
<1>4. PICK g \in [Nat -> V] : g[0] = base /\ \A n \in Nat : g[n + 1] = step[g[n]]
  <2>1. StepsFrom(V, base, step)
    BY <1>1, <1>3, PrimitiveRecursion
  <2> QED
    BY <2>1 DEF StepsFrom
<1> DEFINE IsLoop(h) == h = [n \in Nat |-> IF n = 0 THEN base ELSE Fall(h[n - 1])]
           loop == CHOOSE h : IsLoop(h)
<1>5. IsLoop(g)
  <2>1. ASSUME NEW n \in Nat PROVE g[n] = IF n = 0 THEN base ELSE Fall(g[n - 1])
    <3>1. CASE n = 0
      BY <1>4, <3>1
    <3>2. CASE n # 0
      <4>1. n - 1 \in Nat /\ (n - 1) + 1 = n
        BY <3>2
      <4>2. g[n] = step[g[n - 1]] /\ g[n - 1] \in V
        BY <1>4, <4>1
      <4> QED
        BY <3>2, <4>2 DEF step
    <3> QED
      BY <3>1, <3>2
  <2>2. g = [n \in Nat |-> g[n]]
    BY <1>4
  <2> QED
    BY <2>1, <2>2
<1>6. IsLoop(loop)
  BY <1>5
<1>7. Dereference(Mem(v, c, a), x) = loop[N + 1].mem
  BY DEF Dereference, base, Falling
<1> HIDE DEF loop
<1>8. N \in Nat
  BY BoundsAssumption, FS_CardinalityType
<1> HIDE DEF N
<1>9. loop[0] = base /\ \A n \in Nat : loop[n + 1] = Fall(loop[n])
  BY <1>6
<1> HIDE DEF IsLoop
<1> DEFINE T == {n \in Nat : loop[n] \in V /\ (loop[n].next = Null \/ Alive(loop[n]) + n <= N)}
<1>10. Nat \subseteq T
  <2>1. 0 \in T
    <3> DEFINE A == a \cap Objects
    <3>1. Alive(base) = Cardinality(A)
      BY DEF base, Falling, Mem
    <3>2. Cardinality(A) \in Nat /\ Cardinality(A) <= N
      BY BoundsAssumption, FS_Subset, FS_CardinalityType DEF N
    <3> HIDE DEF Alive, A
    <3> QED
      BY <1>1, <1>8, <1>9, <3>1, <3>2
  <2>2. ASSUME NEW n \in Nat, n \in T PROVE n + 1 \in T
    <3> DEFINE f == loop[n]
    <3>1. f \in V /\ loop[n + 1] = Fall(f)
      BY <1>9, <2>2
    <3>2. Fall(f) \in V /\ (Fall(f).next = Null \/ (f.next # Null /\ Alive(Fall(f)) = Alive(f) - 1))
      BY <1>2, <3>1 DEF V
    <3>3. Alive(f) \in Nat
      BY BoundsAssumption, FS_Subset, FS_CardinalityType
    <3>4. f.next # Null => Alive(f) + n <= N
      BY <2>2
    <3> HIDE DEF Alive, f
    <3>5. Fall(f).next = Null \/ Alive(Fall(f)) + (n + 1) <= N
      BY <1>8, <3>2, <3>3, <3>4
    <3> QED
      BY <3>1, <3>2, <3>5
  <2> HIDE DEF T
  <2> QED
    BY <2>1, <2>2, SetInduction
<1> DEFINE e == loop[N + 1]
<1>11. e \in V /\ e.next = Null
  <2>1. N + 1 \in T
    BY <1>8, <1>10
  <2>2. Alive(e) \in Nat
    BY BoundsAssumption, FS_Subset, FS_CardinalityType
  <2> HIDE DEF Alive
  <2> QED
    BY <1>8, <2>1, <2>2
<1>12. e.mem = Mem(e.mem.value, e.mem.count, e.mem.alive)
  BY <1>11 DEF V, States, Mem
<1>13. SoundState(e, s, p, v)
  BY <1>11 DEF V
<1> HIDE DEF e
<1>14. /\ Sound(e.mem.value, e.mem.count, e.mem.alive, s, Null, But(p))
       /\ p \in Reach(e.mem.value)
       /\ \A q \in Cells : e.mem.value[q] = v[q]
  BY <1>11, <1>13 DEF SoundState
<1> QED
  BY <1>7, <1>12, <1>14 DEF e, Dereferenced


-------------------------------------------------------------------------------
(* The operations *)

LEMMA MemoryFields ==
  /\ memory = Mem(value, cached_ptrs, alive)
  /\ Reachable = Reach(value)
  BY DEF memory, Mem, Reachable

\* what a copy does to the counts
Referenced(v, c, a, s, D, y) ==
  \E d : Reference(Mem(v, c, a), y) = Mem(v, d, a) /\ Sound(v, d, a, s, y, D)

LEMMA ReferenceSound ==
  ASSUME NEW v, NEW c, NEW a, NEW s, NEW D, NEW y \in a \cup {Null}, Sound(v, c, a, s, Null, D), D # Places
  PROVE  Referenced(v, c, a, s, D, y)
<1>1. c \in [a -> Nat] /\ a \in SUBSET Shared
  BY DEF Sound, Typed
<1>2. CASE y = Null
  <2>1. Reference(Mem(v, c, a), y) = Mem(v, c, a)
    BY <1>2 DEF Reference
  <2> QED
    BY <1>2, <2>1 DEF Referenced
<1>3. CASE y \in a
  <2> DEFINE d == [o \in a |-> IF o = y THEN c[y] + 1 ELSE c[o]]
             m == Mem(v, c, a)
  <2>1. Wrap(c[y] + 1) = c[y] + 1 /\ Sound(v, d, a, s, y, D)
    BY <1>3, Gain
  <2>2. m.value = v /\ m.count = c /\ m.alive = a /\ DOMAIN c = a
    BY <1>1 DEF Mem
  <2>3. Count(m, y) = c[y] /\ y # Null /\ a \cup {y} = a
    BY <1>1, <1>3, <2>2, ThingsDistinct DEF Count
  <2>4. Reference(m, y) = Counted(m, y, c[y] + 1)
    BY <2>1, <2>3 DEF Reference
  <2>5. Counted(m, y, c[y] + 1) = Mem(v, d, a)
    BY <2>2, <2>3 DEF Counted, Mem
  <2> HIDE DEF d, m
  <2>6. Reference(m, y) = Mem(v, d, a)
    BY <2>4, <2>5
  <2> QED
    BY <2>1, <2>6 DEF Referenced, m
<1> QED
  BY <1>2, <1>3

LEMMA HoldFields ==
  ASSUME NEW v, NEW d, NEW b, NEW p, NEW y
  PROVE  Hold(Mem(v, d, b), p, y) = Mem([v EXCEPT ![p] = y], d, b)
  BY DEF Hold, Mem

\* A Cell is a place that is not an Object; without it the places are not all there.
LEMMA CellFacts ==
  ASSUME NEW c \in Cells
  PROVE  /\ c \in Places /\ c \notin Objects
         /\ But(c) # Places /\ c \in Places \ But(c) /\ But(c) \cup {c} = Places /\ But(c) \in SUBSET Places
  BY ThingsDistinct DEF But

LEMMA CopySound ==
  ASSUME IInv, NEW c \in Cells, NEW p \in Places, Copy(c, p)
  PROVE  IInv'
<1> DEFINE y == value[p]
<1>1. value[c] = Null /\ Becomes(Hold(Reference(memory, y), c, y)) /\ surplus' = surplus
  BY DEF Copy, Fresh
<1>2. y \in alive \cup {Null}
  BY DEF IInv, Sound
<1> HIDE DEF y
<1>3. Sound(value, cached_ptrs, alive, surplus, Null, But(c))
  BY <1>1, CellFacts, Take DEF IInv, But
<1>4. PICK d : Reference(memory, y) = Mem(value, d, alive) /\ Sound(value, d, alive, surplus, y, But(c))
  <2>1. Referenced(value, cached_ptrs, alive, surplus, But(c), y)
    BY <1>2, <1>3, CellFacts, ReferenceSound
  <2> QED
    BY <2>1, MemoryFields DEF Referenced
<1>5. value' = [value EXCEPT ![c] = y] /\ cached_ptrs' = d /\ alive' = alive
  <2> DEFINE m == Hold(Reference(memory, y), c, y)
             w == [value EXCEPT ![c] = y]
  <2>1. m = Mem(w, d, alive)
    BY <1>4, HoldFields
  <2> HIDE DEF w
  <2>2. m.value = w /\ m.count = d /\ m.alive = alive
    BY <2>1 DEF Mem
  <2> QED
    BY <1>1, <2>2 DEF Becomes, w
<1>6. Sound([value EXCEPT ![c] = y], d, alive, surplus, Null, But(c) \cup {c})
  BY <1>4, CellFacts, Put
<1> QED
  BY <1>1, <1>5, <1>6, CellFacts DEF IInv

LEMMA MoveSound ==
  ASSUME IInv, NEW c \in Cells, NEW p \in Places, Move(c, p)
  PROVE  IInv'
<1> DEFINE y == value[p]
<1>1. /\ value[c] = Null /\ p \in Reach(value) /\ surplus' = surplus
      /\ Becomes(Hold(Hold(memory, c, y), p, Null))
  BY MemoryFields DEF Move, Fresh
<1>2. value' = [[value EXCEPT ![c] = y] EXCEPT ![p] = Null] /\ cached_ptrs' = cached_ptrs /\ alive' = alive
  <2> DEFINE m == Hold(Hold(memory, c, y), p, Null)
             w == [value EXCEPT ![c] = y]
             z == [w EXCEPT ![p] = Null]
  <2>1. Hold(memory, c, y) = Mem(w, cached_ptrs, alive)
    BY MemoryFields, HoldFields
  <2> HIDE DEF w
  <2>2. m = Mem(z, cached_ptrs, alive)
    BY <2>1, HoldFields
  <2> HIDE DEF z
  <2>3. m.value = z /\ m.count = cached_ptrs /\ m.alive = alive
    BY <2>2 DEF Mem
  <2> QED
    BY <1>1, <2>3 DEF Becomes, w, z
<1>3. Sound(value, cached_ptrs, alive, surplus, Null, But(c))
  BY <1>1, CellFacts, Take DEF IInv, But
<1>4. CASE p = c
  <2>1. Sound([value EXCEPT ![c] = Null], cached_ptrs, alive, surplus, Null, But(c) \cup {c})
    BY <1>3, CellFacts, Put
  <2>2. value' = [value EXCEPT ![c] = Null]
    BY <1>1, <1>2, <1>4 DEF IInv, Sound, Typed
  <2> QED
    BY <1>1, <1>2, <2>1, <2>2, CellFacts DEF IInv
<1>5. CASE p # c
  <2> DEFINE D == But(c) \ {p}
             w == [value EXCEPT ![c] = y]
  <2>1. p \in But(c) /\ c \in Places \ D /\ p \in Places \ (D \cup {c}) /\ (D \cup {c}) \cup {p} = Places
    BY <1>5, CellFacts DEF But
  <2>2. Sound(value, cached_ptrs, alive, surplus, y, D)
    BY <1>3, <2>1, Take
  <2>3. Sound(w, cached_ptrs, alive, surplus, Null, D \cup {c})
    BY <2>1, <2>2, CellFacts, Put
  <2> HIDE DEF w, D
  <2>4. Sound([w EXCEPT ![p] = Null], cached_ptrs, alive, surplus, Null, (D \cup {c}) \cup {p})
    BY <2>1, <2>3, Put
  <2> QED
    BY <1>1, <1>2, <2>1, <2>4 DEF IInv, w
<1> QED
  BY <1>4, <1>5


LEMMA AssignCopySound ==
  ASSUME IInv, NEW c \in Cells, NEW p \in Places, AssignCopy(p, c)
  PROVE  IInv'
<1> DEFINE x == value[p]
           y == value[c]
<1>1. CASE p = c \/ x = y
  BY <1>1 DEF AssignCopy, IInv, vars
<1>2. CASE p # c /\ x # y
  <2>1. /\ p \in Reach(value) /\ surplus' = surplus
        /\ Becomes(Hold(Reference(Dereference(memory, x), y), p, y))
    BY <1>2, MemoryFields DEF AssignCopy
  <2>2. c \in But(p)
    BY <1>2, CellFacts DEF But
  <2> HIDE DEF x
  <2>3. PICK w, d, b :
          /\ Dereference(memory, x) = Mem(w, d, b)
          /\ Sound(w, d, b, surplus, Null, But(p))
          /\ p \in Reach(w)
          /\ \A q \in Cells : w[q] = value[q]
    <3>1. Sound(value, cached_ptrs, alive, surplus, x, But(p))
      BY Take DEF IInv, But, x
    <3>2. Dereferenced(value, cached_ptrs, alive, surplus, p, x)
      BY <2>1, <3>1, DereferenceSound
    <3> QED
      BY <3>2, MemoryFields DEF Dereferenced
  <2>4. w[c] = y /\ y \in b \cup {Null}
    BY <2>2, <2>3 DEF Sound
  <2>5. p \notin Objects \ b /\ But(p) # Places /\ p \in Places \ But(p) /\ But(p) \cup {p} = Places
    BY <2>3, ReachableLives DEF But
  <2> HIDE DEF y
  <2>6. PICK e : Reference(Mem(w, d, b), y) = Mem(w, e, b) /\ Sound(w, e, b, surplus, y, But(p))
    <3>1. Referenced(w, d, b, surplus, But(p), y)
      BY <2>3, <2>4, <2>5, ReferenceSound
    <3> QED
      BY <3>1 DEF Referenced
  <2>7. value' = [w EXCEPT ![p] = y] /\ cached_ptrs' = e /\ alive' = b
    <3> DEFINE m == Hold(Reference(Dereference(memory, x), y), p, y)
               z == [w EXCEPT ![p] = y]
    <3>1. m = Mem(z, e, b)
      BY <2>3, <2>6, HoldFields
    <3> HIDE DEF z
    <3>2. m.value = z /\ m.count = e /\ m.alive = b
      BY <3>1 DEF Mem
    <3> QED
      BY <2>1, <3>2 DEF Becomes, z
  <2>8. Sound([w EXCEPT ![p] = y], e, b, surplus, Null, But(p) \cup {p})
    BY <2>5, <2>6, Put
  <2> QED
    BY <2>1, <2>5, <2>7, <2>8 DEF IInv
<1> QED
  BY <1>1, <1>2

LEMMA AssignMoveSound ==
  ASSUME IInv, NEW c \in Cells, NEW p \in Places, AssignMove(p, c)
  PROVE  IInv'
<1> DEFINE x == value[p]
           y == value[c]
<1>1. p # c /\ p \in Reach(value)
  BY MemoryFields DEF AssignMove
<1>2. CASE x = y
  <2>1. /\ y # Null /\ surplus[y] < MaxSurplus
        /\ Becomes(Hold(memory, c, Null)) /\ surplus' = [surplus EXCEPT ![y] = @ + 1]
    BY <1>2 DEF AssignMove
  <2>2. Sound(value, cached_ptrs, alive, surplus, y, But(c)) /\ y \in alive
    BY <2>1, CellFacts, Take DEF IInv, But, Sound
  <2> HIDE DEF y
  <2>3. Sound(value, cached_ptrs, alive, surplus', Null, But(c))
    BY <2>1, <2>2, Lose
  <2>4. Sound([value EXCEPT ![c] = Null], cached_ptrs, alive, surplus', Null, But(c) \cup {c})
    BY <2>3, CellFacts, Put
  <2>5. value' = [value EXCEPT ![c] = Null] /\ cached_ptrs' = cached_ptrs /\ alive' = alive
    <3> DEFINE m == Hold(memory, c, Null)
               z == [value EXCEPT ![c] = Null]
    <3>1. m = Mem(z, cached_ptrs, alive)
      BY MemoryFields, HoldFields
    <3> HIDE DEF z
    <3>2. m.value = z /\ m.count = cached_ptrs /\ m.alive = alive
      BY <3>1 DEF Mem
    <3> QED
      BY <2>1, <3>2 DEF Becomes, z
  <2> QED
    BY <2>4, <2>5, CellFacts DEF IInv
<1>3. CASE x # y
  <2>1. surplus' = surplus /\ Becomes(Hold(Hold(Dereference(memory, x), p, y), c, Null))
    BY <1>3 DEF AssignMove
  <2> HIDE DEF x
  <2>2. PICK w, d, b :
          /\ Dereference(memory, x) = Mem(w, d, b)
          /\ Sound(w, d, b, surplus, Null, But(p))
          /\ p \in Reach(w)
          /\ \A q \in Cells : w[q] = value[q]
    <3>1. Sound(value, cached_ptrs, alive, surplus, x, But(p))
      BY Take DEF IInv, But, x
    <3>2. Dereferenced(value, cached_ptrs, alive, surplus, p, x)
      BY <1>1, <3>1, DereferenceSound
    <3> QED
      BY <3>2, MemoryFields DEF Dereferenced
  <2> DEFINE D == But(p) \ {c}
             u == [w EXCEPT ![p] = y]
  <2>3. /\ c \in But(p) /\ p \in Places \ D /\ c \in Places \ (D \cup {p}) /\ (D \cup {p}) \cup {c} = Places
        /\ w[c] = y
    BY <1>1, <2>2, CellFacts DEF But
  <2>4. p \notin Objects \ b
    BY <2>2, ReachableLives
  <2>5. Sound(w, d, b, surplus, y, D)
    BY <2>2, <2>3, Take
  <2> HIDE DEF y
  <2>6. Sound(u, d, b, surplus, Null, D \cup {p})
    BY <2>3, <2>4, <2>5, Put
  <2> HIDE DEF D
  <2>7. Hold(Dereference(memory, x), p, y) = Mem(u, d, b)
    BY <2>2, HoldFields
  <2> HIDE DEF u
  <2>8. Sound([u EXCEPT ![c] = Null], d, b, surplus, Null, (D \cup {p}) \cup {c})
    BY <2>3, <2>6, Put
  <2>9. value' = [u EXCEPT ![c] = Null] /\ cached_ptrs' = d /\ alive' = b
    <3> DEFINE m == Hold(Hold(Dereference(memory, x), p, y), c, Null)
               z == [u EXCEPT ![c] = Null]
    <3>1. m = Mem(z, d, b)
      BY <2>7, HoldFields
    <3> HIDE DEF z
    <3>2. m.value = z /\ m.count = d /\ m.alive = b
      BY <3>1 DEF Mem
    <3> QED
      BY <2>1, <3>2 DEF Becomes, z
  <2> QED
    BY <2>1, <2>3, <2>8, <2>9 DEF IInv
<1> QED
  BY <1>2, <1>3

LEMMA DestroySound ==
  ASSUME IInv, NEW c \in Cells, Destroy(c)
  PROVE  IInv'
<1> DEFINE x == value[c]
<1>1. surplus' = surplus /\ Becomes(Hold(Dereference(memory, x), c, Null)) /\ c \in Reach(value)
  BY DEF Destroy, Reach
<1> HIDE DEF x
<1>2. PICK w, d, b : Dereference(memory, x) = Mem(w, d, b) /\ Sound(w, d, b, surplus, Null, But(c))
  <2>1. Sound(value, cached_ptrs, alive, surplus, x, But(c))
    BY CellFacts, Take DEF IInv, But, x
  <2>2. Dereferenced(value, cached_ptrs, alive, surplus, c, x)
    BY <1>1, <2>1, DereferenceSound
  <2> QED
    BY <2>2, MemoryFields DEF Dereferenced
<1>3. Sound([w EXCEPT ![c] = Null], d, b, surplus, Null, But(c) \cup {c})
  BY <1>2, CellFacts, Put
<1>4. value' = [w EXCEPT ![c] = Null] /\ cached_ptrs' = d /\ alive' = b
  <2> DEFINE m == Hold(Dereference(memory, x), c, Null)
             z == [w EXCEPT ![c] = Null]
  <2>1. m = Mem(z, d, b)
    BY <1>2, HoldFields
  <2> HIDE DEF z
  <2>2. m.value = z /\ m.count = d /\ m.alive = b
    BY <2>1 DEF Mem
  <2> QED
    BY <1>1, <2>2 DEF Becomes, z
<1> QED
  BY <1>1, <1>3, <1>4, CellFacts DEF IInv

LEMMA AllocatedFields ==
  ASSUME NEW v, NEW d, NEW b, NEW y
  PROVE  Allocated(Mem(v, d, b), y) = Mem(v, d, b \cup {y})
  BY DEF Allocated, Mem

\* the first count of a thing
LEMMA FirstCount ==
  ASSUME NEW v, NEW a, NEW c \in [a -> Nat], NEW y
  PROVE  Counted(Mem(v, c, a), y, 1) = Mem(v, [o \in a \cup {y} |-> IF o = y THEN 1 ELSE c[o]], a)
<1> DEFINE d == [o \in a \cup {y} |-> IF o = y THEN 1 ELSE c[o]]
           m == Mem(v, c, a)
<1>1. m = [value |-> v, count |-> c, alive |-> a] /\ m.count = c /\ DOMAIN c = a
  BY DEF Mem
<1>2. [o \in DOMAIN c \cup {y} |-> IF o = y THEN 1 ELSE c[o]] = d
  BY <1>1
<1> QED
  BY <1>1, <1>2 DEF Counted, Mem

LEMMA MakeObjectSound ==
  ASSUME IInv, NEW c \in Cells, NEW o \in Objects, MakeObject(c, o)
  PROVE  IInv'
<1>1. /\ value[c] = Null /\ o \notin alive /\ surplus' = surplus
      /\ Becomes(Hold(Hold(Allocated(Adopt(memory, o), o), o, Null), c, o))
  BY DEF MakeObject, Fresh
<1>2. o \in Shared /\ o # Null /\ o \in Places
  BY ThingsDistinct
<1>3. /\ value \in [Places -> Things] /\ cached_ptrs \in [alive -> Nat] /\ value[o] = Null
      /\ DOMAIN cached_ptrs = alive
  BY <1>1 DEF IInv, Sound, Typed, Clean
<1> DEFINE d == [x \in alive \cup {o} |-> IF x = o THEN 1 ELSE cached_ptrs[x]]
<1>4. Adopt(memory, o) = Mem(value, d, alive)
  <2>1. Wrap(0 + 1) = 1
    <3> DEFINE P == Cardinality(Places)
               k == Cardinality(HoldersIn(value, But(c), o))
    <3>1. k \in Nat /\ k < P /\ P \in Nat /\ MaxSurplus \in Nat
      BY CellFacts, HoldersFinite, BoundsAssumption, FS_Union, FS_CardinalityType DEF Places
    <3> HIDE DEF k, P
    <3>2. 1 <= P + MaxSurplus
      BY <3>1
    <3> QED
      BY <3>2, WrapFits DEF P
  <2>2. Count(memory, o) = 0 /\ o \notin DOMAIN memory.count
    BY <1>1, <1>3 DEF Count, memory
  <2>3. Adopt(memory, o) = Counted(memory, o, 1)
    BY <1>2, <2>1, <2>2 DEF Adopt, Reference
  <2> QED
    BY <1>3, <2>3, FirstCount, MemoryFields
<1>5. Sound(value, cached_ptrs, alive, surplus, Null, But(c))
  BY <1>1, CellFacts, Take DEF IInv, But
<1>6. Sound(value, d, alive \cup {o}, surplus, o, But(c))
  BY <1>1, <1>2, <1>5, New
<1> HIDE DEF d
<1>7. Sound([value EXCEPT ![c] = o], d, alive \cup {o}, surplus, Null, But(c) \cup {c})
  BY <1>6, CellFacts, Put
<1>8. value' = [value EXCEPT ![c] = o] /\ cached_ptrs' = d /\ alive' = alive \cup {o}
  <2> DEFINE m == Hold(Hold(Allocated(Adopt(memory, o), o), o, Null), c, o)
             z == [value EXCEPT ![c] = o]
             b == alive \cup {o}
  <2>1. [value EXCEPT ![o] = Null] = value
    BY <1>3
  <2>2. Hold(Allocated(Adopt(memory, o), o), o, Null) = Mem(value, d, b)
    <3>1. Hold(Mem(value, d, b), o, Null) = Mem([value EXCEPT ![o] = Null], d, b)
      BY HoldFields
    <3> QED
      BY <1>4, <2>1, <3>1, AllocatedFields
  <2> HIDE DEF b
  <2>3. m = Mem(z, d, b)
    BY <2>2, HoldFields
  <2> HIDE DEF z
  <2>4. m.value = z /\ m.count = d /\ m.alive = b
    BY <2>3 DEF Mem
  <2> QED
    BY <1>1, <2>4 DEF Becomes, z, b
<1> QED
  BY <1>1, <1>7, <1>8, CellFacts DEF IInv

LEMMA StringValueSound ==
  ASSUME IInv, NEW c \in Cells, NEW s \in Strings, StringValue(c, s)
  PROVE  IInv'
<1> DEFINE r == IF s \in alive THEN Reference(memory, s) ELSE Counted(memory, s, 1)
<1>1. value[c] = Null /\ surplus' = surplus /\ Becomes(Hold(Allocated(r, s), c, s))
  BY DEF StringValue, Fresh
<1>2. s \in Shared /\ cached_ptrs \in [alive -> Nat]
  BY DEF IInv, Sound, Typed, Shared
<1>3. Sound(value, cached_ptrs, alive, surplus, Null, But(c))
  BY <1>1, CellFacts, Take DEF IInv, But
<1>4. PICK d : r = Mem(value, d, alive) /\ Sound(value, d, alive \cup {s}, surplus, s, But(c))
  <2>1. CASE s \in alive
    <3>1. Referenced(value, cached_ptrs, alive, surplus, But(c), s)
      BY <1>3, <2>1, CellFacts, ReferenceSound
    <3>2. alive \cup {s} = alive
      BY <2>1
    <3> QED
      BY <2>1, <3>1, <3>2, MemoryFields DEF Referenced
  <2>2. CASE s \notin alive
    <3> DEFINE e == [x \in alive \cup {s} |-> IF x = s THEN 1 ELSE cached_ptrs[x]]
    <3>1. r = Mem(value, e, alive)
      BY <1>2, <2>2, FirstCount, MemoryFields
    <3>2. s \in Shared \ alive
      BY <1>2, <2>2
    <3>3. Sound(value, e, alive \cup {s}, surplus, s, But(c))
      BY <1>3, <3>2, New
    <3> HIDE DEF e
    <3> QED
      BY <3>1, <3>3
  <2> QED
    BY <2>1, <2>2
<1> HIDE DEF r
<1>5. Sound([value EXCEPT ![c] = s], d, alive \cup {s}, surplus, Null, But(c) \cup {c})
  BY <1>4, CellFacts, Put
<1>6. value' = [value EXCEPT ![c] = s] /\ cached_ptrs' = d /\ alive' = alive \cup {s}
  <2> DEFINE m == Hold(Allocated(r, s), c, s)
             z == [value EXCEPT ![c] = s]
             b == alive \cup {s}
  <2>1. Allocated(r, s) = Mem(value, d, b)
    BY <1>4, AllocatedFields
  <2> HIDE DEF b
  <2>2. m = Mem(z, d, b)
    BY <2>1, HoldFields
  <2> HIDE DEF z
  <2>3. m.value = z /\ m.count = d /\ m.alive = b
    BY <2>2 DEF Mem
  <2> QED
    BY <1>1, <2>3 DEF Becomes, z, b
<1> QED
  BY <1>1, <1>5, <1>6, CellFacts DEF IInv


-------------------------------------------------------------------------------
(* The theorems *)

LEMMA InitSound == Init => IInv
<1> SUFFICES ASSUME Init PROVE IInv
  OBVIOUS
<1>1. /\ value = [p \in Places |-> Null] /\ alive = {} /\ surplus = [o \in Shared |-> 0]
      /\ cached_ptrs = [o \in {} |-> 0] /\ MaxSurplus \in Nat
  BY BoundsAssumption DEF Init
<1>2. Typed(value, cached_ptrs, alive, surplus)
  BY <1>1 DEF Typed, Things
<1>3. Clean(value, alive, surplus)
  BY <1>1, ThingsDistinct DEF Clean
<1> QED
  BY <1>1, <1>2, <1>3 DEF IInv, Sound, Balanced

\* Every operation keeps the memory sound (Value.h, Value.cpp, and makeObject() of Interpreter.cpp).
THEOREM MemorySound == Spec => []IInv
<1>1. IInv /\ [Next]_vars => IInv'
  <2> SUFFICES ASSUME IInv, [Next]_vars PROVE IInv'
    OBVIOUS
  <2>1. ASSUME NEW c \in Cells, NEW o \in Objects, MakeObject(c, o) PROVE IInv'
    BY <2>1, MakeObjectSound
  <2>2. ASSUME NEW c \in Cells, NEW s \in Strings, StringValue(c, s) PROVE IInv'
    BY <2>2, StringValueSound
  <2>3. ASSUME NEW c \in Cells, NEW p \in Places, Copy(c, p) PROVE IInv'
    BY <2>3, CopySound
  <2>4. ASSUME NEW c \in Cells, NEW p \in Places, Move(c, p) PROVE IInv'
    BY <2>4, MoveSound
  <2>5. ASSUME NEW c \in Cells, NEW p \in Places, AssignCopy(p, c) PROVE IInv'
    BY <2>5, AssignCopySound
  <2>6. ASSUME NEW c \in Cells, NEW p \in Places, AssignMove(p, c) PROVE IInv'
    BY <2>6, AssignMoveSound
  <2>7. ASSUME NEW c \in Cells, Destroy(c) PROVE IInv'
    BY <2>7, DestroySound
  <2>8. CASE UNCHANGED vars
    BY <2>8 DEF IInv, vars
  <2> QED
    BY <2>1, <2>2, <2>3, <2>4, <2>5, <2>6, <2>7, <2>8 DEF Next
<1> QED
  BY <1>1, InitSound, PTL DEF Spec

LEMMA HoldersAreHolders ==
  ASSUME IInv, NEW o \in Shared
  PROVE  Holders(o) = HoldersIn(value, Places, o)
<1>1. \A p \in Objects \ alive : value[p] # o
  BY ThingsDistinct DEF IInv, Sound, Clean
<1> QED
  BY <1>1 DEF Holders, HoldersIn, Live, Places

\* what the balance says of one thing
LEMMA CountIs ==
  ASSUME IInv, NEW o \in alive
  PROVE  /\ Cardinality(Holders(o)) \in Nat /\ surplus[o] \in 0 .. MaxSurplus
         /\ Cardinality(Holders(o)) + surplus[o] <= Cardinality(Places) + MaxSurplus
         /\ cached_ptrs[o] = Cardinality(Holders(o)) + surplus[o]
         /\ cached_ptrs[o] # 0
<1> DEFINE k == Cardinality(Holders(o))
           P == Cardinality(Places)
<1>1. o \in Shared /\ o # Null /\ surplus[o] \in 0 .. MaxSurplus /\ MaxSurplus \in Nat
  BY BoundsAssumption, ThingsDistinct DEF IInv, Sound, Typed
<1>2. k \in Nat /\ k <= P /\ P \in Nat
  BY <1>1, HoldersAreHolders, HoldersFinite, BoundsAssumption, FS_Union, FS_CardinalityType DEF Places
<1>3. cached_ptrs[o] = k + surplus[o] + (IF o = Null THEN 1 ELSE 0) /\ cached_ptrs[o] # 0
  BY <1>1, HoldersAreHolders DEF IInv, Sound, Balanced
<1> HIDE DEF k, P
<1>4. cached_ptrs[o] = k + surplus[o] /\ k + surplus[o] <= P + MaxSurplus
  BY <1>1, <1>2, <1>3
<1> QED
  BY <1>1, <1>2, <1>3, <1>4 DEF k, P

\* The types of the variables; no entry of cached_ptrs is ever 0 (Value.cpp, Value::deref_as_obj()).
THEOREM TypeCorrect == Spec => []TypeOK
<1>1. IInv => TypeOK
  <2> SUFFICES ASSUME IInv PROVE TypeOK
    OBVIOUS
  <2> DEFINE M == 2^CountBits
             P == Cardinality(Places)
  <2>1. M \in Int /\ P + MaxSurplus < M
    BY BoundsAssumption, CountsFitAssumption
  <2>2. P \in Nat /\ MaxSurplus \in Nat
    BY BoundsAssumption, FS_Union, FS_CardinalityType DEF Places
  <2>3. ASSUME NEW o \in alive PROVE cached_ptrs[o] \in 1 .. M - 1
    <3> DEFINE k == Cardinality(Holders(o))
    <3>1. /\ k \in Nat /\ surplus[o] \in 0 .. MaxSurplus /\ k + surplus[o] <= P + MaxSurplus
          /\ cached_ptrs[o] = k + surplus[o] /\ cached_ptrs[o] # 0
      BY CountIs
    <3> HIDE DEF k, P, M
    <3> QED
      BY <2>1, <2>2, <3>1
  <2> HIDE DEF M
  <2>4. value \in [Places -> Shared \cup {Null}] /\ alive \subseteq Shared /\ DOMAIN cached_ptrs = alive
        /\ surplus \in [Shared -> 0 .. MaxSurplus]
    BY DEF IInv, Sound, Typed, Things
  <2> QED
    BY <2>3, <2>4 DEF TypeOK, M
<1> QED
  BY <1>1, MemorySound, PTL

\* No Value that is alive holds what was deleted (Value.cpp, the assignments and deref_as_obj()).
THEOREM HeldIsAlive == Spec => []HeldAlive
<1>1. IInv => HeldAlive
  <2> SUFFICES ASSUME IInv, NEW o \in Shared \ alive PROVE Holders(o) = {}
    BY DEF HeldAlive
  <2>1. HoldersIn(value, Places, o) = {}
    BY ThingsDistinct DEF IInv, Sound, HoldersIn
  <2> QED
    BY <2>1, HoldersAreHolders
<1> QED
  BY <1>1, MemorySound, PTL

\* An entry of cached_ptrs is the number of Values that hold the thing and of the counts that
\* operator=(Value&&) lost (Value.cpp, Value::operator=).
THEOREM CountsAreHolders == Spec => []CountsHolders
<1>1. IInv => CountsHolders
  <2> SUFFICES ASSUME IInv PROVE CountsHolders
    OBVIOUS
  <2>1. ASSUME NEW o \in alive
        PROVE  cached_ptrs[o] = Wrap(Cardinality(Holders(o)) + surplus[o])
    <3> DEFINE n == Cardinality(Holders(o)) + surplus[o]
    <3>1. n \in Nat
      BY CountIs, BoundsAssumption
    <3>2. n <= Cardinality(Places) + MaxSurplus /\ cached_ptrs[o] = n
      BY CountIs
    <3> HIDE DEF n
    <3> QED
      BY <3>1, <3>2, WrapFits DEF n
  <2>2. DOMAIN cached_ptrs = alive
    BY DEF IInv, Sound, Typed
  <2> QED
    BY <2>1, <2>2 DEF CountsHolders
<1> QED
  BY <1>1, MemorySound, PTL


LEMMA ReachCloses ==
  ASSUME NEW v, NEW p \in Reach(v), v[p] \in Objects
  PROVE  v[p] \in Reach(v)
  BY DEF Reach, Closed

\* Without lost counts, what is allocated and cannot be reached are cycles: each such Object is held by
\* one of them, and holds only one thing, so that each of them holds one.  A structure without cycles
\* goes with the last reference to it (Value.cpp, Value::~Value() and deref_as_obj()).
THEOREM UnreachableCollected == Spec => []Collected
<1>1. IInv => Collected
  <2> DEFINE U == Garbage
  <2> SUFFICES ASSUME IInv, \A x \in alive : ~(surplus[x] > 0)
               PROVE  \A o \in U : value[o] \in U
    BY DEF Collected
  <2> DEFINE W == {h \in U : value[h] \in U}
             f == [h \in W |-> value[h]]
  <2>1. ASSUME NEW u \in U PROVE \E h \in U : value[h] = u
    <3> DEFINE H == Holders(u)
               k == Cardinality(H)
    <3>1. /\ k \in Nat /\ surplus[u] \in 0 .. MaxSurplus /\ cached_ptrs[u] = k + surplus[u]
          /\ cached_ptrs[u] # 0 /\ MaxSurplus \in Nat
      BY CountIs, BoundsAssumption DEF Garbage
    <3>2. surplus[u] = 0
      BY <3>1 DEF Garbage
    <3> HIDE DEF k
    <3>3. k # 0
      BY <3>1, <3>2
    <3> HIDE DEF H
    <3>4. H # {}
      BY <3>3, FS_EmptySet DEF k
    <3>5. PICK h \in Live : value[h] = u
      BY <3>4 DEF H, Holders
    <3>6. h \notin Reachable
      BY <3>5, MemoryFields, ReachCloses DEF Garbage
    <3>7. h \in U
      BY <3>6 DEF Live, Reachable, Reach, Garbage
    <3> QED
      BY <3>5, <3>7
  <2>2. IsFiniteSet(U) /\ W \subseteq U
    BY BoundsAssumption, FS_Subset DEF Garbage
  <2>3. IsFiniteSet(W)
    BY <2>2, FS_Subset
  <2>4. f \in Surjection(W, U)
    <3>1. f \in [W -> U]
      OBVIOUS
    <3>2. \A u \in U : \E h \in W : f[h] = u
      BY <2>1
    <3> QED
      BY <3>1, <3>2 DEF Surjection
  <2> HIDE DEF f
  <2>5. W = U
    <3>1. Cardinality(U) <= Cardinality(W)
      BY <2>3, <2>4, FS_Surjection
    <3> HIDE DEF W, U
    <3>2. Cardinality(W) <= Cardinality(U) /\ (Cardinality(W) = Cardinality(U) => W = U)
      BY <2>2, FS_Subset
    <3>3. Cardinality(W) \in Nat /\ Cardinality(U) \in Nat
      BY <2>2, <2>3, FS_CardinalityType
    <3> QED
      BY <3>1, <3>2, <3>3
  <2> QED
    BY <2>5
<1> QED
  BY <1>1, MemorySound, PTL

===============================================================================
