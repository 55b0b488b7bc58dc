--------------------------- MODULE ObjectTreeProofs ---------------------------
(***************************************************************************)
(* Proofs about ObjectTree, for every set of classes, whatever they define *)
(* and in whatever order they are appended.  Each of the four ways in      *)
(* which append() links a class adds a line of directories below the       *)
(* lowest ancestor that is known, or gives a dummy its class; either way   *)
(* the class is cooked from exactly the classes above it that were         *)
(* appended before.  Inv adds to the invariants the runs check that a      *)
(* class yet to come is as the parser left it, that a metatable is a       *)
(* root's, and what "ancestors first" means for the classes left.          *)
(***************************************************************************)
EXTENDS ObjectTree, SequenceFacts

(* Paths.                                                                  *)

Path == Seq(STRING)

LEMMA UptoFacts ==
  ASSUME NEW p \in Path, NEW n \in 0 .. Len(p)
  PROVE  /\ Len(p) \in Nat
         /\ Upto(p, n) \in Path
         /\ Len(Upto(p, n)) = n
         /\ \A i \in 1 .. n : Upto(p, n)[i] = p[i]
<1>1. Len(p) \in Nat /\ \A i \in 1 .. Len(p) : p[i] \in STRING
  BY LenProperties, ElementOfSeq DEF Path
<1>2. 1 \in Int /\ n \in Int /\ \A i \in 1 .. n : p[i] \in STRING
  BY <1>1
<1> DEFINE u == SubSeq(p, 1, n)
<1>3. /\ u \in Seq(STRING) /\ Len(u) = IF 1 <= n THEN n - 1 + 1 ELSE 0
      /\ \A i \in 1 .. n - 1 + 1 : u[i] = p[1 + i - 1]
  BY <1>2, SubSeqProperties
<1> HIDE DEF u
<1>4. Len(u) = n /\ \A i \in 1 .. n : u[i] = p[i]
  BY <1>1, <1>3
<1> QED BY <1>1, <1>3, <1>4 DEF Upto, Path, u

\* A directory is its own beginning, and the beginning of a beginning is one too.
LEMMA UptoAll ==
  ASSUME NEW p \in Path
  PROVE  Upto(p, Len(p)) = p
BY SubSeqFull DEF Upto, Path

LEMMA UptoUpto ==
  ASSUME NEW p \in Path, NEW n \in 0 .. Len(p), NEW m \in 0 .. n
  PROVE  Upto(Upto(p, n), m) = Upto(p, m)
<1> DEFINE q == Upto(p, n)
           u == Upto(q, m)
           w == Upto(p, m)
<1>1. Len(p) \in Nat /\ q \in Path /\ Len(q) = n /\ \A i \in 1 .. n : q[i] = p[i]
  BY UptoFacts
<1>2. m \in 0 .. Len(p) /\ m \in 0 .. Len(q)
  BY <1>1
<1> HIDE DEF q
<1>3. u \in Path /\ Len(u) = m /\ \A i \in 1 .. m : u[i] = q[i]
  BY <1>1, <1>2, UptoFacts
<1>4. w \in Path /\ Len(w) = m /\ \A i \in 1 .. m : w[i] = p[i]
  BY <1>2, UptoFacts
<1> HIDE DEF u, w
<1>5. \A i \in 1 .. m : u[i] = w[i]
  BY <1>1, <1>2, <1>3, <1>4
<1>6. u = w
  BY <1>3, <1>4, <1>5, SeqEqual DEF Path
<1> QED BY <1>6 DEF q, u, w

\* Paths are what PathsAssumption says.
LEMMA PathFacts ==
  ASSUME NEW p \in Paths
  PROVE  /\ p \in Path /\ p # Nil /\ Len(p) \in Nat \ {0}
         /\ \A n \in 1 .. Len(p) : Upto(p, n) \in Paths
         /\ \A n \in 0 .. Len(p) : Len(Upto(p, n)) = n
         /\ Front(p) = Upto(p, Len(p) - 1)
         /\ Front(p) = Nil <=> IsRoot(p)
<1>1. p \in Path /\ p # Nil /\ \A n \in 1 .. Len(p) : Upto(p, n) \in Paths
  BY PathsAssumption DEF Path, Upto, Nil
<1>2. Len(p) \in Nat \ {0}
  BY <1>1, EmptySeq DEF Path, Nil
<1>3. \A n \in 0 .. Len(p) : Len(Upto(p, n)) = n
  BY <1>1, UptoFacts
<1>4. Front(p) = Upto(p, Len(p) - 1)
  BY DEF Front, Upto
<1>5. Front(p) = Nil <=> Len(p) = 1
  <2>1. Len(p) - 1 \in 0 .. Len(p)
    BY <1>2
  <2>2. Front(p) \in Path /\ Len(Front(p)) = Len(p) - 1
    BY <1>1, <1>4, <2>1, UptoFacts
  <2>3. Front(p) = Nil <=> Len(Front(p)) = 0
    BY <2>2, EmptySeq DEF Path, Nil
  <2> QED BY <1>2, <2>2, <2>3
<1> QED BY <1>1, <1>2, <1>3, <1>4, <1>5 DEF IsRoot

\* What it means to be above another directory.
LEMMA AboveFacts ==
  ASSUME NEW p \in Paths, NEW q \in Above(p)
  PROVE  q \in Paths /\ Len(q) \in 1 .. Len(p) - 1 /\ Upto(p, Len(q)) = q /\ q # p
<1>1. PICK n \in 1 .. Len(p) - 1 : q = Upto(p, n)
  BY DEF Above
<1>2. Len(p) \in Nat \ {0} /\ n \in 1 .. Len(p) /\ n \in 0 .. Len(p) /\ n # Len(p)
  BY PathFacts
<1>3. q \in Paths /\ Len(q) = n
  BY <1>1, <1>2, PathFacts
<1> QED BY <1>1, <1>2, <1>3

LEMMA AboveIntro ==
  ASSUME NEW p \in Paths, NEW n \in 1 .. Len(p) - 1
  PROVE  Upto(p, n) \in Above(p)
BY DEF Above

LEMMA AboveTransitive ==
  ASSUME NEW p \in Paths, NEW q \in Above(p), NEW r \in Above(q)
  PROVE  r \in Above(p)
<1>1. q \in Paths /\ Len(q) \in 1 .. Len(p) - 1 /\ Upto(p, Len(q)) = q
  BY AboveFacts
<1>2. r \in Paths /\ Len(r) \in 1 .. Len(q) - 1 /\ Upto(q, Len(r)) = r
  BY <1>1, AboveFacts
<1>3. p \in Path /\ Len(p) \in Nat
  BY PathFacts
<1>4. Len(q) \in 0 .. Len(p) /\ Len(r) \in 0 .. Len(q) /\ Len(r) \in 1 .. Len(p) - 1
  BY <1>1, <1>2, <1>3
<1>5. Upto(Upto(p, Len(q)), Len(r)) = Upto(p, Len(r))
  BY <1>3, <1>4, UptoUpto
<1> QED BY <1>1, <1>2, <1>4, <1>5, AboveIntro

\* Of two directories above a third, the shorter one is above the longer one.
LEMMA AboveLine ==
  ASSUME NEW p \in Paths, NEW q \in Above(p), NEW r \in Above(p)
  PROVE  /\ Len(r) < Len(q) => r \in Above(q)
         /\ Len(r) = Len(q) => r = q
<1>1. q \in Paths /\ Len(q) \in 1 .. Len(p) - 1 /\ Upto(p, Len(q)) = q
  BY AboveFacts
<1>2. r \in Paths /\ Len(r) \in 1 .. Len(p) - 1 /\ Upto(p, Len(r)) = r
  BY AboveFacts
<1>3. p \in Path /\ Len(p) \in Nat
  BY PathFacts
<1>4. ASSUME Len(r) < Len(q) PROVE r \in Above(q)
  <2>1. Len(q) \in 0 .. Len(p) /\ Len(r) \in 0 .. Len(q) /\ Len(r) \in 1 .. Len(q) - 1
    BY <1>1, <1>2, <1>3, <1>4
  <2>2. Upto(q, Len(r)) = r
    BY <1>1, <1>2, <1>3, <2>1, UptoUpto
  <2> QED BY <1>1, <2>1, <2>2, AboveIntro
<1> QED BY <1>1, <1>2, <1>4

\* The length of a directory that is not a root.
LEMMA AtLeastTwo ==
  ASSUME NEW k \in Nat \ {0}, k # 1
  PROVE  k - 1 \in 1 .. k - 1 /\ 0 \in 0 .. k - 2
OBVIOUS

\* Directories of bounded length have a longest one.
LEMMA Longest ==
  ASSUME NEW S, S \subseteq Paths, S # {}, NEW b \in Nat, \A p \in S : Len(p) <= b
  PROVE  \E p \in S : \A q \in S : Len(q) <= Len(p)
<1> DEFINE T == {b - Len(p) : p \in S}
<1>1. \A p \in S : Len(p) \in Nat
  BY PathFacts
<1>2. T \subseteq Nat /\ T # {}
  BY <1>1
<1>3. PICK n \in T : \A m \in T : n <= m
  BY <1>2, NatMin
<1>4. PICK p \in S : n = b - Len(p)
  OBVIOUS
<1>5. ASSUME NEW q \in S PROVE Len(q) <= Len(p)
  <2>1. n <= b - Len(q)
    BY <1>3
  <2> QED BY <1>1, <1>4, <2>1
<1> QED BY <1>5

-----------------------------------------------------------------------------
(* The tree.                                                               *)

AppendedLinked == Appended \subseteq DOMAIN node

TreeInv == TypeOK /\ RootsLinked /\ AppendedLinked

\* The directories above one in the tree are in the tree.
LEMMA Chain ==
  ASSUME TreeInv, NEW p \in DOMAIN node, NEW n \in 1 .. Len(p)
  PROVE  /\ Upto(p, n) \in DOMAIN node
         /\ node[Upto(p, n)].root = Nil <=> n = 1
<1>1. DOMAIN node \subseteq Paths /\ p \in Paths
  BY DEF TreeInv, TypeOK
<1>2. p \in Path /\ Len(p) \in Nat \ {0}
  BY <1>1, PathFacts
<1> DEFINE l == Len(p)
           Missed == {k \in 0 .. l - 1 : Upto(p, l - k) \notin DOMAIN node}
<1>3. Missed = {}
  <2> SUFFICES ASSUME Missed # {} PROVE FALSE
    OBVIOUS
  <2>1. Missed \subseteq Nat
    OBVIOUS
  <2>2. PICK k \in Missed : \A j \in Missed : k <= j
    BY <2>1, NatMin
  <2>3. k # 0
    BY <1>2, UptoAll
  <2> DEFINE q == Upto(p, l - (k - 1))
  <2>4. k - 1 \in 0 .. l - 1 /\ ~(k <= k - 1)
    BY <1>2, <2>3
  <2>5. q \in DOMAIN node
    BY <2>2, <2>4
  <2>6. l - (k - 1) \in 0 .. Len(p) /\ l - k \in 0 .. l - (k - 1) /\ l - (k - 1) # 1 /\ l - (k - 1) - 1 = l - k
    BY <1>2, <2>3
  <2>7. Len(q) = l - (k - 1)
    BY <1>2, <2>6, UptoFacts
  <2>8. Upto(q, l - k) = Upto(p, l - k)
    BY <1>2, <2>6, UptoUpto
  <2> HIDE DEF q, l
  <2>9. q \in Paths /\ Front(q) = Upto(q, Len(q) - 1) /\ ~IsRoot(q)
    BY <1>1, <2>5, <2>6, <2>7, PathFacts DEF IsRoot
  <2>10. Front(q) \in DOMAIN node
    BY <2>5, <2>9 DEF TreeInv, RootsLinked
  <2>11. Upto(p, l - k) \in DOMAIN node
    BY <2>6, <2>7, <2>8, <2>9, <2>10
  <2> QED BY <2>2, <2>11
<1>4. Upto(p, n) \in DOMAIN node
  <2>1. l - n \in 0 .. l - 1 /\ l - (l - n) = n
    BY <1>2
  <2> QED BY <1>3, <2>1
<1> DEFINE u == Upto(p, n)
<1>5. u \in Paths /\ Len(u) = n
  BY <1>1, <1>2, <1>4, UptoFacts
<1>6. node[u].root = Front(u)
  BY <1>4 DEF TreeInv, RootsLinked
<1> HIDE DEF u
<1>7. Front(u) = Nil <=> n = 1
  BY <1>5, PathFacts DEF IsRoot
<1> QED BY <1>4, <1>6, <1>7 DEF u

\* propagate_upstream meets every class above it.
LEMMA UpstreamFacts ==
  ASSUME TreeInv, NEW a \in DOMAIN node
  PROVE  Upstream(node, a) = (Above(a) \cup {a}) \cap Appended
<1>1. a \in Paths /\ a \in Path /\ Len(a) \in Nat \ {0}
  BY PathFacts DEF TreeInv, TypeOK
<1> DEFINE l == Len(a)
<1>2. \A n \in 1 .. l : Upto(a, n) \in DOMAIN node /\ (node[Upto(a, n)].root = Nil <=> n = 1)
  BY Chain
<1>3. \A n \in 1 .. l : node[Upto(a, n)].me <=> Upto(a, n) \in Appended
  BY <1>2 DEF TreeInv, RootsLinked
<1>4. \A n \in 1 .. l : \A m \in n + 1 .. l : node[Upto(a, m)].root # Nil
  <2> TAKE n \in 1 .. l
  <2> TAKE m \in n + 1 .. l
  <2>1. m \in 1 .. l /\ m # 1
    BY <1>1
  <2> QED BY <1>2, <2>1
<1>5. Upto(a, l) = a
  BY <1>1, UptoAll
<1> HIDE DEF l
<1>6. Upstream(node, a) = {Upto(a, n) : n \in {n \in 1 .. l : Upto(a, n) \in Appended}}
  BY <1>3, <1>4 DEF Upstream, l
<1>7. Above(a) \cup {a} = {Upto(a, n) : n \in 1 .. l}
  <2>1. Above(a) = {Upto(a, n) : n \in 1 .. l - 1}
    BY DEF Above, l
  <2>2. l \in 1 .. l /\ \A n \in 1 .. l : n = l \/ n \in 1 .. l - 1
    BY <1>1 DEF l
  <2>3. \A n \in 1 .. l - 1 : n \in 1 .. l
    BY <1>1 DEF l
  <2> QED BY <1>5, <2>1, <2>2, <2>3
<1> QED BY <1>6, <1>7

\* propagate_downstream meets classes below it only.
LEMMA DownstreamFacts ==
  ASSUME TreeInv, NEW t \in Paths, NEW q \in Downstream(node, t)
  PROVE  q \in DOMAIN node /\ q \in Appended /\ t \in Above(q) /\ t \in DOMAIN node /\ q # t
<1>1. q \in DOMAIN node /\ Len(q) > Len(t) /\ Upto(q, Len(t)) = t /\ node[q].me
  BY DEF Downstream
<1>2. q \in Appended /\ q \in Paths
  BY <1>1 DEF TreeInv, RootsLinked, TypeOK
<1>3. Len(t) \in 1 .. Len(q) - 1 /\ Len(t) \in 1 .. Len(q)
  BY <1>1, <1>2, PathFacts
<1>4. t \in Above(q) /\ t \in DOMAIN node
  BY <1>1, <1>2, <1>3, AboveIntro, Chain
<1> QED BY <1>1, <1>2, <1>4, AboveFacts

-----------------------------------------------------------------------------
(* append() adds a line of nodes, of which the last is the class itself,   *)
(* below the lowest ancestor that is in the tree, if one is.               *)

LineAdded(t, missing, top, line) ==
  /\ t \in line /\ top \in line /\ line \subseteq (Above(t) \cup {t}) \ DOMAIN node
  /\ \/ missing = Nil /\ Above(t) \cap DOMAIN node = {}
     \/ missing \in Above(t) \cap DOMAIN node /\ Above(t) \cap DOMAIN node \subseteq Above(missing) \cup {missing}
  /\ Front(top) = missing
  /\ \A p \in line : Front(p) = missing \/ Front(p) \in line
  /\ top = t \/ Front(t) \notin DOMAIN node
  /\ DOMAIN node' = DOMAIN node \cup line
  /\ \A p \in DOMAIN node :
       node'[p] = [node[p] EXCEPT !.children = @ \cup IF p = missing THEN {top} ELSE {}]
  /\ \A p \in line : node'[p] = Node(Front(p), IF p = Front(t) THEN {t} ELSE {}, p = t)


\* A new child of a directory is not above itself.
LEMMA FrontAbove ==
  ASSUME NEW t \in Paths
  PROVE  /\ IsRoot(t) => Above(t) = {}
         /\ ~IsRoot(t) => Front(t) \in Above(t) /\ Above(t) \subseteq Above(Front(t)) \cup {Front(t)}
         /\ Front(t) # t
<1>1. t \in Path /\ Len(t) \in Nat \ {0} /\ Front(t) = Upto(t, Len(t) - 1)
  BY PathFacts
<1>2. Len(Front(t)) = Len(t) - 1
  <2>1. Len(t) - 1 \in 0 .. Len(t)
    BY <1>1
  <2> QED BY <1>1, <2>1, PathFacts
<1>3. Front(t) # t
  BY <1>1, <1>2
<1>4. IsRoot(t) => Above(t) = {}
  BY DEF IsRoot, Above
<1>5. ASSUME ~IsRoot(t)
      PROVE  Front(t) \in Above(t) /\ Above(t) \subseteq Above(Front(t)) \cup {Front(t)}
  <2>4. Len(t) # 1
    BY <1>5 DEF IsRoot
  <2>1. Len(t) - 1 \in 1 .. Len(t) - 1
    BY <1>1, <2>4, AtLeastTwo
  <2>2. Front(t) \in Above(t)
    BY <1>1, <2>1, AboveIntro
  <2>3. ASSUME NEW q \in Above(t) PROVE q \in Above(Front(t)) \cup {Front(t)}
    <3>1. Len(q) \in 1 .. Len(t) - 1
      BY AboveFacts
    <3>2. Len(q) < Len(Front(t)) \/ Len(q) = Len(Front(t))
      BY <1>1, <1>2, <3>1
    <3> QED BY <2>2, <3>2, AboveLine
  <2> QED BY <2>2, <2>3
<1> QED BY <1>3, <1>4, <1>5

LEMMA BaseAdds ==
  ASSUME TreeInv, NEW t \in Paths, AppendBase(t)
  PROVE  LineAdded(t, Nil, t, {t})
<1>1. t \notin DOMAIN node /\ IsRoot(t) /\ node' = Inserted(node, [p \in {t} |-> Node(Nil, {}, TRUE)])
  BY DEF AppendBase
<1>2. Front(t) = Nil /\ Above(t) = {} /\ t # Front(t)
  BY <1>1, PathFacts, FrontAbove
<1>3. DOMAIN node' = DOMAIN node \cup {t} /\ node'[t] = Node(Nil, {}, TRUE)
      /\ \A p \in DOMAIN node : node'[p] = node[p]
  BY <1>1 DEF Inserted
<1>4. \A p \in DOMAIN node : p # Nil /\ node[p] \in [root : Paths \cup {Nil}, children : SUBSET Paths, me : BOOLEAN]
  BY PathFacts DEF TreeInv, TypeOK
<1>5. \A p \in DOMAIN node :
        node'[p] = [node[p] EXCEPT !.children = @ \cup IF p = Nil THEN {t} ELSE {}]
  <2> TAKE p \in DOMAIN node
  <2>1. node[p] = [node[p] EXCEPT !.children = @ \cup {}]
    BY <1>4
  <2> QED BY <1>3, <1>4, <2>1
<1> QED BY <1>1, <1>2, <1>3, <1>5 DEF LineAdded

LEMMA ChildAdds ==
  ASSUME TreeInv, NEW t \in Paths, AppendChild(t)
  PROVE  LineAdded(t, Front(t), t, {t})
<1>1. t \notin DOMAIN node /\ ~IsRoot(t) /\ Front(t) \in DOMAIN node
  BY DEF AppendChild
<1> DEFINE linked == [node EXCEPT ![Front(t)].children = @ \cup {t}]
<1>2. node' = Inserted(linked, [p \in {t} |-> Node(Front(t), {}, TRUE)])
  BY DEF AppendChild
<1>3. Front(t) \in Above(t) /\ Above(t) \subseteq Above(Front(t)) \cup {Front(t)} /\ t # Front(t)
  BY <1>1, FrontAbove
<1>4. \A p \in DOMAIN node : node[p] \in [root : Paths \cup {Nil}, children : SUBSET Paths, me : BOOLEAN]
  BY DEF TreeInv, TypeOK
<1>5. DOMAIN linked = DOMAIN node
      /\ \A p \in DOMAIN node :
           linked[p] = [node[p] EXCEPT !.children = @ \cup IF p = Front(t) THEN {t} ELSE {}]
  <2>1. ASSUME NEW p \in DOMAIN node, p # Front(t) PROVE node[p] = [node[p] EXCEPT !.children = @ \cup {}]
    BY <1>4
  <2> QED BY <1>1, <2>1
<1> HIDE DEF linked
<1>6. DOMAIN node' = DOMAIN node \cup {t} /\ node'[t] = Node(Front(t), {}, TRUE)
      /\ \A p \in DOMAIN node : node'[p] = linked[p]
  BY <1>1, <1>2, <1>5 DEF Inserted
<1> QED BY <1>1, <1>3, <1>5, <1>6 DEF LineAdded

LEMMA LineAdds ==
  ASSUME TreeInv, NEW t \in Paths, AppendLine(t)
  PROVE  \E missing, top, line :
           /\ LineAdded(t, missing, top, line)
           /\ Cook(t, IF missing = Nil THEN {} ELSE Upstream(node, missing), {})
<1> DEFINE known == Above(t) \cap DOMAIN node
           missing == IF known = {} THEN Nil ELSE CHOOSE k \in known : \A p \in known : Len(p) <= Len(k)
           line == {Upto(t, n) : n \in Len(missing) + 1 .. Len(t)}
           top == Upto(t, Len(missing) + 1)
           linked == IF missing = Nil THEN node
                     ELSE [node EXCEPT ![missing].children = @ \cup {top}]
<1>1. t \notin DOMAIN node /\ ~IsRoot(t) /\ Front(t) \notin DOMAIN node
  BY DEF AppendLine
<1>2. /\ node' = Inserted(linked, [p \in line |-> Node(Front(p), IF p = Front(t) THEN {t} ELSE {}, p = t)])
      /\ Cook(t, IF missing = Nil THEN {} ELSE Upstream(node, missing), {})
  BY DEF AppendLine
<1>3. t \in Path /\ Len(t) \in Nat \ {0} /\ Front(t) = Upto(t, Len(t) - 1) /\ Len(t) # 1
  BY <1>1, PathFacts DEF IsRoot
<1>4. \A q \in known : q \in Paths /\ Len(q) \in 1 .. Len(t) - 1 /\ Upto(t, Len(q)) = q
  BY AboveFacts
<1>5. /\ known = {} => missing = Nil
      /\ known # {} => missing \in known /\ \A p \in known : Len(p) <= Len(missing)
  <2>1. known # {} => \E k \in known : \A p \in known : Len(p) <= Len(k)
    <3>1. \A q \in known : Len(q) <= Len(t)
      BY <1>3, <1>4
    <3>2. known \subseteq Paths
      BY <1>4
    <3> HIDE DEF known
    <3> QED BY <1>3, <3>1, <3>2, Longest
  <2> HIDE DEF known
  <2> QED BY <2>1
<1> HIDE DEF known, missing
<1>6. missing = Nil => known = {}
  BY <1>4, <1>5, PathFacts
<1>19. Len(Nil) = 0
  BY EmptySeq DEF Nil
<1>7. Len(missing) \in 0 .. Len(t) - 2
  <2>1. CASE missing = Nil
    <3>1. 0 \in 0 .. Len(t) - 2
      BY <1>3, AtLeastTwo
    <3> QED BY <1>19, <2>1, <3>1
  <2>2. CASE missing # Nil
    <3>1. missing \in known
      BY <1>5, <2>2
    <3>2. missing # Front(t)
      BY <1>1, <3>1 DEF known
    <3>3. Len(missing) # Len(t) - 1
      BY <1>3, <1>4, <3>1, <3>2
    <3> QED BY <1>3, <1>4, <3>1, <3>3
  <2> QED BY <2>1, <2>2
<1> DEFINE l == Len(missing)
<1>8. Upto(t, l) = missing
  <2>1. CASE missing = Nil
    <3>1. l = 0 /\ 0 \in 0 .. Len(t)
      BY <1>3, <1>19, <2>1
    <3>2. Upto(t, 0) \in Path /\ Len(Upto(t, 0)) = 0
      BY <1>3, <3>1, UptoFacts
    <3>3. Upto(t, 0) = Nil
      BY <3>2, EmptySeq DEF Path, Nil
    <3> QED BY <2>1, <3>1, <3>3
  <2>2. CASE missing # Nil
    BY <1>4, <1>5, <2>2
  <2> QED BY <2>1, <2>2
<1>9. \A n \in l + 1 .. Len(t) :
        /\ n \in 1 .. Len(t) /\ Upto(t, n) \in Paths /\ Len(Upto(t, n)) = n
        /\ n # Len(t) => Upto(t, n) \in Above(t)
        /\ Front(Upto(t, n)) = Upto(t, n - 1)
  <2> TAKE n \in l + 1 .. Len(t)
  <2>1. n \in 1 .. Len(t) /\ n \in 0 .. Len(t) /\ n - 1 \in 0 .. n /\ (n # Len(t) => n \in 1 .. Len(t) - 1)
    BY <1>3, <1>7
  <2>2. Upto(t, n) \in Paths /\ Len(Upto(t, n)) = n
    BY <1>3, <2>1, PathFacts
  <2>3. n # Len(t) => Upto(t, n) \in Above(t)
    BY <2>1, AboveIntro
  <2>4. Front(Upto(t, n)) = Upto(Upto(t, n), n - 1)
    BY <2>2, PathFacts
  <2>5. Upto(Upto(t, n), n - 1) = Upto(t, n - 1)
    BY <1>3, <2>1, UptoUpto
  <2> QED BY <2>1, <2>2, <2>3, <2>4, <2>5
<1>10. Upto(t, Len(t)) = t /\ Len(t) \in l + 1 .. Len(t) /\ l + 1 \in l + 1 .. Len(t) /\ l + 1 # Len(t)
  BY <1>3, <1>7, UptoAll
<1>11. t \in line /\ top \in line
  BY <1>10
<1>12. line \subseteq (Above(t) \cup {t}) \ DOMAIN node
  <2> SUFFICES ASSUME NEW n \in l + 1 .. Len(t)
               PROVE  Upto(t, n) \in Above(t) \cup {t} /\ Upto(t, n) \notin DOMAIN node
    OBVIOUS
  <2>1. CASE n = Len(t)
    BY <1>1, <1>10, <2>1
  <2>2. CASE n # Len(t)
    <3>1. Upto(t, n) \in Above(t) /\ Len(Upto(t, n)) = n /\ ~(n <= l)
      BY <1>7, <1>9, <2>2
    <3>2. Upto(t, n) \notin known
      BY <1>5, <3>1
    <3> QED BY <3>1, <3>2 DEF known
  <2> QED BY <2>1, <2>2
<1>13. \/ missing = Nil /\ Above(t) \cap DOMAIN node = {}
       \/ missing \in Above(t) \cap DOMAIN node /\ Above(t) \cap DOMAIN node \subseteq Above(missing) \cup {missing}
  <2>1. CASE missing = Nil
    BY <1>6, <2>1 DEF known
  <2>2. CASE missing # Nil
    <3>1. missing \in known /\ \A p \in known : Len(p) <= Len(missing)
      BY <1>5, <2>2
    <3>2. ASSUME NEW p \in known PROVE p \in Above(missing) \cup {missing}
      <4>1. missing \in Above(t) /\ p \in Above(t)
        BY <3>1 DEF known
      <4>2. Len(p) < Len(missing) \/ Len(p) = Len(missing)
        BY <1>4, <3>1
      <4> QED BY <4>1, <4>2, AboveLine
    <3> QED BY <3>1, <3>2 DEF known
  <2> QED BY <2>1, <2>2
<1>14. Front(top) = missing
  <2>1. l + 1 - 1 = l
    BY <1>7
  <2> QED BY <1>8, <1>9, <1>10, <2>1
<1>15. \A p \in line : Front(p) = missing \/ Front(p) \in line
  <2> SUFFICES ASSUME NEW n \in l + 1 .. Len(t)
               PROVE  Front(Upto(t, n)) = missing \/ Front(Upto(t, n)) \in line
    OBVIOUS
  <2>1. n - 1 = l \/ n - 1 \in l + 1 .. Len(t)
    BY <1>7
  <2> QED BY <1>8, <1>9, <2>1
<1>16. DOMAIN linked = DOMAIN node
       /\ \A p \in DOMAIN node :
            linked[p] = [node[p] EXCEPT !.children = @ \cup IF p = missing THEN {top} ELSE {}]
  <2>1. \A p \in DOMAIN node : p # Nil /\ node[p] \in [root : Paths \cup {Nil}, children : SUBSET Paths, me : BOOLEAN]
    BY PathFacts DEF TreeInv, TypeOK
  <2>2. ASSUME NEW p \in DOMAIN node PROVE node[p] = [node[p] EXCEPT !.children = @ \cup {}]
    BY <2>1
  <2> HIDE DEF top
  <2> QED BY <2>1, <2>2
<1> HIDE DEF linked, line, top
<1>17. /\ DOMAIN node' = DOMAIN node \cup line
       /\ \A p \in DOMAIN node : node'[p] = linked[p]
       /\ \A p \in line : node'[p] = Node(Front(p), IF p = Front(t) THEN {t} ELSE {}, p = t)
  BY <1>2, <1>12, <1>16 DEF Inserted
<1>20. \A p \in DOMAIN node :
         node'[p] = [node[p] EXCEPT !.children = @ \cup IF p = missing THEN {top} ELSE {}]
  BY <1>16, <1>17
<1>18. LineAdded(t, missing, top, line)
  <2>1. top = t \/ Front(t) \notin DOMAIN node
    BY <1>1
  <2>2. DOMAIN node' = DOMAIN node \cup line
    BY <1>17
  <2>3. \A p \in line : node'[p] = Node(Front(p), IF p = Front(t) THEN {t} ELSE {}, p = t)
    BY <1>17
  <2> QED BY <1>11, <1>12, <1>13, <1>14, <1>15, <1>20, <2>1, <2>2, <2>3 DEF LineAdded
<1> QED BY <1>2, <1>18

-----------------------------------------------------------------------------
(* What cooking a class does to the classes: it takes what it lacks from   *)
(* its bases, the nearest first, and gives what it then has to those below *)
(* that lack it.                                                           *)

Took(t, bases) ==
  /\ props'[t] = [x \in DOMAIN props'[t] |-> props'[t][x]] \/ props'[t] = props[t]
  /\ \A x \in DOMAIN props[t] : x \in DOMAIN props'[t] /\ props'[t][x] = props[t][x]
  /\ \A b \in bases : DOMAIN props[b] \subseteq DOMAIN props'[t]
  /\ \A x \in DOMAIN props'[t] \ DOMAIN props[t] :
       \E b \in bases :
         /\ x \in DOMAIN props[b] /\ props'[t][x] = props[b][x]
         /\ \A c \in bases : x \in DOMAIN props[c] => Len(c) <= Len(b)

Gave(t, u) ==
  /\ DOMAIN props'[u] = DOMAIN props[u] \cup DOMAIN props'[t]
  /\ \A x \in DOMAIN props[u] : props'[u][x] = props[u][x]
  /\ \A x \in DOMAIN props'[t] \ DOMAIN props[u] : props'[u][x] = props'[t][x]

TookMeta(t, bases) ==
  /\ mt' \in [Types -> Types \cup {Nil}]
  /\ \A u \in Types \ {t} : mt'[u] = mt[u]
  /\ \/ mt'[t] = mt[t] /\ \A b \in bases : mt[b] = Nil
     \/ \E b \in bases : mt[b] # Nil /\ mt'[t] = mt[b]

TableGiven(t, bases, below) ==
  \/ tables' = tables /\ t \notin tables /\ bases \cap tables = {}
  \/ tables' = tables \cup {t} \cup below

Cooked(t, bases, below) ==
  /\ DOMAIN props' = Types
  /\ \A u \in Types \ (below \cup {t}) : props'[u] = props[u]
  /\ Took(t, bases)
  /\ \A u \in below : Gave(t, u)
  /\ TookMeta(t, bases)
  /\ TableGiven(t, bases, below)

\* Of the bases that have a property, one is the nearest.
LEMMA NearestFacts ==
  ASSUME NEW t \in Paths, NEW bases, bases \subseteq Above(t),
         NEW x, NEW a \in bases, x \in DOMAIN props[a]
  PROVE  /\ Nearest(bases, x) \in bases /\ x \in DOMAIN props[Nearest(bases, x)]
         /\ \A c \in bases : x \in DOMAIN props[c] => Len(c) <= Len(Nearest(bases, x))
<1> DEFINE having == {b \in bases : x \in DOMAIN props[b]}
<1>1. \A p \in having : p \in Paths /\ Len(p) <= Len(t)
  <2> TAKE p \in having
  <2>1. p \in Paths /\ Len(p) \in 1 .. Len(t) - 1 /\ Len(t) \in Nat
    BY AboveFacts, PathFacts
  <2> QED BY <2>1
<1>2. having \subseteq Paths /\ having # {} /\ Len(t) \in Nat
  BY <1>1, PathFacts
<1>3. \E b \in having : \A c \in having : Len(c) <= Len(b)
  <2> HIDE DEF having
  <2> QED BY <1>1, <1>2, Longest
<1>4. Nearest(bases, x) = CHOOSE b \in having : \A c \in having : Len(c) <= Len(b)
  BY DEF Nearest
<1> HIDE DEF having
<1>5. Nearest(bases, x) \in having /\ \A c \in having : Len(c) <= Len(Nearest(bases, x))
  BY <1>3, <1>4
<1> QED BY <1>5 DEF having

LEMMA FarthestFacts ==
  ASSUME NEW bases, bases \subseteq Paths, bases # {}
  PROVE  Farthest(bases) \in bases
<1> DEFINE T == {Len(p) : p \in bases}
<1>1. T \subseteq Nat /\ T # {}
  BY PathFacts
<1>2. PICK n \in T : \A m \in T : n <= m
  BY <1>1, NatMin
<1>3. \E b \in bases : \A c \in bases : Len(b) <= Len(c)
  BY <1>2
<1> QED BY <1>3 DEF Farthest

LEMMA CookFacts ==
  ASSUME TypeOK, NEW t \in Types, NEW bases, bases \subseteq Above(t) \cap Types,
         NEW below, below \subseteq Types \ {t}, Cook(t, bases, below)
  PROVE  Cooked(t, bases, below)
<1> DEFINE from == FromBases(bases)
           cooked == Inserted(props[t], from)
           meta == {b \in bases : mt[b] # Nil}
<1>1. t \in Paths /\ DOMAIN props = Types /\ mt \in [Types -> Types \cup {Nil}]
  BY DEF TypeOK
<1>2. /\ props' = [u \in DOMAIN props |->
                    IF u = t THEN cooked
                    ELSE IF u \in below THEN Inserted(props[u], cooked)
                    ELSE props[u]]
      /\ mt' = [mt EXCEPT ![t] = IF meta = {} THEN @ ELSE mt[Farthest(meta)]]
      /\ tables' = tables \cup (IF t \in tables \/ bases \cap tables # {} THEN {t} \cup below ELSE {})
  BY DEF Cook
<1>3. DOMAIN props' = Types /\ \A u \in Types \ (below \cup {t}) : props'[u] = props[u]
  BY <1>1, <1>2
<1>4. props'[t] = cooked /\ \A u \in below : props'[u] = Inserted(props[u], cooked)
  BY <1>1, <1>2
<1>5. Took(t, bases)
  <2>1. DOMAIN from = UNION {DOMAIN props[b] : b \in bases}
    BY DEF FromBases
  <2>2. \A x \in DOMAIN from : from[x] = props[Nearest(bases, x)][x]
    BY DEF FromBases
  <2> HIDE DEF from
  <2>3. DOMAIN cooked = DOMAIN props[t] \cup DOMAIN from
        /\ \A x \in DOMAIN cooked : cooked[x] = IF x \in DOMAIN props[t] THEN props[t][x] ELSE from[x]
    BY DEF Inserted
  <2>5. cooked = [x \in DOMAIN cooked |-> cooked[x]]
    BY DEF Inserted
  <2> HIDE DEF cooked
  <2>4. ASSUME NEW x \in DOMAIN cooked \ DOMAIN props[t]
        PROVE  \E b \in bases :
                 /\ x \in DOMAIN props[b] /\ cooked[x] = props[b][x]
                 /\ \A c \in bases : x \in DOMAIN props[c] => Len(c) <= Len(b)
    <3>1. x \in DOMAIN from /\ cooked[x] = props[Nearest(bases, x)][x]
      BY <2>2, <2>3
    <3>2. PICK a \in bases : x \in DOMAIN props[a]
      BY <2>1, <3>1
    <3> QED BY <1>1, <3>1, <3>2, NearestFacts
  <2> QED BY <1>4, <2>1, <2>3, <2>4, <2>5 DEF Took
<1>6. ASSUME NEW u \in below PROVE Gave(t, u)
  <2> DEFINE old == props[u]
  <2> HIDE DEF cooked, old
  <2>1. /\ DOMAIN Inserted(old, cooked) = DOMAIN old \cup DOMAIN cooked
        /\ \A x \in DOMAIN old : Inserted(old, cooked)[x] = old[x]
        /\ \A x \in DOMAIN cooked \ DOMAIN old : Inserted(old, cooked)[x] = cooked[x]
    BY DEF Inserted
  <2>2. props'[u] = Inserted(old, cooked) /\ props'[t] = cooked
    BY <1>4 DEF old
  <2> QED BY <2>1, <2>2 DEF Gave, old
<1>7. TookMeta(t, bases)
  <2>1. mt' \in [Types -> Types \cup {Nil}] /\ \A u \in Types \ {t} : mt'[u] = mt[u]
    <3>1. meta # {} => Farthest(meta) \in Types
      <4>1. meta \subseteq Paths /\ meta \subseteq Types
        BY DEF TypeOK
      <4> HIDE DEF meta
      <4> QED BY <4>1, FarthestFacts
    <3> QED BY <1>1, <1>2, <3>1
  <2>2. CASE meta = {}
    <3>1. mt'[t] = mt[t]
      BY <1>1, <1>2, <2>2
    <3> QED BY <2>1, <2>2, <3>1 DEF TookMeta
  <2>3. CASE meta # {}
    <3>1. meta \subseteq Paths
      BY DEF TypeOK
    <3>2. Farthest(meta) \in meta
      BY <2>3, <3>1, FarthestFacts
    <3>3. mt'[t] = mt[Farthest(meta)]
      BY <1>1, <1>2, <2>3
    <3> QED BY <2>1, <3>2, <3>3 DEF TookMeta
  <2> QED BY <2>2, <2>3
<1>8. TableGiven(t, bases, below)
  BY <1>2 DEF TableGiven
<1> QED BY <1>3, <1>5, <1>6, <1>7, <1>8 DEF Cooked


-----------------------------------------------------------------------------
(* The four ways of append() as one: the tree gets a line or a dummy gets  *)
(* its class, and the class is cooked from the classes above it.           *)

DummyFilled(t) ==
  /\ t \in DOMAIN node
  /\ DOMAIN node' = DOMAIN node
  /\ \A p \in DOMAIN node \ {t} : node'[p] = node[p]
  /\ node'[t] = [node[t] EXCEPT !.me = TRUE]

Bases(t) == Above(t) \cap Appended

Filled(t) == DummyFilled(t) /\ Cooked(t, Bases(t), Downstream(node, t))
Lined(t) ==
  /\ t \notin DOMAIN node
  /\ \E missing, top, line : LineAdded(t, missing, top, line)
  /\ Cooked(t, Bases(t), {})

LEMMA BasesMet ==
  ASSUME TreeInv, NEW t \in Paths, NEW m \in Above(t) \cap DOMAIN node,
         Above(t) \cap DOMAIN node \subseteq Above(m) \cup {m}
  PROVE  Upstream(node, m) = Bases(t)
<1>1. Upstream(node, m) = (Above(m) \cup {m}) \cap Appended
  BY UpstreamFacts
<1>2. Above(m) \subseteq Above(t)
  BY AboveTransitive
<1>3. Above(t) \cap Appended \subseteq Above(m) \cup {m}
  BY DEF TreeInv, AppendedLinked
<1> QED BY <1>1, <1>2, <1>3 DEF Bases

LEMMA AppendSteps ==
  ASSUME TreeInv, NEW t \in todo, AppendType(t)
  PROVE  Filled(t) \/ Lined(t)
<1>1. TypeOK /\ t \in Types /\ t \in Paths /\ t \notin Appended
  BY DEF TreeInv, TypeOK, Appended
<1>2. Bases(t) \subseteq Above(t) \cap Types
  BY DEF Bases, Appended
<1>3. IsRoot(t) => Bases(t) = {}
  BY <1>1, FrontAbove DEF Bases
<1>4. CASE AppendToDummy(t)
  <2>1. t \in DOMAIN node /\ node' = [node EXCEPT ![t].me = TRUE]
        /\ Cook(t, IF IsRoot(t) THEN {} ELSE Upstream(node, node[t].root), Downstream(node, t))
    BY <1>4 DEF AppendToDummy
  <2>2. DummyFilled(t)
    BY <2>1 DEF DummyFilled
  <2>3. Downstream(node, t) \subseteq Types \ {t}
    BY <1>1, DownstreamFacts DEF Appended
  <2>4. (IF IsRoot(t) THEN {} ELSE Upstream(node, node[t].root)) = Bases(t)
    <3>1. CASE IsRoot(t)
      BY <1>3, <3>1
    <3>2. CASE ~IsRoot(t)
      <4>1. node[t].root = Front(t) /\ Front(t) \in DOMAIN node
        BY <2>1, <3>2 DEF TreeInv, RootsLinked
      <4>2. Front(t) \in Above(t) /\ Above(t) \subseteq Above(Front(t)) \cup {Front(t)}
        BY <1>1, <3>2, FrontAbove
      <4>3. Upstream(node, Front(t)) = Bases(t)
        BY <1>1, <4>1, <4>2, BasesMet
      <4> QED BY <3>2, <4>1, <4>3
    <3> QED BY <3>1, <3>2
  <2>5. Cook(t, Bases(t), Downstream(node, t))
    BY <2>1, <2>4
  <2>6. Cooked(t, Bases(t), Downstream(node, t))
    BY <1>1, <1>2, <2>3, <2>5, CookFacts
  <2> QED BY <2>2, <2>6 DEF Filled
<1>5. CASE AppendBase(t)
  <2>1. LineAdded(t, Nil, t, {t}) /\ t \notin DOMAIN node
    BY <1>1, <1>5, BaseAdds DEF AppendBase
  <2>2. UNCHANGED types /\ Bases(t) = {}
    BY <1>3, <1>5 DEF AppendBase
  <2>3. /\ props' = props /\ mt' = mt /\ tables' = tables
        /\ DOMAIN props = Types /\ mt \in [Types -> Types \cup {Nil}]
    BY <1>1, <2>2 DEF types, TypeOK
  <2>4. Took(t, {}) /\ TookMeta(t, {})
    BY <2>3 DEF Took, TookMeta
  <2>5. TableGiven(t, {}, {})
    <3>1. t \in tables \/ t \notin tables
      OBVIOUS
    <3>2. t \in tables => tables = tables \cup {t} \cup {}
      OBVIOUS
    <3> QED BY <2>3, <3>1, <3>2 DEF TableGiven
  <2>6. Cooked(t, {}, {})
    BY <2>3, <2>4, <2>5 DEF Cooked
  <2> QED BY <2>1, <2>2, <2>6 DEF Lined
<1>6. CASE AppendChild(t)
  <2>1. LineAdded(t, Front(t), t, {t}) /\ t \notin DOMAIN node
    BY <1>1, <1>6, ChildAdds DEF AppendChild
  <2>2. ~IsRoot(t) /\ Front(t) \in DOMAIN node /\ Cook(t, Upstream(node, Front(t)), {})
    BY <1>6 DEF AppendChild
  <2>3. Front(t) \in Above(t) /\ Above(t) \subseteq Above(Front(t)) \cup {Front(t)}
    BY <1>1, <2>2, FrontAbove
  <2>4. Upstream(node, Front(t)) = Bases(t)
    BY <1>1, <2>2, <2>3, BasesMet
  <2>5. Cooked(t, Bases(t), {})
    BY <1>1, <1>2, <2>2, <2>4, CookFacts
  <2> QED BY <2>1, <2>5 DEF Lined
<1>7. CASE AppendLine(t)
  <2>1. PICK missing, top, line :
          /\ LineAdded(t, missing, top, line)
          /\ Cook(t, IF missing = Nil THEN {} ELSE Upstream(node, missing), {})
    BY <1>1, <1>7, LineAdds
  <2>2. t \notin DOMAIN node
    BY <1>7 DEF AppendLine
  <2>3. (IF missing = Nil THEN {} ELSE Upstream(node, missing)) = Bases(t)
    <3>1. \/ missing = Nil /\ Above(t) \cap DOMAIN node = {}
          \/ /\ missing \in Above(t) \cap DOMAIN node
             /\ Above(t) \cap DOMAIN node \subseteq Above(missing) \cup {missing}
      BY <2>1 DEF LineAdded
    <3>2. CASE missing = Nil /\ Above(t) \cap DOMAIN node = {}
      BY <3>2 DEF Bases, TreeInv, AppendedLinked
    <3>3. CASE /\ missing \in Above(t) \cap DOMAIN node
               /\ Above(t) \cap DOMAIN node \subseteq Above(missing) \cup {missing}
      <4>1. missing # Nil
        BY <1>1, <3>3, PathFacts DEF TreeInv, TypeOK
      <4>2. Upstream(node, missing) = Bases(t)
        BY <1>1, <3>3, BasesMet
      <4> QED BY <4>1, <4>2
    <3> QED BY <3>1, <3>2, <3>3
  <2>4. Cooked(t, Bases(t), {})
    BY <1>1, <1>2, <2>1, <2>3, CookFacts
  <2> QED BY <2>1, <2>2, <2>4 DEF Lined
<1> QED BY <1>4, <1>5, <1>6, <1>7 DEF AppendType


-----------------------------------------------------------------------------
(* The tree stays linked.                                                  *)

Nodes == [root : Paths \cup {Nil}, children : SUBSET Paths, me : BOOLEAN]
NodesTyped == DOMAIN node \subseteq Paths /\ \A p \in DOMAIN node : node[p] \in Nodes
TreeLinked == NodesTyped /\ RootsLinked /\ AppendedLinked

LEMMA FilledLinks ==
  ASSUME TreeInv, NEW t \in todo, DummyFilled(t), Appended' = Appended \cup {t}
  PROVE  TreeLinked'
<1>1. NodesTyped /\ RootsLinked /\ AppendedLinked
  BY DEF TreeInv, TypeOK, NodesTyped, Nodes
<1>2. /\ t \in DOMAIN node /\ DOMAIN node' = DOMAIN node
      /\ \A p \in DOMAIN node \ {t} : node'[p] = node[p]
      /\ node'[t] = [node[t] EXCEPT !.me = TRUE]
  BY DEF DummyFilled
<1>3. node[t] \in Nodes
  BY <1>1, <1>2 DEF NodesTyped
<1>4. node'[t] \in Nodes /\ node'[t].root = node[t].root
      /\ node'[t].children = node[t].children /\ node'[t].me = TRUE
  BY <1>2, <1>3 DEF Nodes
<1>5. NodesTyped'
  BY <1>1, <1>2, <1>4 DEF NodesTyped, Nodes
<1>6. \A p \in DOMAIN node : node'[p].root = node[p].root /\ node'[p].children = node[p].children
  BY <1>2, <1>4
<1>7. AppendedLinked'
  BY <1>1, <1>2 DEF AppendedLinked
<1>8. ASSUME NEW p \in DOMAIN node
      PROVE  /\ node'[p].root = Front(p)
             /\ ~IsRoot(p) => Front(p) \in DOMAIN node'
             /\ \A c \in node'[p].children : c \in DOMAIN node' /\ node'[c].root = p
             /\ node'[p].me <=> p \in Appended'
  <2>1. /\ node[p].root = Front(p)
        /\ ~IsRoot(p) => Front(p) \in DOMAIN node
        /\ \A c \in node[p].children : c \in DOMAIN node /\ node[c].root = p
        /\ node[p].me <=> p \in Appended
    BY <1>1 DEF RootsLinked
  <2>2. node'[p].me <=> p \in Appended'
    BY <1>2, <1>4, <2>1
  <2>3. \A c \in node'[p].children : c \in DOMAIN node' /\ node'[c].root = p
    BY <1>2, <1>6, <2>1
  <2> QED BY <1>2, <1>6, <2>1, <2>2, <2>3
<1>9. RootsLinked'
  BY <1>2, <1>8 DEF RootsLinked
<1> QED BY <1>5, <1>7, <1>9 DEF TreeLinked

LEMMA LineLinks ==
  ASSUME TreeInv, NEW t \in todo, t \notin DOMAIN node, Appended' = Appended \cup {t},
         NEW missing, NEW top, NEW line, LineAdded(t, missing, top, line)
  PROVE  TreeLinked'
<1>1. NodesTyped /\ RootsLinked /\ AppendedLinked /\ t \in Paths
  BY DEF TreeInv, TypeOK, NodesTyped, Nodes
<1>2. /\ t \in line /\ top \in line /\ line \subseteq (Above(t) \cup {t}) \ DOMAIN node
      /\ missing = Nil \/ missing \in DOMAIN node
      /\ Front(top) = missing
      /\ \A p \in line : Front(p) = missing \/ Front(p) \in line
      /\ DOMAIN node' = DOMAIN node \cup line
  BY DEF LineAdded
<1>3. line \subseteq Paths
  BY <1>1, <1>2, AboveFacts
<1>4. ASSUME NEW p \in DOMAIN node
      PROVE  /\ node'[p] \in Nodes /\ node'[p].root = node[p].root /\ node'[p].me = node[p].me
             /\ node'[p].children = node[p].children \cup IF p = missing THEN {top} ELSE {}
  <2> DEFINE more == IF p = missing THEN {top} ELSE {}
  <2>1. node[p] \in Nodes /\ more \subseteq Paths
    BY <1>1, <1>2, <1>3 DEF NodesTyped
  <2>2. node'[p] = [node[p] EXCEPT !.children = @ \cup more]
    BY DEF LineAdded
  <2> HIDE DEF more
  <2>3. node'[p] \in Nodes /\ node'[p].root = node[p].root /\ node'[p].me = node[p].me
        /\ node'[p].children = node[p].children \cup more
    BY <2>1, <2>2 DEF Nodes
  <2> QED BY <2>3 DEF more
<1>5. ASSUME NEW p \in line
      PROVE  /\ node'[p] \in Nodes /\ node'[p].root = Front(p)
             /\ node'[p].children = IF p = Front(t) THEN {t} ELSE {}
             /\ node'[p].me <=> p = t
  <2>1. node'[p] = Node(Front(p), IF p = Front(t) THEN {t} ELSE {}, p = t)
    BY DEF LineAdded
  <2>2. Front(p) \in Paths \cup {Nil}
    BY <1>1, <1>2, <1>3 DEF NodesTyped
  <2> DEFINE root == Front(p)
             children == IF p = Front(t) THEN {t} ELSE {}
             me == p = t
  <2>3. node'[p] = [root |-> root, children |-> children, me |-> me]
    BY <2>1 DEF Node
  <2>4. root \in Paths \cup {Nil} /\ children \in SUBSET Paths /\ me \in BOOLEAN
    BY <1>1, <2>2
  <2> HIDE DEF root, children, me
  <2>5. node'[p] \in Nodes
    BY <2>3, <2>4 DEF Nodes
  <2>6. node'[p].root = root /\ node'[p].children = children /\ node'[p].me = me
    BY <2>3
  <2> QED BY <2>5, <2>6 DEF root, children, me
<1>6. NodesTyped'
  BY <1>1, <1>2, <1>3, <1>4, <1>5 DEF NodesTyped, Nodes
<1>7. AppendedLinked'
  BY <1>1, <1>2 DEF AppendedLinked
<1>8. ASSUME NEW p \in DOMAIN node
      PROVE  /\ node'[p].root = Front(p)
             /\ ~IsRoot(p) => Front(p) \in DOMAIN node'
             /\ \A c \in node'[p].children : c \in DOMAIN node' /\ node'[c].root = p
             /\ node'[p].me <=> p \in Appended'
  <2>1. /\ node[p].root = Front(p)
        /\ ~IsRoot(p) => Front(p) \in DOMAIN node
        /\ \A c \in node[p].children : c \in DOMAIN node /\ node[c].root = p
        /\ node[p].me <=> p \in Appended
    BY <1>1 DEF RootsLinked
  <2>2. \A c \in node'[p].children : c \in DOMAIN node' /\ node'[c].root = p
    BY <1>2, <1>4, <1>5, <2>1
  <2> QED BY <1>2, <1>4, <2>1, <2>2
<1>9. ASSUME NEW p \in line
      PROVE  /\ node'[p].root = Front(p)
             /\ ~IsRoot(p) => Front(p) \in DOMAIN node'
             /\ \A c \in node'[p].children : c \in DOMAIN node' /\ node'[c].root = p
             /\ node'[p].me <=> p \in Appended'
  <2>1. ~IsRoot(p) => Front(p) # Nil
    BY <1>3, PathFacts
  <2>2. ~IsRoot(p) => Front(p) \in DOMAIN node'
    BY <1>2, <2>1
  <2>3. \A c \in node'[p].children : c \in DOMAIN node' /\ node'[c].root = p
    BY <1>2, <1>5
  <2>4. node'[p].me <=> p \in Appended'
    BY <1>1, <1>2, <1>5 DEF AppendedLinked
  <2> QED BY <1>5, <2>2, <2>3, <2>4
<1>10. RootsLinked'
  BY <1>2, <1>8, <1>9 DEF RootsLinked
<1> QED BY <1>6, <1>7, <1>10 DEF TreeLinked


-----------------------------------------------------------------------------
(* What a class has is its own or comes from a class above it.             *)

Sound(q, f) ==
  /\ DOMAIN f \subseteq Props
  /\ own[q] \subseteq DOMAIN f
  /\ \A x \in DOMAIN f :
       /\ f[x] \in Types
       /\ x \in own[q] => f[x] = q
       /\ x \notin own[q] => f[x] \in Above(q) /\ x \in own[f[x]]

PropsSound == \A q \in Types : Sound(q, props[q])

\* What a class above has is sound below, where the class has none of its own.
LEMMA SoundBelow ==
  ASSUME NEW q \in Paths, NEW b \in Above(q) \cap Types, NEW f, Sound(b, f),
         NEW x \in DOMAIN f, x \notin own[q]
  PROVE  x \in Props /\ f[x] \in Types /\ f[x] \in Above(q) /\ x \in own[f[x]]
<1>1. x \in Props /\ f[x] \in Types
  BY DEF Sound
<1>2. CASE x \in own[b]
  BY <1>1, <1>2 DEF Sound
<1>3. CASE x \notin own[b]
  <2>1. f[x] \in Above(b) /\ x \in own[f[x]]
    BY <1>3 DEF Sound
  <2>2. f[x] \in Above(q)
    BY <2>1, AboveTransitive
  <2> QED BY <1>1, <2>1, <2>2
<1> QED BY <1>2, <1>3

LEMMA SoundStep ==
  ASSUME TypeOK, PropsSound, NEW t \in todo, NEW below, \A u \in below : u \in Types /\ t \in Above(u),
         own' = own, Cooked(t, Bases(t), below)
  PROVE  PropsSound'
<1>1. t \in Types /\ Types \subseteq Paths /\ Types' = Types
  BY DEF TypeOK, Types
<1>2. Took(t, Bases(t)) /\ (\A u \in below : Gave(t, u)) /\ \A u \in Types \ (below \cup {t}) : props'[u] = props[u]
  BY DEF Cooked
<1> DEFINE f == props[t]
           g == props'[t]
<1>3. Sound(t, f)
  BY <1>1 DEF PropsSound
<1>4. /\ \A x \in DOMAIN f : x \in DOMAIN g /\ g[x] = f[x]
      /\ \A x \in DOMAIN g \ DOMAIN f :
           \E b \in Bases(t) : x \in DOMAIN props[b] /\ g[x] = props[b][x]
  BY <1>2 DEF Took
<1> HIDE DEF f, g
<1>5. ASSUME NEW x \in DOMAIN g
      PROVE  /\ x \in Props /\ g[x] \in Types
             /\ x \in own[t] => g[x] = t
             /\ x \notin own[t] => g[x] \in Above(t) /\ x \in own[g[x]]
  <2>1. CASE x \in DOMAIN f
    BY <1>3, <1>4, <2>1 DEF Sound
  <2>2. CASE x \notin DOMAIN f
    <3>1. PICK b \in Bases(t) : x \in DOMAIN props[b] /\ g[x] = props[b][x]
      BY <1>4, <2>2
    <3>2. b \in Above(t) \cap Types /\ x \notin own[t]
      BY <1>3, <2>2 DEF Sound, Bases, Appended
    <3>3. Sound(b, props[b])
      BY <3>2 DEF PropsSound
    <3>4. x \in Props /\ props[b][x] \in Types /\ props[b][x] \in Above(t) /\ x \in own[props[b][x]]
      BY <1>1, <3>1, <3>2, <3>3, SoundBelow
    <3> QED BY <3>1, <3>2, <3>4
  <2> QED BY <2>1, <2>2
<1>6. Sound(t, g)
  <2>1. own[t] \subseteq DOMAIN g
    BY <1>3, <1>4 DEF Sound
  <2> QED BY <1>5, <2>1 DEF Sound
<1>7. ASSUME NEW u \in below PROVE Sound(u, props'[u])
  <2> DEFINE h == props[u]
             k == props'[u]
  <2>1. Sound(u, h) /\ u \in Paths /\ t \in Above(u) \cap Types
    BY <1>1 DEF PropsSound
  <2>2. /\ DOMAIN k = DOMAIN h \cup DOMAIN g
        /\ \A x \in DOMAIN h : k[x] = h[x]
        /\ \A x \in DOMAIN g \ DOMAIN h : k[x] = g[x]
    BY <1>2 DEF Gave, g
  <2> HIDE DEF h, k
  <2>3. own[u] \subseteq DOMAIN k
    BY <2>1, <2>2 DEF Sound
  <2>4. ASSUME NEW x \in DOMAIN k
        PROVE  /\ x \in Props /\ k[x] \in Types
               /\ x \in own[u] => k[x] = u
               /\ x \notin own[u] => k[x] \in Above(u) /\ x \in own[k[x]]
    <3>1. CASE x \in DOMAIN h
      BY <2>1, <2>2, <3>1 DEF Sound
    <3>2. CASE x \notin DOMAIN h
      <4>1. x \in DOMAIN g /\ k[x] = g[x] /\ x \notin own[u]
        BY <2>1, <2>2, <3>2 DEF Sound
      <4>2. x \in Props /\ g[x] \in Types /\ g[x] \in Above(u) /\ x \in own[g[x]]
        BY <1>6, <2>1, <4>1, SoundBelow
      <4> QED BY <4>1, <4>2
    <3> QED BY <3>1, <3>2
  <2>5. Sound(u, k)
    BY <2>3, <2>4 DEF Sound
  <2> QED BY <2>5 DEF k
<1>8. \A u \in Types : Sound(u, props'[u])
  <2> TAKE u \in Types
  <2>1. u \notin below \cup {t} => Sound(u, props'[u])
    BY <1>2 DEF PropsSound
  <2> QED BY <1>6, <1>7, <2>1 DEF g
<1> QED BY <1>1, <1>8 DEF PropsSound, Sound

\* The other classes keep their types.
LEMMA TypeStep ==
  ASSUME TypeOK, NEW t \in todo, NEW below, below \subseteq Types,
         own' = own, todo' = todo \ {t}, topdown' = (topdown /\ Above(t) \cap todo = {}),
         Cooked(t, Bases(t), below), PropsSound', NodesTyped'
  PROVE  TypeOK'
<1>1. t \in Types /\ Types' = Types /\ todo' \subseteq Types /\ Types \subseteq Paths
  BY DEF TypeOK, Types
<1>2. DOMAIN props' = Types /\ TookMeta(t, Bases(t)) /\ TableGiven(t, Bases(t), below)
  BY DEF Cooked
<1>3. Bases(t) \subseteq Types /\ mt \in [Types -> Types \cup {Nil}] /\ tables \subseteq Types
  BY DEF Bases, Appended, TypeOK
<1>4. mt' \in [Types -> Types \cup {Nil}]
  BY <1>2 DEF TookMeta
<1>5. tables' \subseteq Types
  BY <1>1, <1>2, <1>3 DEF TableGiven
<1>6. \A u \in Types : DOMAIN props'[u] \subseteq Props /\ Range(props'[u]) \subseteq Types
  BY <1>1 DEF PropsSound, Sound, Range
<1>7. topdown' \in BOOLEAN
  OBVIOUS
<1>8. DOMAIN node' \subseteq Paths /\ \A p \in DOMAIN node' :
        node'[p] \in [root : Paths \cup {Nil}, children : SUBSET Paths, me : BOOLEAN]
  BY DEF NodesTyped, Nodes
<1> QED BY <1>1, <1>2, <1>4, <1>5, <1>6, <1>7, <1>8 DEF TypeOK


-----------------------------------------------------------------------------
(* A linked class has what the class above it has.                         *)

\* propagate_downstream goes on to the children of what it met.
LEMMA DownstreamClosed ==
  ASSUME TreeInv, NEW t \in DOMAIN node, NEW p \in {t} \cup Downstream(node, t),
         NEW c \in node[p].children, c \in Appended
  PROVE  c \in Downstream(node, t)
<1>1. t \in Paths /\ p \in DOMAIN node
  BY DownstreamFacts DEF TreeInv, TypeOK
<1>2. c \in DOMAIN node /\ node[c].root = p /\ node[c].root = Front(c) /\ node[c].me /\ c \in Paths /\ p \in Paths
  BY <1>1 DEF TreeInv, RootsLinked, TypeOK
<1>3. c \in Path /\ p \in Path /\ Len(c) \in Nat \ {0} /\ Len(p) \in Nat \ {0} /\ Len(t) \in Nat \ {0}
      /\ p = Upto(c, Len(c) - 1)
  BY <1>1, <1>2, PathFacts
<1>4. Len(p) = Len(c) - 1
  <2>1. Len(c) - 1 \in 0 .. Len(c)
    BY <1>3
  <2> QED BY <1>3, <2>1, UptoFacts
<1>5. \A m \in 0 .. Len(p) : Upto(c, m) = Upto(p, m)
  <2> TAKE m \in 0 .. Len(p)
  <2>1. Len(p) \in 0 .. Len(c)
    BY <1>3, <1>4
  <2> QED BY <1>3, <1>4, <2>1, UptoUpto
<1>6. Upto(c, Len(c)) = c /\ Upto(p, Len(p)) = p /\ Upto(c, Len(p)) = p
  BY <1>3, <1>4, UptoAll
<1>7. /\ Len(t) <= Len(p) /\ Upto(p, Len(t)) = t
      /\ \A m \in Len(t) + 1 .. Len(p) : Upto(p, m) \in node[Upto(p, m - 1)].children
  <2>1. CASE p = t
    <3>1. Len(t) + 1 .. Len(p) = {}
      BY <1>3, <2>1
    <3> QED BY <1>3, <1>6, <2>1, <3>1
  <2>2. CASE p # t
    <3>1. p \in Downstream(node, t)
      BY <2>2
    <3> QED BY <1>3, <3>1 DEF Downstream
  <2> QED BY <2>1, <2>2
<1>8. Len(c) > Len(t) /\ Upto(c, Len(t)) = t
  <2>1. Len(t) \in 0 .. Len(p)
    BY <1>3, <1>7
  <2> QED BY <1>3, <1>4, <1>5, <1>7, <2>1
<1>9. \A m \in Len(t) + 1 .. Len(c) : Upto(c, m) \in node[Upto(c, m - 1)].children
  <2> TAKE m \in Len(t) + 1 .. Len(c)
  <2>1. CASE m = Len(c)
    <3>1. m - 1 = Len(p)
      BY <1>4, <2>1
    <3> QED BY <1>6, <2>1, <3>1
  <2>2. CASE m # Len(c)
    <3>1. m \in 0 .. Len(p) /\ m - 1 \in 0 .. Len(p) /\ m \in Len(t) + 1 .. Len(p)
      BY <1>3, <1>4, <2>2
    <3> QED BY <1>5, <1>7, <3>1
  <2> QED BY <2>1, <2>2
<1> QED BY <1>2, <1>8, <1>9 DEF Downstream

LEMMA HeirsFilled ==
  ASSUME TreeInv, HeirsInherit, NEW t \in todo, Appended' = Appended \cup {t}, Filled(t)
  PROVE  HeirsInherit'
<1> DEFINE below == Downstream(node, t)
<1>1. t \in DOMAIN node /\ t \in Types /\ Types \subseteq Paths /\ t \in Paths /\ t \notin Appended
  BY DEF Filled, DummyFilled, TreeInv, TypeOK, Appended
<1>2. \A q \in below : q \in Appended /\ t \in Above(q) /\ q # t
  BY <1>1, DownstreamFacts
<1>3. \A p \in DOMAIN node : node'[p].children = node[p].children
  <2>1. node[t] \in [root : Paths \cup {Nil}, children : SUBSET Paths, me : BOOLEAN]
    BY <1>1 DEF TreeInv, TypeOK
  <2> QED BY <2>1 DEF Filled, DummyFilled
<1>4. /\ \A u \in Types \ (below \cup {t}) : props'[u] = props[u]
      /\ Took(t, Bases(t))
      /\ \A u \in below : Gave(t, u)
      /\ TableGiven(t, Bases(t), below)
  BY DEF Filled, Cooked
<1> HIDE DEF below
<1>5. \A u \in Types : DOMAIN props[u] \subseteq DOMAIN props'[u]
  BY <1>4 DEF Took, Gave
<1> SUFFICES ASSUME NEW p \in Appended', NEW c \in node'[p].children \cap Appended'
             PROVE  DOMAIN props'[p] \subseteq DOMAIN props'[c] /\ (p \in tables' => c \in tables')
  BY DEF HeirsInherit
<1>6. p \in DOMAIN node /\ c \in node[p].children /\ c \in DOMAIN node
  BY <1>1, <1>3 DEF TreeInv, AppendedLinked, RootsLinked
<1>7. p \in Types /\ c \in Types /\ p \in Paths /\ c \in Paths
  BY <1>1 DEF Appended
<1>8. p \in Above(c)
  <2>1. p = Front(c) /\ p # Nil
    BY <1>6, <1>7, PathFacts DEF TreeInv, RootsLinked
  <2> QED BY <1>7, <2>1, PathFacts, FrontAbove
<1>9. CASE p \in below \cup {t}
  <2>1. c # t
    <3>1. p = t => c # t
      BY <1>7, <1>8, AboveFacts
    <3>2. p \in below => c # t
      <4> SUFFICES ASSUME p \in below, c = t PROVE FALSE
        OBVIOUS
      <4>1. t \in Above(p) /\ p \in Above(t)
        BY <1>2, <1>8
      <4>2. Len(t) \in 1 .. Len(p) - 1 /\ Len(p) \in 1 .. Len(t) - 1
        BY <1>1, <1>7, <4>1, AboveFacts
      <4>3. Len(t) \in Nat /\ Len(p) \in Nat
        BY <1>1, <1>7, PathFacts
      <4> QED BY <4>2, <4>3
    <3> QED BY <1>9, <3>1, <3>2
  <2>2. c \in Appended
    BY <2>1
  <2>3. c \in below
    BY <1>1, <1>6, <1>9, <2>2, DownstreamClosed DEF below
  <2>4. DOMAIN props'[c] = DOMAIN props[c] \cup DOMAIN props'[t]
    BY <1>4, <2>3 DEF Gave
  <2>5. CASE p = t
    <3>1. DOMAIN props'[p] \subseteq DOMAIN props'[c]
      BY <2>4, <2>5
    <3>2. p \in tables' => c \in tables'
      BY <1>4, <2>3, <2>5 DEF TableGiven
    <3> QED BY <3>1, <3>2
  <2>6. CASE p \in below
    <3>1. DOMAIN props'[p] = DOMAIN props[p] \cup DOMAIN props'[t]
      BY <1>4, <2>6 DEF Gave
    <3>2. DOMAIN props[p] \subseteq DOMAIN props[c] /\ (p \in tables => c \in tables)
      BY <1>2, <1>6, <2>2, <2>6 DEF HeirsInherit
    <3>3. p \in tables' => c \in tables'
      BY <1>4, <2>3, <3>2 DEF TableGiven
    <3> QED BY <2>4, <3>1, <3>2, <3>3
  <2> QED BY <1>9, <2>5, <2>6
<1>10. CASE p \notin below \cup {t}
  <2>1. props'[p] = props[p] /\ p \in Appended /\ (p \in tables' => p \in tables)
    BY <1>4, <1>7, <1>10 DEF TableGiven
  <2>2. CASE c = t
    <3>1. p \in Bases(t)
      BY <1>8, <2>1, <2>2 DEF Bases
    <3>2. DOMAIN props[p] \subseteq DOMAIN props'[t]
      BY <1>4, <3>1 DEF Took
    <3>3. p \in tables => t \in tables'
      BY <1>4, <3>1 DEF TableGiven
    <3> QED BY <2>1, <2>2, <3>2, <3>3
  <2>3. CASE c # t
    <3>1. DOMAIN props[p] \subseteq DOMAIN props[c] /\ (p \in tables => c \in tables)
      BY <1>6, <2>1, <2>3 DEF HeirsInherit
    <3>2. c \in tables => c \in tables'
      BY <1>4 DEF TableGiven
    <3> QED BY <1>5, <1>7, <2>1, <3>1, <3>2
  <2> QED BY <2>2, <2>3
<1> QED BY <1>9, <1>10

LEMMA HeirsLined ==
  ASSUME TreeInv, HeirsInherit, NEW t \in todo, Appended' = Appended \cup {t}, Lined(t)
  PROVE  HeirsInherit'
<1>1. PICK missing, top, line : LineAdded(t, missing, top, line)
  BY DEF Lined
<1>2. t \in Types /\ t \in Paths /\ t \notin DOMAIN node /\ Types \subseteq Paths
  BY DEF TreeInv, TypeOK, Lined
<1>3. /\ \A u \in Types \ {t} : props'[u] = props[u]
      /\ Took(t, Bases(t))
      /\ TableGiven(t, Bases(t), {})
  BY DEF Lined, Cooked
<1>4. /\ t \in line /\ top \in line /\ line \cap DOMAIN node = {}
      /\ missing = Nil \/ missing \in Above(t)
      /\ top = t \/ Front(t) \notin DOMAIN node
  BY <1>1 DEF LineAdded
<1> SUFFICES ASSUME NEW p \in Appended', NEW c \in node'[p].children \cap Appended'
             PROVE  DOMAIN props'[p] \subseteq DOMAIN props'[c] /\ (p \in tables' => c \in tables')
  BY DEF HeirsInherit
<1>5. p \in Types /\ c \in Types
  BY <1>2 DEF Appended
<1>6. CASE p = t
  <2>1. node'[t] = Node(Front(t), IF t = Front(t) THEN {t} ELSE {}, t = t) /\ t # Front(t)
    BY <1>1, <1>2, <1>4, FrontAbove DEF LineAdded
  <2>2. node'[t].children = {}
    BY <2>1 DEF Node
  <2> QED BY <1>6, <2>2
<1>7. CASE p # t
  <2>1. p \in Appended /\ p \in DOMAIN node
    BY <1>7 DEF TreeInv, AppendedLinked
  <2>2. props'[p] = props[p] /\ (p \in tables' => p \in tables)
    BY <1>3, <1>5, <1>7 DEF TableGiven
  <2>3. node'[p].children = node[p].children \cup IF p = missing THEN {top} ELSE {}
    <3> DEFINE more == IF p = missing THEN {top} ELSE {}
    <3>1. node[p] \in [root : Paths \cup {Nil}, children : SUBSET Paths, me : BOOLEAN]
      BY <2>1 DEF TreeInv, TypeOK
    <3>2. node'[p] = [node[p] EXCEPT !.children = @ \cup more]
      BY <1>1, <2>1 DEF LineAdded
    <3> HIDE DEF more
    <3>3. node'[p].children = node[p].children \cup more
      BY <3>1, <3>2
    <3> QED BY <3>3 DEF more
  <2>4. CASE c \in node[p].children
    <3>1. c \in DOMAIN node /\ c # t /\ c \in Appended
      BY <1>2, <2>1, <2>4 DEF TreeInv, RootsLinked
    <3>2. DOMAIN props[p] \subseteq DOMAIN props[c] /\ (p \in tables => c \in tables)
      BY <2>1, <2>4, <3>1 DEF HeirsInherit
    <3>3. props'[c] = props[c] /\ (c \in tables => c \in tables')
      BY <1>3, <1>5, <3>1 DEF TableGiven
    <3> QED BY <2>2, <3>2, <3>3
  <2>5. CASE c \notin node[p].children
    <3>1. c = top /\ p = missing /\ c \notin DOMAIN node
      BY <1>4, <2>3, <2>5
    <3>2. c = t
      BY <3>1 DEF TreeInv, AppendedLinked
    <3>3. p \in Above(t)
      BY <1>2, <1>4, <2>1, <3>1, PathFacts DEF TreeInv, TypeOK
    <3>4. p \in Bases(t)
      BY <2>1, <3>3 DEF Bases
    <3>5. DOMAIN props[p] \subseteq DOMAIN props'[t] /\ (p \in tables => t \in tables')
      BY <1>3, <3>4 DEF Took, TableGiven
    <3> QED BY <2>2, <3>2, <3>5
  <2> QED BY <2>4, <2>5
<1> QED BY <1>6, <1>7


-----------------------------------------------------------------------------
(* When no class comes before one of its ancestors, every class has what   *)
(* it should have as soon as it is appended.                               *)

Untouched == \A t \in todo : props[t] = [x \in own[t] |-> t]

TopDone == topdown => \A q \in Appended : Above(q) \cap todo = {}

MetaRoots ==
  \A t \in Types : mt[t] # Nil =>
    IsRoot(mt[t]) /\ mt[t] \in Above(t) \cup {t} /\ mt[mt[t]] = mt[t]

\* Of the classes above another, and itself, each has its own length.
LEMMA SameLength ==
  ASSUME NEW q \in Paths, NEW r \in Above(q) \cup {q}, NEW s \in Above(q) \cup {q}, Len(r) = Len(s)
  PROVE  r = s
<1>1. Len(q) \in Nat \ {0} /\ \A u \in Above(q) : Len(u) \in 1 .. Len(q) - 1
  BY PathFacts, AboveFacts
<1>2. \A u \in Above(q) : Len(u) # Len(q)
  BY <1>1
<1>3. CASE r \in Above(q) /\ s \in Above(q)
  BY <1>3, AboveLine
<1> QED BY <1>2, <1>3

LEMMA ExpectedIs ==
  ASSUME NEW q \in Paths, NEW x \in Props, NEW e \in Definers(q, x),
         \A u \in Definers(q, x) : Len(u) <= Len(e)
  PROVE  x \in DOMAIN Expected(q) /\ Expected(q)[x] = e
<1> DEFINE D == Definers(q, x)
           c == CHOOSE s \in D : \A u \in D : Len(u) <= Len(s)
<1>1. D \subseteq Above(q) \cup {q} /\ \A u \in D : u \in Paths /\ Len(u) \in Nat
  BY AboveFacts, PathFacts DEF Definers
<1> HIDE DEF D
<1>2. e \in D /\ \A u \in D : Len(u) <= Len(e)
  BY DEF D
<1>3. c \in D /\ \A u \in D : Len(u) <= Len(c)
  BY <1>2
<1> HIDE DEF c
<1>4. Len(c) = Len(e)
  BY <1>1, <1>2, <1>3
<1>5. c = e
  BY <1>1, <1>2, <1>3, <1>4, SameLength
<1>6. x \in DOMAIN Expected(q) /\ Expected(q)[x] = c
  BY <1>2 DEF Expected, D, c
<1> QED BY <1>5, <1>6

LEMMA ExpectedFacts ==
  ASSUME NEW q \in Paths, NEW x \in DOMAIN Expected(q)
  PROVE  /\ Expected(q)[x] \in Definers(q, x)
         /\ \A u \in Definers(q, x) : Len(u) <= Len(Expected(q)[x])
<1> DEFINE D == Definers(q, x)
<1>1. x \in Props /\ D # {} /\ Expected(q)[x] = CHOOSE s \in D : \A u \in D : Len(u) <= Len(s)
  BY DEF Expected
<1>2. D \subseteq Paths /\ Len(q) \in Nat /\ \A u \in D : Len(u) <= Len(q)
  <2>1. Len(q) \in Nat /\ \A u \in Above(q) : u \in Paths /\ Len(u) \in 1 .. Len(q) - 1
    BY PathFacts, AboveFacts
  <2>2. \A u \in Above(q) : Len(u) <= Len(q)
    BY <2>1
  <2>3. Len(q) <= Len(q)
    BY <2>1
  <2> QED BY <2>1, <2>2, <2>3 DEF Definers
<1> HIDE DEF D
<1>3. \E s \in D : \A u \in D : Len(u) <= Len(s)
  BY <1>1, <1>2, Longest
<1>4. Expected(q)[x] \in D /\ \A u \in D : Len(u) <= Len(Expected(q)[x])
  BY <1>1, <1>3
<1> QED BY <1>4 DEF D

LEMMA MetaStep ==
  ASSUME TypeOK, MetaRoots, NEW t \in todo, own' = own, TookMeta(t, Bases(t))
  PROVE  MetaRoots'
<1>1. t \in Types /\ t \in Paths /\ Types \subseteq Paths /\ Types' = Types /\ mt \in [Types -> Types \cup {Nil}]
  BY DEF TypeOK, Types
<1>2. Bases(t) \subseteq Above(t) \cap Types /\ (IsRoot(t) => Bases(t) = {})
  BY <1>1, FrontAbove DEF Bases, Appended
<1>3. \A u \in Types \ {t} : mt'[u] = mt[u]
  BY DEF TookMeta
<1>4. IsRoot(t) => mt'[t] = mt[t]
  BY <1>2 DEF TookMeta
<1>5. ASSUME NEW u \in Types, mt[u] # Nil
      PROVE  /\ mt[u] \in Types /\ IsRoot(mt[u]) /\ mt[u] \in Above(u) \cup {u}
             /\ mt'[mt[u]] = mt[u]
  <2>1. mt[u] \in Types /\ IsRoot(mt[u]) /\ mt[u] \in Above(u) \cup {u} /\ mt[mt[u]] = mt[u]
    BY <1>1, <1>5 DEF MetaRoots
  <2> QED BY <1>3, <1>4, <2>1
<1> SUFFICES ASSUME NEW u \in Types, mt'[u] # Nil
             PROVE  IsRoot(mt'[u]) /\ mt'[u] \in Above(u) \cup {u} /\ mt'[mt'[u]] = mt'[u]
  BY <1>1 DEF MetaRoots
<1>6. CASE mt'[u] = mt[u]
  BY <1>5, <1>6
<1>7. CASE mt'[u] # mt[u]
  <2>1. u = t
    BY <1>3, <1>7
  <2>2. PICK b \in Bases(t) : mt[b] # Nil /\ mt'[t] = mt[b]
    BY <1>7, <2>1 DEF TookMeta
  <2>3. IsRoot(mt[b]) /\ mt[b] \in Above(b) \cup {b} /\ mt'[mt[b]] = mt[b]
    BY <1>2, <1>5, <2>2
  <2>4. mt[b] \in Above(t)
    BY <1>1, <1>2, <2>3, AboveTransitive
  <2> QED BY <2>1, <2>2, <2>3, <2>4
<1> QED BY <1>6, <1>7


\* A class whose ancestors all have what they should have gets what it should.
LEMMA CookedExpected ==
  ASSUME TypeOK, PropsSound, PropsSound', NEW t \in todo, own' = own,
         Took(t, Bases(t)), Bases(t) = Above(t) \cap Types, props[t] = [x \in own[t] |-> t],
         \A b \in Bases(t) : props[b] = Expected(b)
  PROVE  props'[t] = Expected(t)
<1> DEFINE g == props'[t]
           e == Expected(t)
<1>1. t \in Types /\ t \in Paths /\ Types \subseteq Paths /\ Types' = Types
  BY DEF TypeOK, Types
<1>2. Sound(t, g) /\ \A b \in Types : Sound(b, props[b])
  BY <1>1 DEF PropsSound, Sound
<1>3. DOMAIN props[t] = own[t]
  OBVIOUS
<1>4. g = [x \in DOMAIN g |-> g[x]]
  BY DEF Took
<1>5. /\ \A b \in Bases(t) : DOMAIN props[b] \subseteq DOMAIN g
      /\ \A x \in DOMAIN g \ own[t] :
           \E b \in Bases(t) :
             /\ x \in DOMAIN props[b] /\ g[x] = props[b][x]
             /\ \A c \in Bases(t) : x \in DOMAIN props[c] => Len(c) <= Len(b)
  BY <1>3 DEF Took
<1> HIDE DEF g
<1>6. ASSUME NEW x, NEW s \in Definers(t, x) PROVE x \in DOMAIN g
  <2>1. s \in (Above(t) \cup {t}) \cap Types /\ x \in own[s]
    BY DEF Definers
  <2>2. own[t] \subseteq DOMAIN g
    BY <1>2 DEF Sound
  <2>3. s # t => x \in DOMAIN props[s] /\ s \in Bases(t)
    BY <1>2, <2>1 DEF Sound
  <2> QED BY <1>5, <2>1, <2>2, <2>3
<1>7. ASSUME NEW x \in DOMAIN g
      PROVE  x \in Props /\ g[x] \in Definers(t, x) /\ \A u \in Definers(t, x) : Len(u) <= Len(g[x])
  <2>1. x \in Props /\ g[x] \in Definers(t, x)
    BY <1>1, <1>2 DEF Sound, Definers
  <2>2. CASE x \in own[t]
    <3>1. g[x] = t
      BY <1>2, <2>2 DEF Sound
    <3>2. Len(t) \in Nat /\ \A u \in Above(t) : Len(u) \in 1 .. Len(t) - 1
      BY <1>1, PathFacts, AboveFacts
    <3>3. Len(t) <= Len(t) /\ \A u \in Above(t) : Len(u) <= Len(t)
      BY <3>2
    <3> QED BY <2>1, <3>1, <3>3 DEF Definers
  <2>3. CASE x \notin own[t]
    <3>1. PICK b \in Bases(t) :
            /\ x \in DOMAIN props[b] /\ g[x] = props[b][x]
            /\ \A c \in Bases(t) : x \in DOMAIN props[c] => Len(c) <= Len(b)
      BY <1>5, <2>3
    <3>2. b \in Above(t) /\ b \in Types /\ b \in Paths
      BY <1>1
    <3>3. x \in DOMAIN Expected(b) /\ g[x] = Expected(b)[x]
      BY <3>1
    <3>4. \A u \in Definers(b, x) : Len(u) <= Len(g[x])
      BY <3>2, <3>3, ExpectedFacts
    <3>5. ASSUME NEW u \in Definers(t, x) PROVE Len(u) <= Len(g[x])
      <4>1. u \in Above(t) /\ u \in Types /\ x \in own[u] /\ u \in Paths
        BY <1>1, <2>3 DEF Definers
      <4>2. x \in DOMAIN props[u] /\ u \in Bases(t)
        BY <1>2, <4>1 DEF Sound
      <4>3. Len(u) <= Len(b) /\ Len(u) \in Nat /\ Len(b) \in Nat
        BY <3>1, <3>2, <4>1, <4>2, PathFacts
      <4>4. Len(u) < Len(b) \/ Len(u) = Len(b)
        BY <4>3
      <4>5. u \in Above(b) \cup {b}
        BY <1>1, <3>2, <4>1, <4>4, AboveLine
      <4>6. u \in Definers(b, x)
        BY <4>1, <4>5 DEF Definers
      <4> QED BY <3>4, <4>6
    <3> QED BY <2>1, <3>5
  <2> QED BY <2>2, <2>3
<1>8. \A x \in DOMAIN g : x \in DOMAIN e /\ e[x] = g[x]
  BY <1>1, <1>7, ExpectedIs
<1>9. \A x \in DOMAIN e : x \in DOMAIN g
  BY <1>1, <1>6, ExpectedFacts
<1>10. e = [x \in DOMAIN e |-> e[x]]
  BY DEF Expected
<1> HIDE DEF e
<1>11. DOMAIN g = DOMAIN e
  BY <1>8, <1>9
<1>12. g = e
  BY <1>4, <1>8, <1>10, <1>11
<1> QED BY <1>12 DEF g, e

\* A class has one class with a metatable above it at most: its root.
LEMMA MetaExpected ==
  ASSUME TypeOK, MetaRoots, MetaRoots', NEW t \in todo, own' = own,
         TookMeta(t, Bases(t)), TableGiven(t, Bases(t), {}), Bases(t) = Above(t) \cap Types,
         NEW s \in (Above(t) \cup {t}) \cap Types, mt'[s] = s
  PROVE  mt'[t] = s /\ (s \in tables' => t \in tables')
<1>1. t \in Types /\ t \in Paths /\ Types \subseteq Paths /\ Types' = Types /\ s \in Types /\ s # Nil
  BY PathFacts DEF TypeOK, Types
<1>2. s = t \/ s \in Bases(t)
  OBVIOUS
<1>3. CASE s = t
  BY <1>3
<1>4. CASE s # t /\ s \in Bases(t)
  <2>1. mt[s] = s /\ IsRoot(s)
    <3>1. mt'[s] = mt[s]
      BY <1>1, <1>4 DEF TookMeta
    <3>2. mt[s] = s
      BY <3>1
    <3> QED BY <1>1, <3>2 DEF MetaRoots
  <2>2. PICK b \in Bases(t) : mt[b] # Nil /\ mt'[t] = mt[b]
    BY <1>1, <1>4, <2>1 DEF TookMeta
  <2>3. b \in Types /\ b \in Above(t) /\ IsRoot(mt[b]) /\ mt[b] \in Above(b) \cup {b}
    BY <2>2 DEF MetaRoots
  <2>4. mt[b] \in Above(t) \cup {t} /\ s \in Above(t) \cup {t}
    BY <1>1, <2>3, AboveTransitive
  <2>5. mt[b] = s
    <3>1. Len(mt[b]) = Len(s)
      BY <2>1, <2>3 DEF IsRoot
    <3> QED BY <1>1, <2>4, <3>1, SameLength
  <2>6. s \in tables' => t \in tables'
    <3>1. s \in tables' => s \in tables
      BY <1>4 DEF TableGiven
    <3>2. s \in tables => t \in tables'
      BY <1>4 DEF TableGiven
    <3> QED BY <3>1, <3>2
  <2> QED BY <2>2, <2>5, <2>6
<1> QED BY <1>2, <1>3, <1>4

LEMMA TopDownStep ==
  ASSUME TreeInv, PropsSound, PropsSound', Untouched, MetaRoots, MetaRoots', TopDone, TopDownInherits,
         NEW t \in todo, own' = own, todo' = todo \ {t},
         topdown' = (topdown /\ Above(t) \cap todo = {}), Filled(t) \/ Lined(t)
  PROVE  TopDone' /\ TopDownInherits'
<1>1. t \in Types /\ Types \subseteq Paths /\ Types' = Types /\ Appended' = Appended \cup {t}
      /\ todo \subseteq Types /\ TypeOK /\ t \in Paths
  BY DEF TreeInv, TypeOK, Types, Appended
<1> SUFFICES ASSUME topdown'
             PROVE  TopDone' /\ TopDownInherits'
  BY DEF TopDone, TopDownInherits
<1>2. topdown /\ Above(t) \cap todo = {} /\ \A q \in Appended : Above(q) \cap todo = {}
  BY DEF TopDone
<1>3. TopDone'
  BY <1>1, <1>2 DEF TopDone
<1>4. Bases(t) = Above(t) \cap Types
  BY <1>1, <1>2 DEF Bases, Appended
<1>5. Cooked(t, Bases(t), {})
  <2>1. CASE Lined(t)
    BY <2>1 DEF Lined
  <2>2. CASE Filled(t)
    <3>1. \A q \in Downstream(node, t) : q \in Appended /\ t \in Above(q)
      BY <1>1, DownstreamFacts
    <3>2. Downstream(node, t) = {}
      BY <1>2, <3>1
    <3>3. Cooked(t, Bases(t), Downstream(node, t))
      BY <2>2 DEF Filled
    <3> QED BY <3>2, <3>3
  <2> QED BY <2>1, <2>2
<1>6. /\ \A u \in Types \ {t} : props'[u] = props[u]
      /\ Took(t, Bases(t)) /\ TookMeta(t, Bases(t)) /\ TableGiven(t, Bases(t), {})
  BY <1>5 DEF Cooked
<1>7. /\ \A q \in Types : Expected(q)' = Expected(q)
      /\ \A q \in Types : Metatable(q)' = {s \in (Above(q) \cup {q}) \cap Types : mt'[s] = s}
  BY <1>1 DEF Expected, Definers, Metatable
<1>8. \A q \in Appended : /\ props[q] = Expected(q)
                          /\ \A s \in Metatable(q) : mt[q] = s /\ (s \in tables => q \in tables)
  BY <1>2 DEF TopDownInherits
<1>9. props'[t] = Expected(t)
  <2>1. \A b \in Bases(t) : props[b] = Expected(b)
    BY <1>8 DEF Bases
  <2>2. props[t] = [x \in own[t] |-> t]
    BY DEF Untouched
  <2> QED BY <1>1, <1>4, <1>6, <2>1, <2>2, CookedExpected
<1>10. \A s \in Metatable(t)' : mt'[t] = s /\ (s \in tables' => t \in tables')
  <2> TAKE s \in Metatable(t)'
  <2>1. s \in (Above(t) \cup {t}) \cap Types /\ mt'[s] = s
    BY <1>1, <1>7
  <2> QED BY <1>1, <1>4, <1>6, <2>1, MetaExpected
<1>11. ASSUME NEW q \in Appended
       PROVE  /\ props'[q] = Expected(q)
              /\ \A s \in Metatable(q)' : mt'[q] = s /\ (s \in tables' => q \in tables')
  <2>1. q \in Types /\ q # t /\ t \notin Above(q)
    BY <1>2 DEF Appended
  <2>2. props'[q] = Expected(q)
    BY <1>6, <1>8, <2>1
  <2>3. ASSUME NEW s \in Metatable(q)' PROVE mt'[q] = s /\ (s \in tables' => q \in tables')
    <3>1. s \in (Above(q) \cup {q}) \cap Types /\ mt'[s] = s /\ s # t
      BY <1>7, <2>1
    <3>2. mt'[s] = mt[s] /\ mt'[q] = mt[q]
      BY <1>6, <2>1, <3>1 DEF TookMeta
    <3>3. s \in Metatable(q)
      BY <3>1, <3>2 DEF Metatable
    <3>4. mt[q] = s /\ (s \in tables => q \in tables)
      BY <1>8, <3>3
    <3>5. (s \in tables' <=> s \in tables) /\ (q \in tables' <=> q \in tables)
      BY <1>6, <2>1, <3>1 DEF TableGiven
    <3> QED BY <3>2, <3>4, <3>5
  <2> QED BY <2>2, <2>3
<1>12. \A q \in Appended' :
         /\ props'[q] = Expected(q)'
         /\ \A s \in Metatable(q)' : mt'[q] = s /\ (s \in tables' => q \in tables')
  <2> SUFFICES ASSUME NEW q \in Appended \cup {t}
               PROVE  /\ props'[q] = Expected(q)'
                      /\ \A s \in Metatable(q)' : mt'[q] = s /\ (s \in tables' => q \in tables')
    BY <1>1
  <2>1. q \in Types
    BY <1>1 DEF Appended
  <2>2. Expected(q)' = Expected(q)
    BY <1>7, <2>1
  <2> QED BY <1>9, <1>10, <1>11, <2>2
<1>13. TopDownInherits'
  BY <1>12 DEF TopDownInherits
<1> QED BY <1>3, <1>13


-----------------------------------------------------------------------------
(* The invariant.                                                          *)

Inv == TreeInv /\ PropsSound /\ Untouched /\ HeirsInherit /\ MetaRoots /\ TopDone /\ TopDownInherits

LEMMA InitInv == Init => Inv
<1> SUFFICES ASSUME Init PROVE Inv
  OBVIOUS
<1>1. PICK S \in SUBSET Paths : own \in [S -> SUBSET Props]
  BY DEF Init
<1>2. Types = S /\ Types \subseteq Paths /\ todo = Types /\ Appended = {} /\ \A t \in Types : own[t] \subseteq Props
  BY <1>1 DEF Init, Types, Appended
<1>3. DOMAIN node = {} /\ topdown = TRUE
  BY DEF Init
<1>4. DOMAIN props = Types /\ \A t \in Types : props[t] = [x \in own[t] |-> t]
  BY DEF Init
<1>5. PICK natives \in SUBSET {t \in Types : IsRoot(t)} :
        mt = [t \in Types |-> IF t \in natives THEN t ELSE Nil] /\ tables \in SUBSET natives
  BY DEF Init
<1>6. mt \in [Types -> Types \cup {Nil}] /\ tables \subseteq Types
  BY <1>5
<1>7. PropsSound
  BY <1>2, <1>4 DEF PropsSound, Sound
<1>8. \A t \in Types : DOMAIN props[t] \subseteq Props /\ Range(props[t]) \subseteq Types
  BY <1>7 DEF PropsSound, Sound, Range
<1>9. TypeOK
  BY <1>2, <1>3, <1>4, <1>6, <1>8 DEF TypeOK
<1>10. TreeInv
  BY <1>2, <1>3, <1>9 DEF TreeInv, RootsLinked, AppendedLinked
<1>11. MetaRoots
  <2> SUFFICES ASSUME NEW t \in Types, mt[t] # Nil
               PROVE  IsRoot(mt[t]) /\ mt[t] \in Above(t) \cup {t} /\ mt[mt[t]] = mt[t]
    BY DEF MetaRoots
  <2>1. t \in natives /\ mt[t] = t
    BY <1>5
  <2> QED BY <1>5, <2>1
<1> QED BY <1>2, <1>4, <1>7, <1>10, <1>11 DEF Inv, Untouched, HeirsInherit, TopDone, TopDownInherits

LEMMA NextInv == Inv /\ [Next]_vars => Inv'
<1> SUFFICES ASSUME Inv, [Next]_vars PROVE Inv'
  OBVIOUS
<1>1. CASE UNCHANGED vars
  <2>1. todo' = todo /\ own' = own /\ node' = node /\ props' = props /\ mt' = mt /\ tables' = tables /\ topdown' = topdown
    BY <1>1 DEF vars, tree, types
  <2>2. Types' = Types /\ Appended' = Appended /\ Appended \subseteq Types
    BY <2>1 DEF Types, Appended
  <2>3. TypeOK' /\ RootsLinked' /\ AppendedLinked'
    BY <2>1, <2>2 DEF Inv, TreeInv, TypeOK, RootsLinked, AppendedLinked
  <2>4. PropsSound' /\ Untouched' /\ HeirsInherit' /\ MetaRoots' /\ TopDone'
    BY <2>1, <2>2 DEF Inv, PropsSound, Sound, Untouched, HeirsInherit, MetaRoots, TopDone
  <2>5. TopDownInherits'
    <3>1. \A q \in Types : Expected(q)' = Expected(q) /\ Metatable(q)' = Metatable(q)
      BY <2>1, <2>2 DEF Expected, Definers, Metatable
    <3> SUFFICES ASSUME topdown', NEW q \in Appended'
                 PROVE  /\ props'[q] = Expected(q)'
                        /\ \A s \in Metatable(q)' : mt'[q] = s /\ (s \in tables' => q \in tables')
      BY DEF TopDownInherits
    <3>2. props[q] = Expected(q) /\ \A s \in Metatable(q) : mt[q] = s /\ (s \in tables => q \in tables)
      BY <2>1, <2>2 DEF Inv, TopDownInherits
    <3> QED BY <2>1, <2>2, <3>1, <3>2
  <2> QED BY <2>3, <2>4, <2>5 DEF Inv, TreeInv
<1>2. CASE Next
  <2>1. PICK t \in todo :
          /\ todo' = todo \ {t}
          /\ AppendType(t)
          /\ topdown' = (topdown /\ Above(t) \cap todo = {})
          /\ UNCHANGED own
    BY <1>2 DEF Next, Cooking
  <2>2. own' = own /\ Types' = Types /\ TreeInv /\ TypeOK /\ t \in Types /\ t \in Paths
    BY <2>1 DEF Inv, TreeInv, TypeOK, Types
  <2>3. Appended' = Appended \cup {t}
    BY <2>1, <2>2 DEF Appended
  <2>4. Filled(t) \/ Lined(t)
    BY <2>1, <2>2, AppendSteps
  <2>5. PICK below : Cooked(t, Bases(t), below) /\ \A u \in below : u \in Appended /\ t \in Above(u)
    <3>1. CASE Lined(t)
      BY <3>1 DEF Lined
    <3>2. CASE Filled(t)
      BY <2>2, <3>2, DownstreamFacts DEF Filled
    <3> QED BY <2>4, <3>1, <3>2
  <2>6. \A u \in below : u \in Types /\ u \notin todo
    BY <2>5 DEF Appended
  <2>7. TreeLinked'
    <3>1. CASE Lined(t)
      BY <2>2, <2>3, <3>1, LineLinks DEF Lined
    <3>2. CASE Filled(t)
      BY <2>2, <2>3, <3>2, FilledLinks DEF Filled
    <3> QED BY <2>4, <3>1, <3>2
  <2>8. PropsSound'
    BY <2>2, <2>5, <2>6, SoundStep DEF Inv
  <2>9. TypeOK'
    BY <2>1, <2>2, <2>5, <2>6, <2>7, <2>8, TypeStep DEF TreeLinked
  <2>10. TreeInv'
    BY <2>7, <2>9 DEF TreeInv, TreeLinked
  <2>11. Untouched'
    <3>1. \A u \in todo \ {t} : u \in Types \ (below \cup {t})
      BY <2>2, <2>6 DEF TypeOK
    <3>2. \A u \in todo \ {t} : props'[u] = props[u]
      BY <2>5, <3>1 DEF Cooked
    <3> QED BY <2>1, <2>2, <3>2 DEF Inv, Untouched
  <2>12. HeirsInherit'
    <3>1. CASE Lined(t)
      BY <2>2, <2>3, <3>1, HeirsLined DEF Inv
    <3>2. CASE Filled(t)
      BY <2>2, <2>3, <3>2, HeirsFilled DEF Inv
    <3> QED BY <2>4, <3>1, <3>2
  <2>13. MetaRoots'
    BY <2>2, <2>5, MetaStep DEF Inv, Cooked
  <2>14. TopDone' /\ TopDownInherits'
    BY <2>1, <2>2, <2>4, <2>8, <2>13, TopDownStep DEF Inv
  <2> QED BY <2>8, <2>10, <2>11, <2>12, <2>13, <2>14 DEF Inv
<1> QED BY <1>1, <1>2

\* Whatever classes there are and in whatever order they come, the tree is linked
\* throughout, and what the classes have is as the parts of Inv say.
THEOREM Invariant == Spec => []Inv
<1>1. Init => Inv
  BY InitInv
<1>2. Inv /\ [Next]_vars => Inv'
  BY NextInv
<1> QED BY <1>1, <1>2, PTL DEF Spec

\* Every variable keeps its type, so that dir2node and the classes never name a
\* directory or a class that is not there.
THEOREM TypeCorrect == Spec => []TypeOK
<1>1. Inv => TypeOK
  BY DEF Inv, TreeInv
<1> QED BY <1>1, Invariant, PTL

\* ObjectTree::append, in any order: every directory is linked to the one above
\* it and the walks over the tree end.
THEOREM RootsAlwaysLinked == Spec => []RootsLinked
<1>1. Inv => RootsLinked
  BY DEF Inv, TreeInv
<1> QED BY <1>1, Invariant, PTL

\* HashTable::insert and the two walks of append(), in any order: a class keeps
\* what it defines, and inherits from its own ancestors only.
THEOREM OriginsAlwaysSound == Spec => []OriginsSound
<1>1. Inv => OriginsSound
  BY DEF Inv, PropsSound, Sound, OriginsSound
<1> QED BY <1>1, Invariant, PTL

\* propagate_upstream and propagate_downstream, in any order: a class that is
\* linked as the child of another has all that the other has.
THEOREM HeirsAlwaysInherit == Spec => []HeirsInherit
<1>1. Inv => HeirsInherit
  BY DEF Inv
<1> QED BY <1>1, Invariant, PTL

\* append() in an order that has ancestors first: every class has the nearest
\* definition of every property, and the metatable of its native ancestor.
THEOREM TopDownAlwaysInherits == Spec => []TopDownInherits
<1>1. Inv => TopDownInherits
  BY DEF Inv
<1> QED BY <1>1, Invariant, PTL


===============================================================================
