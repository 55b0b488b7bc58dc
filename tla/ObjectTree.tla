------------------------------ MODULE ObjectTree ------------------------------
(***************************************************************************)
(* Inheritance (ObjectTree.h, Parser::generate_object_tree).  After all of *)
(* the program is read, its classes are handed to ObjectTree::append one   *)
(* by one, in the order of a hash table, that is, in any order.  append    *)
(* links the class to its ancestors, copies from them what they define,    *)
(* and copies what it has to the classes that were linked below it before. *)
(*                                                                         *)
(* A directory is the sequence of its names, so that /a/b is <<"a", "b">>. *)
(* The methods of a class are inherited as its properties are, by the same *)
(* insert(); Props stands for both.  A property's value is the class that  *)
(* defines it.  basetypes, which only dump() and the destructor read, is   *)
(* left out.                                                               *)
(***************************************************************************)
EXTENDS Integers, Sequences, FiniteSets, SequencesExt, FiniteSetsExt, Functions

CONSTANTS
  Paths,  \* the directories a class may have
  Props   \* the properties and methods a class may define

ASSUME PathsAssumption ==
  \A p \in Paths : p \in Seq(STRING) /\ p # <<>> /\ \A n \in 1 .. Len(p) : SubSeq(p, 1, n) \in Paths

VARIABLES
  todo,       \* uncooked types that append() has yet to be given
  own,        \* what each class defines itself
  node,       \* dir2node
  props,      \* typeproperties and typefuncs of the ObjectTypes
  mt,         \* their metatables, by the class that owns it, or Nil
  tables,     \* the types with is_table_type
  topdown     \* history: no class came before one of its ancestors

tree == <<node, topdown>>
types == <<props, mt, tables>>
vars == <<todo, own, tree, types>>

Nil == <<>>
Types == DOMAIN own

Upto(p, n) == SubSeq(p, 1, n)        \* the ancestor of p with n names
Above(p) == {Upto(p, n) : n \in 1 .. Len(p) - 1}
IsRoot(p) == Len(p) = 1              \* DotDot(p) = "/"

Node(root, children, me) == [root |-> root, children |-> children, me |-> me]

(* The two walks over the tree.  Every link joins a directory to the one   *)
(* directly above it, see RootsLinked.                                     *)

\* the ancestors propagate_upstream meets that have a class, from a on
Upstream(nodes, a) ==
  {Upto(a, n) : n \in {n \in 1 .. Len(a) :
     /\ \A m \in n + 1 .. Len(a) : nodes[Upto(a, m)].root # Nil
     /\ nodes[Upto(a, n)].me}}

\* mutant: only the children themselves are told
DownstreamOneLevel(nodes, p) == {q \in nodes[p].children : nodes[q].me}

\* the classes propagate_downstream meets below p
Downstream(nodes, p) ==
  {q \in DOMAIN nodes :
     /\ Len(q) > Len(p) /\ Upto(q, Len(p)) = p
     /\ \A m \in Len(p) + 1 .. Len(q) : Upto(q, m) \in nodes[Upto(q, m - 1)].children
     /\ nodes[q].me}

\* mutant: insert() overwrites
InsertedOver(old, new) ==
  [x \in DOMAIN old \cup DOMAIN new |-> IF x \in DOMAIN new THEN new[x] ELSE old[x]]

\* HashTable::insert(begin, end): what is there already is not overwritten
Inserted(old, new) ==
  [x \in DOMAIN old \cup DOMAIN new |-> IF x \in DOMAIN old THEN old[x] ELSE new[x]]

\* mutant: the bases are met from the farthest to the nearest
NearestIsFarthest(bases, x) ==
  LET having == {b \in bases : x \in DOMAIN props[b]}
  IN CHOOSE b \in having : \A c \in having : Len(b) <= Len(c)

\* the bases are met from the nearest to the farthest
Nearest(bases, x) ==
  LET having == {b \in bases : x \in DOMAIN props[b]}
  IN CHOOSE b \in having : \A c \in having : Len(c) <= Len(b)
Farthest(bases) == CHOOSE b \in bases : \A c \in bases : Len(b) <= Len(c)

FromBases(bases) ==
  [x \in UNION {DOMAIN props[b] : b \in bases} |-> props[Nearest(bases, x)][x]]

\* propagate_upstream for the class t, then propagate_downstream to `below';
\* a metatable is taken from every base that has one, and only on the way up
Cook(t, bases, below) ==
  LET cooked == Inserted(props[t], FromBases(bases))
      meta == {b \in bases : mt[b] # Nil}
      isTable == t \in tables \/ bases \cap tables # {}
  IN /\ props' = [u \in DOMAIN props |->
                    IF u = t THEN cooked
                    ELSE IF u \in below THEN Inserted(props[u], cooked)
                    ELSE props[u]]
     /\ mt' = [mt EXCEPT ![t] = IF meta = {} THEN @ ELSE mt[Farthest(meta)]]
     /\ tables' = tables \cup (IF isTable THEN {t} \cup below ELSE {})

(* ObjectTree::append                                                      *)

\* a dummy is there already
AppendToDummy(t) ==
  /\ t \in DOMAIN node
  /\ node' = [node EXCEPT ![t].me = TRUE]
  /\ Cook(t, IF IsRoot(t) THEN {} ELSE Upstream(node, node[t].root), Downstream(node, t))

\* a class that inherits from none
AppendBase(t) ==
  /\ t \notin DOMAIN node
  /\ IsRoot(t)
  /\ node' = Inserted(node, [p \in {t} |-> Node(Nil, {}, TRUE)])
  /\ UNCHANGED types

\* option 1: the directory above it is known
AppendChild(t) ==
  /\ t \notin DOMAIN node
  /\ ~IsRoot(t) /\ Front(t) \in DOMAIN node
  /\ node' = Inserted([node EXCEPT ![Front(t)].children = @ \cup {t}],
                      [p \in {t} |-> Node(Front(t), {}, TRUE)])
  /\ Cook(t, Upstream(node, Front(t)), {})

\* mutant: the line is not given its root
AppendLineRootless(t) ==
  /\ t \notin DOMAIN node
  /\ ~IsRoot(t) /\ Front(t) \notin DOMAIN node
  /\ LET known == Above(t) \cap DOMAIN node
         missing == IF known = {} THEN Nil ELSE CHOOSE k \in known : \A p \in known : Len(p) <= Len(k)
         line == {Upto(t, n) : n \in Len(missing) + 1 .. Len(t)}
         top == Upto(t, Len(missing) + 1)
         linked == IF missing = Nil THEN node ELSE [node EXCEPT ![missing].children = @ \cup {top}]
     IN /\ node' = Inserted(linked, [p \in line |->
                     Node(IF p = top THEN Nil ELSE Front(p), IF p = Front(t) THEN {t} ELSE {}, p = t)])
        /\ Cook(t, IF missing = Nil THEN {} ELSE Upstream(node, missing), {})

\* mutant: a dummy is made for "/" as well
AppendLineToSlash(t) ==
  /\ t \notin DOMAIN node
  /\ ~IsRoot(t) /\ Front(t) \notin DOMAIN node
  /\ node' = Inserted(node, [p \in {Upto(t, n) : n \in 0 .. Len(t)} |->
                Node(IF p = Nil THEN Nil ELSE Front(p), IF p = Front(t) THEN {t} ELSE {}, p = t)])
  /\ Cook(t, {}, {})

\* option 2: a line of dummies up to the first ancestor that is known.  Only the
\* lowest dummy, and that ancestor, are told of their child.
AppendLine(t) ==
  /\ t \notin DOMAIN node
  /\ ~IsRoot(t) /\ Front(t) \notin DOMAIN node
  /\ LET known == Above(t) \cap DOMAIN node
         missing == IF known = {} THEN Nil ELSE CHOOSE k \in known : \A p \in known : Len(p) <= Len(k)
         line == {Upto(t, n) : n \in Len(missing) + 1 .. Len(t)}
         linked == IF missing = Nil THEN node
                   ELSE [node EXCEPT ![missing].children = @ \cup {Upto(t, Len(missing) + 1)}]
     IN /\ node' = Inserted(linked, [p \in line |->
                     Node(Front(p), IF p = Front(t) THEN {t} ELSE {}, p = t)])
        /\ Cook(t, IF missing = Nil THEN {} ELSE Upstream(node, missing), {})

AppendType(t) == AppendToDummy(t) \/ AppendBase(t) \/ AppendChild(t) \/ AppendLine(t)

\* the loop of generate_object_tree
Cooking ==
  \E t \in todo :
    /\ todo' = todo \ {t}
    /\ AppendType(t)
    /\ topdown' = (topdown /\ Above(t) \cap todo = {})
    /\ UNCHANGED own

\* native classes have a metatable of their own, and some are tables
Init ==
  /\ own \in UNION {[S -> SUBSET Props] : S \in SUBSET Paths}
  /\ todo = Types
  /\ node = [p \in {} |-> Nil]
  /\ props = [t \in Types |-> [x \in own[t] |-> t]]
  /\ \E natives \in SUBSET {t \in Types : IsRoot(t)} :
       /\ mt = [t \in Types |-> IF t \in natives THEN t ELSE Nil]
       /\ tables \in SUBSET natives
  /\ topdown = TRUE

Next == Cooking

Spec == Init /\ [][Next]_vars

-----------------------------------------------------------------------------
Appended == Types \ todo

\* Type invariant.
TypeOK ==
  /\ todo \subseteq Types /\ Types \subseteq Paths
  /\ DOMAIN node \subseteq Paths
  /\ \A p \in DOMAIN node :
       node[p] \in [root : Paths \cup {Nil}, children : SUBSET Paths, me : BOOLEAN]
  /\ DOMAIN props = Types
  /\ \A t \in Types : DOMAIN props[t] \subseteq Props /\ Range(props[t]) \subseteq Types
  /\ mt \in [Types -> Types \cup {Nil}]
  /\ tables \subseteq Types
  /\ topdown \in BOOLEAN

\* Whatever order the classes come in, every directory in the tree is linked to
\* the one above it, which is in the tree as well, and children are linked
\* by the parent they name: append() follows ourdummy->root without a check,
\* and propagate_upstream() and _downstream() end.  A directory has a class
\* exactly when that class was appended.
RootsLinked ==
  \A p \in DOMAIN node :
    /\ node[p].root = Front(p)
    /\ ~IsRoot(p) => Front(p) \in DOMAIN node
    /\ \A c \in node[p].children : c \in DOMAIN node /\ node[c].root = p
    /\ node[p].me <=> p \in Appended

\* In any order, a class that is linked as the child of another has everything
\* that the other has, what that inherited later included.  (A class below a
\* dummy that is not its direct parent's is not linked: see OrderIndependent.)
HeirsInherit ==
  \A p \in Appended : \A t \in node[p].children \cap Appended :
    DOMAIN props[p] \subseteq DOMAIN props[t] /\ (p \in tables => t \in tables)

\* In any order, what a class defines itself is never replaced, and what it
\* inherits is the definition of one of its own ancestors.
OriginsSound ==
  \A t \in Types : \A x \in DOMAIN props[t] :
    LET origin == props[t][x] IN
    /\ x \in own[t] => origin = t
    /\ x \notin own[t] => origin \in Above(t) /\ x \in own[origin]

\* what a class should inherit: the nearest definition above it
Definers(t, x) == {s \in (Above(t) \cup {t}) \cap Types : x \in own[s]}
Expected(t) ==
  [x \in {y \in Props : Definers(t, y) # {}} |->
     CHOOSE s \in Definers(t, x) : \A u \in Definers(t, x) : Len(u) <= Len(s)]
Metatable(t) == {s \in (Above(t) \cup {t}) \cap Types : mt[s] = s}

\* When no class comes before one of its ancestors, every class has the nearest
\* definition of every property, the metatable of the native class it descends
\* from, and is a table when that is.
TopDownInherits ==
  topdown => \A t \in Appended :
    /\ props[t] = Expected(t)
    /\ \A s \in Metatable(t) : mt[t] = s /\ (s \in tables => t \in tables)

\* The manual (docs/content.html:231): classes can be declared in any order,
\* regardless of how they inherit from one another.
OrderIndependent == todo = {} => \A t \in Types : props[t] = Expected(t)
===============================================================================
