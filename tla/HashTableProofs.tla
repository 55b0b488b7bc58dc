---------------------------- MODULE HashTableProofs ----------------------------
(***************************************************************************)
(* The theorems on the hash table and their proofs.                        *)
(*                                                                         *)
(* The invariant says where each bucket in use stands: pos[b] links behind *)
(* the main bucket its key hashes to.  Every link leads one position       *)
(* further within the same chain, and every collision bucket in use has a  *)
(* predecessor; hence a walk from a main bucket finds exactly the buckets  *)
(* of its chain, and ends within the block.                                *)
(***************************************************************************)
EXTENDS HashTable, FiniteSetTheorems, SequenceFacts, TLAPS

Record == [used : BOOLEAN, key : Keys \cup {NoKey}, value : Values, next : Int]
Rows(T) == [0 .. T - 1 -> Record]

\* the main bucket that the key in bucket b hashes to
Home(B, m, b) == Hash[B[b].key] % m

Blank(B, T) == \A b \in 0 .. T - 1 : ~B[b].used => B[b] = Unused

Homed(B, T, m, pos) ==
  \A b \in 0 .. T - 1 : B[b].used =>
    /\ B[b].key \in Keys
    /\ b < m => Home(B, m, b) = b /\ pos[b] = 0
    /\ b >= m => pos[b] > 0

LeadsOn(B, T, m, pos) ==
  \A b \in 0 .. T - 1 : B[b].used /\ B[b].next # Nil =>
    /\ B[b].next \in m .. T - 1
    /\ B[B[b].next].used
    /\ Home(B, m, B[b].next) = Home(B, m, b)
    /\ pos[B[b].next] = pos[b] + 1

LedTo(B, T, m) ==
  \A b \in m .. T - 1 : B[b].used => \E p \in 0 .. T - 1 : B[p].used /\ B[p].next = b

Distinct(B, T) ==
  \A b, c \in 0 .. T - 1 : B[b].used /\ B[c].used /\ B[b].key = B[c].key => b = c

Chained(B, T, m, pos) ==
  /\ T \in Nat /\ m \in 1 .. T /\ B \in Rows(T) /\ pos \in [0 .. T - 1 -> Nat]
  /\ Blank(B, T)
  /\ Homed(B, T, m, pos)
  /\ LeadsOn(B, T, m, pos)
  /\ LedTo(B, T, m)
  /\ Distinct(B, T)

-------------------------------------------------------------------------------
(* Walks *)

LEMMA TotalIs ==
  ASSUME NEW t, NEW T \in Nat, t.bucket \in Rows(T)
  PROVE  DOMAIN t.bucket = 0 .. T - 1 /\ Total(t) = T
<1>1. DOMAIN t.bucket = 0 .. T - 1
  BY DEF Rows
<1>2. Cardinality(0 .. T - 1) = IF 0 > T - 1 THEN 0 ELSE (T - 1) - 0 + 1
  <2>1. 0 \in Int /\ T - 1 \in Int
    OBVIOUS
  <2> QED
    BY <2>1, FS_Interval
<1>3. Cardinality(0 .. T - 1) = T
  BY <1>2
<1> QED
  BY <1>1, <1>3 DEF Total

IsWalk(w, B, T, i) ==
  /\ w \in [0 .. T -> 0 .. T - 1 \cup {Nil}]
  /\ w[0] = i
  /\ \A n \in 1 .. T : w[n] = IF w[n - 1] = Nil THEN Nil ELSE B[w[n - 1]].next

\* What the recursion of Walk computes.
LEMMA WalkIs ==
  ASSUME NEW t, NEW T, NEW m, NEW pos, Chained(t.bucket, T, m, pos), NEW i \in 0 .. T - 1
  PROVE  IsWalk(Walk(t, i), t.bucket, T, i)
<1> DEFINE B == t.bucket
           V == 0 .. T - 1 \cup {Nil}
<1>1. T \in Nat /\ m \in 1 .. T /\ B \in Rows(T)
  BY DEF Chained
<1>2. DOMAIN t.bucket = 0 .. T - 1 /\ Total(t) = T
  BY <1>1, TotalIs
<1>3. Link(t) \in [V -> V] /\ \A b \in V : Link(t)[b] = IF b = Nil THEN Nil ELSE B[b].next
  <2>1. ASSUME NEW b \in V, b # Nil PROVE B[b].next \in V
    <3>1. CASE B[b].used
      BY <1>1, <2>1, <3>1 DEF Chained, LeadsOn
    <3>2. CASE ~B[b].used
      BY <1>1, <2>1, <3>2 DEF Chained, Blank, Unused
    <3> QED
      BY <3>1, <3>2
  <2> QED
    BY <1>2, <2>1 DEF Link
<1> DEFINE step == [n \in 1 .. T |-> Link(t)]
           L == Link(t)
           IsReached(f) == f = [n \in 0 .. Total(t) |-> IF n = 0 THEN i ELSE L[f[n - 1]]]
           w == CHOOSE f : IsReached(f)
<1>4. Walk(t, i) = w
  BY DEF Walk
<1> HIDE DEF V, L
<1>5. i \in V /\ step \in [1 .. T -> [V -> V]] /\ \A n \in 1 .. T : step[n] = L
  BY <1>3 DEF V, L
<1> HIDE DEF step
<1>6. PICK f \in [0 .. T -> V] : f = [n \in 0 .. T |-> IF n = 0 THEN i ELSE step[n][f[n - 1]]]
  <2>1. StepsUpTo(T, V, i, step)
    BY <1>1, <1>5, BoundedRecursion
  <2> QED
    BY <2>1 DEF StepsUpTo
<1>7. IsReached(f)
  <2>1. \A n \in 0 .. T : f[n] = IF n = 0 THEN i ELSE L[f[n - 1]]
    <3> TAKE n \in 0 .. T
    <3>1. n = 0 \/ n \in 1 .. T
      BY <1>1
    <3> QED
      BY <1>5, <1>6, <3>1
  <2> QED
    BY <1>2, <1>6, <2>1
<1>8. IsReached(w)
  BY <1>7
<1> HIDE DEF w
<1>9. w[0] = i /\ \A n \in 1 .. T : w[n] = L[w[n - 1]]
  BY <1>1, <1>2, <1>8
<1>10. w = [n \in 0 .. T |-> w[n]]
  BY <1>2, <1>8
<1> HIDE DEF IsReached
<1> DEFINE S == {n \in 0 .. T : w[n] \in V}
<1>11. 0 .. T \subseteq S
  <2>1. 0 \in S
    BY <1>1, <1>5, <1>9
  <2>2. ASSUME NEW n \in 1 .. T, n - 1 \in S PROVE n \in S
    BY <1>1, <1>3, <1>9, <2>2 DEF L
  <2> HIDE DEF S
  <2> QED
    BY <1>1, <2>1, <2>2, BoundedInduction
<1>12. w \in [0 .. T -> V]
  BY <1>10, <1>11
<1>13. ASSUME NEW n \in 1 .. T PROVE w[n] = IF w[n - 1] = Nil THEN Nil ELSE B[w[n - 1]].next
  BY <1>1, <1>3, <1>9, <1>11 DEF L
<1> QED
  BY <1>4, <1>9, <1>12, <1>13 DEF IsWalk, V


Unbroken(w, n) == \A x \in 0 .. n : w[x] # Nil

\* Nothing follows the end of a walk.
LEMMA WalkUnbroken ==
  ASSUME NEW B, NEW T \in Nat, NEW i, NEW w, IsWalk(w, B, T, i), NEW n \in 0 .. T, w[n] # Nil
  PROVE  Unbroken(w, n)
<1> DEFINE R == {x \in 0 .. n : w[n - x] # Nil}
<1>1. 0 .. n \subseteq R
  <2>1. 0 \in R
    OBVIOUS
  <2>2. ASSUME NEW x \in 1 .. n, x - 1 \in R PROVE x \in R
    <3>1. n - x + 1 \in 1 .. T /\ (n - x + 1) - 1 = n - x /\ n - (x - 1) = n - x + 1
      OBVIOUS
    <3>2. w[n - x + 1] # Nil
      BY <2>2, <3>1
    <3>3. w[n - x] # Nil
      BY <3>1, <3>2 DEF IsWalk
    <3> QED
      BY <3>1, <3>3
  <2> HIDE DEF R
  <2> QED
    BY <2>1, <2>2, BoundedInduction
<1>2. ASSUME NEW x \in 0 .. n PROVE w[x] # Nil
  <2>1. n - x \in 0 .. n /\ n - (n - x) = x
    OBVIOUS
  <2> QED
    BY <1>1, <2>1
<1> QED
  BY <1>2 DEF Unbroken

\* A walk from a main bucket in use stays on its chain, one position further with
\* every link, and ends within the block.
LEMMA WalkStays ==
  ASSUME NEW B, NEW T, NEW m, NEW pos, Chained(B, T, m, pos),
         NEW i \in 0 .. m - 1, B[i].used, NEW w, IsWalk(w, B, T, i)
  PROVE  /\ \A n \in 0 .. T : w[n] # Nil =>
              /\ w[n] \in 0 .. T - 1 /\ B[w[n]].used /\ Home(B, m, w[n]) = i /\ pos[w[n]] = n
              /\ n > 0 => w[n] >= m
         /\ w[T] = Nil
<1>1. T \in Nat /\ m \in 1 .. T
  BY DEF Chained
<1> DEFINE On(n) == /\ w[n] \in 0 .. T - 1 /\ B[w[n]].used /\ Home(B, m, w[n]) = i /\ pos[w[n]] = n
                    /\ n > 0 => w[n] >= m
           S == {n \in 0 .. T : w[n] # Nil => On(n)}
<1>2. 0 .. T \subseteq S
  <2>1. 0 \in S
    <3>1. w[0] = i /\ i \in 0 .. T - 1 /\ i < m
      BY <1>1 DEF IsWalk
    <3> QED
      BY <1>1, <3>1 DEF Chained, Homed
  <2>2. ASSUME NEW n \in 1 .. T, n - 1 \in S PROVE n \in S
    <3> SUFFICES ASSUME w[n] # Nil PROVE On(n)
      BY <1>1
    <3>1. w[n - 1] # Nil /\ w[n] = B[w[n - 1]].next
      BY DEF IsWalk
    <3>2. On(n - 1) /\ n - 1 \in Nat /\ n = (n - 1) + 1
      BY <1>1, <2>2, <3>1
    <3>3. /\ w[n] \in m .. T - 1 /\ B[w[n]].used /\ Home(B, m, w[n]) = i
          /\ pos[w[n]] = (n - 1) + 1
      BY <3>1, <3>2 DEF Chained, LeadsOn
    <3> QED
      BY <1>1, <3>2, <3>3
  <2> HIDE DEF S
  <2> QED
    BY <1>1, <2>1, <2>2, BoundedInduction
<1>3. \A n \in 0 .. T : w[n] # Nil => On(n)
  BY <1>2
<1>4. w[T] = Nil
  <2> SUFFICES ASSUME w[T] # Nil PROVE FALSE
    OBVIOUS
  <2>2. \A n \in 0 .. T : w[n] # Nil
    <3>1. T \in 0 .. T
      BY <1>1
    <3>2. Unbroken(w, T)
      BY <1>1, <3>1, WalkUnbroken
    <3> QED
      BY <3>2 DEF Unbroken
  <2>3. w \in [0 .. T -> 0 .. T - 1]
    BY <1>3, <2>2 DEF IsWalk
  <2>4. /\ IsFiniteSet(0 .. T) /\ Cardinality(0 .. T) = T + 1
        /\ IsFiniteSet(0 .. T - 1) /\ Cardinality(0 .. T - 1) = T
    <3>1. 0 \in Int /\ T \in Int /\ T - 1 \in Int
      BY <1>1
    <3>2. /\ IsFiniteSet(0 .. T) /\ Cardinality(0 .. T) = IF 0 > T THEN 0 ELSE T - 0 + 1
          /\ IsFiniteSet(0 .. T - 1) /\ Cardinality(0 .. T - 1) = IF 0 > T - 1 THEN 0 ELSE (T - 1) - 0 + 1
      BY <3>1, FS_Interval
    <3> QED
      BY <1>1, <3>2
  <2>5. Cardinality(0 .. T - 1) < Cardinality(0 .. T)
    BY <1>1, <2>4
  <2>6. PICK x, y \in 0 .. T : x # y /\ w[x] = w[y]
    BY <2>3, <2>4, <2>5, FS_PigeonHole
  <2> QED
    BY <1>3, <2>2, <2>6
<1> QED
  BY <1>3, <1>4

\* Every bucket in use is met by the walk along its chain, at its position.
LEMMA WalkFinds ==
  ASSUME NEW B, NEW T, NEW m, NEW pos, Chained(B, T, m, pos),
         NEW b \in 0 .. T - 1, B[b].used
  PROVE  /\ Home(B, m, b) \in 0 .. m - 1 /\ B[Home(B, m, b)].used
         /\ \A w : IsWalk(w, B, T, Home(B, m, b)) => pos[b] \in 0 .. T - 1 /\ w[pos[b]] = b
<1>1. /\ T \in Nat /\ m \in 1 .. T
      /\ \A c \in 0 .. T - 1 : B[c].used => B[c].key \in Keys
      /\ \A c \in 0 .. T - 1 : pos[c] \in Nat
  BY DEF Chained, Homed
<1>2. \A c \in 0 .. T - 1 : B[c].used => Home(B, m, c) \in 0 .. m - 1
  <2> TAKE c \in 0 .. T - 1
  <2> HAVE B[c].used
  <2>1. Hash[B[c].key] \in Nat
    BY <1>1, HashAssumption
  <2> QED
    BY <1>1, <2>1 DEF Home
<1> DEFINE Met(c) == /\ B[Home(B, m, c)].used
                     /\ \A w : IsWalk(w, B, T, Home(B, m, c)) => pos[c] \in 0 .. T - 1 /\ w[pos[c]] = c
           S == {n \in Nat : \A c \in 0 .. T - 1 : B[c].used /\ pos[c] = n => Met(c)}
<1>3. Nat \subseteq S
  <2>1. 0 \in S
    <3> SUFFICES ASSUME NEW c \in 0 .. T - 1, B[c].used, pos[c] = 0 PROVE Met(c)
      OBVIOUS
    <3>1. Home(B, m, c) = c
      BY <1>1 DEF Chained, Homed
    <3> QED
      BY <1>1, <3>1 DEF IsWalk
  <2>2. ASSUME NEW n \in Nat, n \in S PROVE n + 1 \in S
    <3> SUFFICES ASSUME NEW c \in 0 .. T - 1, B[c].used, pos[c] = n + 1 PROVE Met(c)
      BY <2>2
    <3>1. c \in m .. T - 1
      BY <1>1 DEF Chained, Homed
    <3>2. PICK p \in 0 .. T - 1 : B[p].used /\ B[p].next = c
      BY <3>1 DEF Chained, LedTo
    <3>3. c # Nil
      BY <1>1, <3>1 DEF Nil
    <3>4. Home(B, m, c) = Home(B, m, p) /\ pos[c] = pos[p] + 1
      BY <3>2, <3>3 DEF Chained, LeadsOn
    <3>5. pos[p] = n
      BY <1>1, <3>4
    <3>6. Met(p)
      BY <2>2, <3>2, <3>5
    <3> DEFINE i == Home(B, m, c)
    <3>7. i \in 0 .. m - 1 /\ B[i].used
      BY <1>2, <3>2, <3>4, <3>6
    <3> SUFFICES ASSUME NEW w, IsWalk(w, B, T, i) PROVE pos[c] \in 0 .. T - 1 /\ w[pos[c]] = c
      BY <3>7
    <3>8. n \in 0 .. T - 1 /\ w[n] = p
      BY <3>4, <3>5, <3>6
    <3> HIDE DEF i
    <3>9. w[n + 1] = c
      <4>1. n + 1 \in 1 .. T /\ (n + 1) - 1 = n /\ p # Nil
        BY <1>1, <3>8 DEF Nil
      <4> QED
        BY <3>2, <3>8, <4>1 DEF IsWalk
    <3>10. n + 1 # T
      <4>1. w[T] = Nil
        BY <3>7, WalkStays
      <4> QED
        BY <3>3, <3>9, <4>1
    <3> QED
      BY <1>1, <3>8, <3>9, <3>10
  <2> HIDE DEF S
  <2> QED
    BY <2>1, <2>2, SetInduction
<1>4. Met(b)
  BY <1>1, <1>3
<1> QED
  BY <1>2, <1>4


\* No two buckets stand at the same position of a chain.
LEMMA WalkSame ==
  ASSUME NEW B, NEW T, NEW m, NEW pos, Chained(B, T, m, pos)
  PROVE  \A b, c \in 0 .. T - 1 :
           B[b].used /\ B[c].used /\ Home(B, m, b) = Home(B, m, c) /\ pos[b] = pos[c] => b = c
<1> SUFFICES ASSUME NEW b \in 0 .. T - 1, NEW c \in 0 .. T - 1, B[b].used, B[c].used,
                    Home(B, m, b) = Home(B, m, c), pos[b] = pos[c]
             PROVE  b = c
  OBVIOUS
<1> DEFINE t == [bucket |-> B]
           i == Home(B, m, b)
<1>1. i \in 0 .. T - 1
  BY WalkFinds DEF Chained
<1>2. t.bucket = B
  OBVIOUS
<1> HIDE DEF i, t
<1>3. IsWalk(Walk(t, i), B, T, i)
  BY <1>1, <1>2, WalkIs
<1>4. Walk(t, i)[pos[b]] = b /\ Walk(t, i)[pos[c]] = c
  BY <1>3, WalkFinds DEF i
<1> QED
  BY <1>4

\* at_bucket() finds the bucket that holds a key, and none if no bucket does.
LEMMA AtFinds ==
  ASSUME NEW t, NEW T, NEW pos, Chained(t.bucket, T, t.mainCap, pos), NEW k \in Keys
  PROVE  /\ \A b \in 0 .. T - 1 : t.bucket[b].used /\ t.bucket[b].key = k => At(t, k) = b
         /\ (\A b \in 0 .. T - 1 : ~(t.bucket[b].used /\ t.bucket[b].key = k)) => At(t, k) = Nil
<1> DEFINE B == t.bucket
           m == t.mainCap
           i == Index(t, k)
           w == Walk(t, i)
           Holds(b) == B[b].used /\ B[b].key = k
           Passed(b) == B[b].used /\ B[b].key # k
           Found(b) == Holds(b) /\ \E n \in DOMAIN w : w[n] = b /\ \A x \in 0 .. n - 1 : Passed(w[x])
           met == {b \in DOMAIN B : Found(b)}
<1>1. T \in Nat /\ m \in 1 .. T /\ B \in Rows(T) /\ DOMAIN B = 0 .. T - 1
  BY DEF Chained, Rows
<1>2. i \in 0 .. m - 1
  BY <1>1, HashAssumption DEF Index
<1>3. IsWalk(w, B, T, i)
  <2>1. i \in 0 .. T - 1
    BY <1>1, <1>2
  <2> HIDE DEF i
  <2> QED
    BY <2>1, WalkIs
<1>4. DOMAIN w = 0 .. T
  BY <1>3 DEF IsWalk
<1>5. At(t, k) = IF met = {} THEN Nil ELSE CHOOSE b \in met : TRUE
  BY DEF At
<1> HIDE DEF w
<1>6. ASSUME NEW b \in 0 .. T - 1, Holds(b) PROVE At(t, k) = b
  <2>1. Home(B, m, b) = i
    BY <1>6 DEF Home, Index
  <2>2. B[i].used /\ pos[b] \in 0 .. T - 1 /\ w[pos[b]] = b
    BY <1>3, <1>6, <2>1, WalkFinds
  <2>3. /\ \A n \in 0 .. T : w[n] # Nil =>
             w[n] \in 0 .. T - 1 /\ B[w[n]].used /\ pos[w[n]] = n
    BY <1>2, <1>3, <2>2, WalkStays
  <2>4. b # Nil
    BY DEF Nil
  <2>5. \A x \in 0 .. pos[b] : w[x] # Nil
    <3>1. pos[b] \in 0 .. T /\ w[pos[b]] # Nil
      BY <1>1, <2>2, <2>4
    <3>2. T \in Nat
      BY <1>1
    <3>3. Unbroken(w, pos[b])
      BY <1>3, <3>1, <3>2, WalkUnbroken
    <3> QED
      BY <3>3 DEF Unbroken
  <2>6. \A x \in 0 .. pos[b] - 1 : Passed(w[x])
    <3> TAKE x \in 0 .. pos[b] - 1
    <3>1. x \in 0 .. T /\ x \in 0 .. pos[b] /\ x # pos[b]
      BY <1>1, <2>2
    <3>2. w[x] \in 0 .. T - 1 /\ B[w[x]].used /\ pos[w[x]] # pos[b]
      BY <2>3, <2>5, <3>1
    <3> QED
      BY <1>6, <3>2 DEF Chained, Distinct
  <2>7. b \in met
    <3>1. pos[b] \in 0 .. T
      BY <1>1, <2>2
    <3> QED
      BY <1>1, <1>4, <1>6, <2>2, <2>6, <3>1
  <2>8. \A c \in met : c = b
    BY <1>1, <1>6 DEF Chained, Distinct
  <2> HIDE DEF met
  <2> QED
    BY <1>5, <2>7, <2>8
<1>7. ASSUME \A b \in 0 .. T - 1 : ~Holds(b) PROVE At(t, k) = Nil
  <2>1. met = {}
    BY <1>1, <1>7
  <2> QED
    BY <1>5, <2>1
<1> QED
  BY <1>6, <1>7

\* The end of a chain is a bucket on it with nothing behind.
LEMMA EndIs ==
  ASSUME NEW t, NEW T, NEW pos, Chained(t.bucket, T, t.mainCap, pos),
         NEW i \in 0 .. t.mainCap - 1, t.bucket[i].used
  PROVE  LET e == ChainEnd(t, i) IN
         /\ e \in 0 .. T - 1
         /\ t.bucket[e].used /\ t.bucket[e].next = Nil
         /\ Home(t.bucket, t.mainCap, e) = i
<1> DEFINE B == t.bucket
           m == t.mainCap
           w == Walk(t, i)
           L == Link(t)
           Ends(n) == w[n] # Nil /\ L[w[n]] = Nil
           n0 == CHOOSE n \in DOMAIN w : Ends(n)
<1>1. T \in Nat /\ m \in 1 .. T /\ B \in Rows(T) /\ DOMAIN B = 0 .. T - 1
  BY DEF Chained, Rows
<1>2. IsWalk(w, B, T, i)
  <2>1. i \in 0 .. T - 1
    BY <1>1
  <2> QED
    BY <2>1, WalkIs
<1>3. DOMAIN w = 0 .. T
  BY <1>2 DEF IsWalk
<1>4. /\ \A n \in 0 .. T : w[n] # Nil => w[n] \in 0 .. T - 1 /\ B[w[n]].used /\ Home(B, m, w[n]) = i
      /\ w[T] = Nil
  BY <1>1, <1>2, WalkStays
<1>5. \A b \in 0 .. T - 1 : L[b] = B[b].next
  BY <1>1 DEF Link, Nil
<1>6. ChainEnd(t, i) = w[n0]
  BY DEF ChainEnd
<1> HIDE DEF w, L
<1>7. \E n \in DOMAIN w : Ends(n)
  <2> DEFINE S == {n \in 0 .. T : w[n] = Nil}
  <2>1. PICK n \in S : \A x \in S : n <= x
    <3>1. S \subseteq Nat /\ T \in S
      BY <1>1, <1>4
    <3> HIDE DEF S
    <3> QED
      BY <3>1, NatMin
  <2>2. n # 0
    BY <1>1, <1>2, <2>1 DEF IsWalk, Nil
  <2>3. n - 1 \in 0 .. T /\ n - 1 \notin S /\ n \in 1 .. T
    BY <1>1, <2>1, <2>2
  <2>4. w[n - 1] # Nil /\ B[w[n - 1]].next = Nil
    BY <1>2, <2>1, <2>3 DEF IsWalk
  <2>5. Ends(n - 1)
    BY <1>4, <1>5, <2>3, <2>4
  <2> QED
    BY <1>3, <2>3, <2>5
<1>8. n0 \in 0 .. T /\ Ends(n0)
  BY <1>3, <1>7
<1> HIDE DEF n0
<1> QED
  BY <1>4, <1>5, <1>6, <1>8


-------------------------------------------------------------------------------
(* What the operations do to the buckets *)

Linkable(B, T, m) == \E pos : Chained(B, T, m, pos)

\* C is B but for the buckets in S
SameBut(C, B, T, S) ==
  /\ C \in Rows(T)
  /\ \A b \in (0 .. T - 1) \ S : C[b] = B[b]

Absent(B, T, k) == \A b \in 0 .. T - 1 : ~(B[b].used /\ B[b].key = k)

HashIndex(k, m) == Hash[k] % m

LEMMA HashIndexIn ==
  ASSUME NEW k \in Keys, NEW m \in Nat \ {0}
  PROVE  HashIndex(k, m) \in 0 .. m - 1
<1>1. Hash[k] \in Nat
  BY HashAssumption
<1> QED
  BY <1>1 DEF HashIndex

LEMMA HoldingIs ==
  ASSUME NEW k \in Keys, NEW v \in Values, NEW n \in Int
  PROVE  /\ Holding(k, v, n) \in Record
         /\ Holding(k, v, n).used
         /\ Holding(k, v, n).key = k
         /\ Holding(k, v, n).value = v
         /\ Holding(k, v, n).next = n
  BY DEF Holding, Record

LEMMA UnusedIs ==
  Unused \in Record /\ ~Unused.used /\ Unused.key = NoKey /\ Unused.value = Default /\ Unused.next = Nil
  BY DefaultAssumption DEF Unused, Record, Nil

\* A main bucket that was not in use is filled.
LEMMA FillMain ==
  ASSUME NEW B, NEW T, NEW m, NEW pos, Chained(B, T, m, pos),
         NEW k \in Keys, NEW i, i = HashIndex(k, m), ~B[i].used, Absent(B, T, k),
         NEW C, SameBut(C, B, T, {i}), C[i].used, C[i].key = k, C[i].next = Nil
  PROVE  Linkable(C, T, m)
<1>1. T \in Nat /\ m \in 1 .. T /\ B \in Rows(T) /\ C \in Rows(T) /\ pos \in [0 .. T - 1 -> Nat]
  BY DEF Chained, SameBut
<1>2. i \in 0 .. m - 1 /\ i \in 0 .. T - 1
  <2>1. i \in 0 .. m - 1
    BY <1>1, HashIndexIn
  <2> QED
    BY <1>1, <2>1
<1>3. \A b \in 0 .. T - 1 : b # i => C[b] = B[b]
  BY DEF SameBut
<1> DEFINE q == [pos EXCEPT ![i] = 0]
<1>4. q \in [0 .. T - 1 -> Nat] /\ q[i] = 0 /\ \A b \in 0 .. T - 1 : b # i => q[b] = pos[b]
  BY <1>1, <1>2
<1> HIDE DEF q
<1>5. Blank(C, T)
  BY <1>3 DEF Chained, Blank
<1>6. Homed(C, T, m, q)
  <2> SUFFICES ASSUME NEW b \in 0 .. T - 1, C[b].used
               PROVE  /\ C[b].key \in Keys
                      /\ b < m => Home(C, m, b) = b /\ q[b] = 0
                      /\ b >= m => q[b] > 0
    BY DEF Homed
  <2>1. CASE b = i
    BY <1>1, <1>2, <1>4, <2>1 DEF Home, HashIndex
  <2>2. CASE b # i
    BY <1>3, <1>4, <2>2 DEF Chained, Homed, Home
  <2> QED
    BY <2>1, <2>2
<1>7. LeadsOn(C, T, m, q)
  <2> SUFFICES ASSUME NEW b \in 0 .. T - 1, C[b].used, C[b].next # Nil
               PROVE  /\ C[b].next \in m .. T - 1
                      /\ C[C[b].next].used
                      /\ Home(C, m, C[b].next) = Home(C, m, b)
                      /\ q[C[b].next] = q[b] + 1
    BY DEF LeadsOn
  <2>1. b # i /\ C[b] = B[b]
    BY <1>3
  <2> DEFINE n == B[b].next
  <2>2. /\ n \in m .. T - 1 /\ B[n].used
        /\ Home(B, m, n) = Home(B, m, b) /\ pos[n] = pos[b] + 1
    BY <2>1 DEF Chained, LeadsOn
  <2>3. n \in 0 .. T - 1 /\ n # i
    BY <1>1, <1>2, <2>2
  <2> QED
    BY <1>3, <1>4, <2>1, <2>2, <2>3 DEF Home
<1>8. LedTo(C, T, m)
  <2> SUFFICES ASSUME NEW b \in m .. T - 1, C[b].used
               PROVE  \E p \in 0 .. T - 1 : C[p].used /\ C[p].next = b
    BY DEF LedTo
  <2>1. b # i /\ b \in 0 .. T - 1 /\ C[b] = B[b]
    BY <1>1, <1>2, <1>3
  <2>2. PICK p \in 0 .. T - 1 : B[p].used /\ B[p].next = b
    BY <2>1 DEF Chained, LedTo
  <2> QED
    BY <1>3, <2>2
<1>9. Distinct(C, T)
  BY <1>3 DEF Chained, Distinct, Absent
<1> QED
  BY <1>1, <1>4, <1>5, <1>6, <1>7, <1>8, <1>9 DEF Chained, Linkable

\* A collision bucket that was not in use is filled, and linked behind the end of a chain.
LEMMA LinkBehind ==
  ASSUME NEW B, NEW T, NEW m, NEW pos, Chained(B, T, m, pos),
         NEW k \in Keys, Absent(B, T, k),
         NEW e \in 0 .. T - 1, B[e].used, B[e].next = Nil, Home(B, m, e) = HashIndex(k, m),
         NEW s \in m .. T - 1, ~B[s].used,
         NEW C, SameBut(C, B, T, {e, s}),
         C[e].used, C[e].key = B[e].key, C[e].next = s,
         C[s].used, C[s].key = k, C[s].next = Nil
  PROVE  Linkable(C, T, m)
<1>1. T \in Nat /\ m \in 1 .. T /\ B \in Rows(T) /\ C \in Rows(T) /\ pos \in [0 .. T - 1 -> Nat]
  BY DEF Chained, SameBut
<1>2. s \in 0 .. T - 1 /\ s # e /\ s >= m /\ e # Nil /\ s # Nil
  BY <1>1 DEF Nil
<1>3. \A b \in 0 .. T - 1 : b # e /\ b # s => C[b] = B[b]
  BY DEF SameBut
<1> DEFINE q == [pos EXCEPT ![s] = pos[e] + 1]
<1>4. q \in [0 .. T - 1 -> Nat] /\ q[s] = pos[e] + 1 /\ \A b \in 0 .. T - 1 : b # s => q[b] = pos[b]
  BY <1>1, <1>2
<1> HIDE DEF q
<1>5. Blank(C, T)
  BY <1>3 DEF Chained, Blank
<1>6. Homed(C, T, m, q)
  <2> SUFFICES ASSUME NEW b \in 0 .. T - 1, C[b].used
               PROVE  /\ C[b].key \in Keys
                      /\ b < m => Home(C, m, b) = b /\ q[b] = 0
                      /\ b >= m => q[b] > 0
    BY DEF Homed
  <2>1. CASE b = s
    BY <1>1, <1>2, <1>4, <2>1, SMTT(30)
  <2>2. CASE b # s
    <3>1. B[b].used /\ C[b].key = B[b].key
      BY <1>3, <2>2
    <3> QED
      BY <1>4, <2>2, <3>1 DEF Chained, Homed, Home
  <2> QED
    BY <2>1, <2>2
<1>7. LeadsOn(C, T, m, q)
  <2> SUFFICES ASSUME NEW b \in 0 .. T - 1, C[b].used, C[b].next # Nil
               PROVE  /\ C[b].next \in m .. T - 1
                      /\ C[C[b].next].used
                      /\ Home(C, m, C[b].next) = Home(C, m, b)
                      /\ q[C[b].next] = q[b] + 1
    BY DEF LeadsOn
  <2>1. CASE b = e
    <3>1. Home(C, m, s) = HashIndex(k, m) /\ Home(C, m, e) = Home(B, m, e)
      BY DEF Home, HashIndex
    <3>2. q[s] = q[e] + 1
      BY <1>2, <1>4
    <3> QED
      BY <1>2, <2>1, <3>1, <3>2
  <2>2. CASE b # e
    <3>1. b # s /\ C[b] = B[b]
      BY <1>3, <2>2
    <3> DEFINE n == B[b].next
    <3>2. /\ n \in m .. T - 1 /\ B[n].used
          /\ Home(B, m, n) = Home(B, m, b) /\ pos[n] = pos[b] + 1
      BY <3>1 DEF Chained, LeadsOn
    <3>3. n \in 0 .. T - 1 /\ n # s
      BY <1>1, <3>2, SMTT(30)
    <3>4. C[n].used /\ C[n].key = B[n].key
      BY <1>3, <3>2, <3>3
    <3>5. C[b].next \in m .. T - 1 /\ q[n] = q[b] + 1
      BY <1>4, <3>1, <3>2, <3>3
    <3> QED
      BY <3>1, <3>2, <3>4, <3>5 DEF Home
  <2> QED
    BY <2>1, <2>2
<1>8. LedTo(C, T, m)
  <2> SUFFICES ASSUME NEW b \in m .. T - 1, C[b].used
               PROVE  \E p \in 0 .. T - 1 : C[p].used /\ C[p].next = b
    BY DEF LedTo
  <2>1. CASE b = s
    BY <2>1
  <2>2. CASE b # s
    <3>1. b \in 0 .. T - 1 /\ B[b].used /\ b # Nil
      BY <1>1, <1>3, <2>2, SMTT(30) DEF Nil
    <3>2. PICK p \in 0 .. T - 1 : B[p].used /\ B[p].next = b
      BY <3>1 DEF Chained, LedTo
    <3>3. p # e /\ p # s
      BY <3>1, <3>2
    <3> QED
      BY <1>3, <3>2, <3>3
  <2> QED
    BY <2>1, <2>2
<1>9. Distinct(C, T)
  <2>1. \A b \in 0 .. T - 1 : b # s /\ C[b].used => B[b].used /\ C[b].key = B[b].key
    BY <1>3
  <2>2. \A b \in 0 .. T - 1 : b # s /\ C[b].used => C[b].key # k
    BY <2>1 DEF Absent
  <2>3. \A b, c \in 0 .. T - 1 : B[b].used /\ B[c].used /\ B[b].key = B[c].key => b = c
    BY DEF Chained, Distinct
  <2> SUFFICES ASSUME NEW b \in 0 .. T - 1, NEW c \in 0 .. T - 1,
                      C[b].used, C[c].used, C[b].key = C[c].key
               PROVE  b = c
    BY DEF Distinct
  <2>4. b = s <=> c = s
    BY <2>2
  <2> QED
    BY <2>1, <2>3, <2>4
<1> QED
  BY <1>1, <1>4, <1>5, <1>6, <1>7, <1>8, <1>9 DEF Chained, Linkable


\* A collision bucket is taken out of its chain; the bucket p before it takes over its
\* link, and may take over its key.
LEMMA CutOut ==
  ASSUME NEW B, NEW T, NEW m, NEW pos, Chained(B, T, m, pos),
         NEW p \in 0 .. T - 1, B[p].used, NEW j, j = B[p].next, j # Nil,
         NEW C, SameBut(C, B, T, {p, j}),
         C[p].used, C[p].next = B[j].next, C[p].key \in {B[p].key, B[j].key}, C[j] = Unused
  PROVE  Linkable(C, T, m)
<1>1. T \in Nat /\ m \in 1 .. T /\ B \in Rows(T) /\ C \in Rows(T) /\ pos \in [0 .. T - 1 -> Nat]
  BY DEF Chained, SameBut
<1>2. j \in m .. T - 1 /\ B[j].used /\ Home(B, m, j) = Home(B, m, p) /\ pos[j] = pos[p] + 1
  BY DEF Chained, LeadsOn
<1>3. j \in 0 .. T - 1 /\ j # p /\ pos[p] \in Nat
  BY <1>1, <1>2
<1>4. /\ \A b \in 0 .. T - 1 : b # p /\ b # j => C[b] = B[b]
      /\ ~C[j].used /\ C[j].next = Nil
  BY UnusedIs DEF SameBut
<1>5. \A b, c \in 0 .. T - 1 : B[b].used /\ B[c].used /\ Home(B, m, b) = Home(B, m, c) /\ pos[b] = pos[c] => b = c
  BY WalkSame
<1>6. \A b \in 0 .. T - 1 : C[b].used => B[b].used /\ b # j /\ Home(C, m, b) = Home(B, m, b)
  BY <1>2, <1>4 DEF Home
<1> DEFINE q == [b \in 0 .. T - 1 |-> IF Home(B, m, b) = Home(B, m, j) /\ pos[b] > pos[j] THEN pos[b] - 1 ELSE pos[b]]
<1>7. /\ q \in [0 .. T - 1 -> Nat]
      /\ \A b \in 0 .. T - 1 : q[b] = IF Home(B, m, b) = Home(B, m, j) /\ pos[b] > pos[j] THEN pos[b] - 1 ELSE pos[b]
  BY <1>1, <1>3, SMTT(30)
<1> HIDE DEF q
<1>8. Blank(C, T)
  BY <1>4 DEF Chained, Blank
<1>9. Homed(C, T, m, q)
  <2> SUFFICES ASSUME NEW b \in 0 .. T - 1, C[b].used
               PROVE  /\ C[b].key \in Keys
                      /\ b < m => Home(C, m, b) = b /\ q[b] = 0
                      /\ b >= m => q[b] > 0
    BY DEF Homed
  <2>1. B[b].used /\ Home(C, m, b) = Home(B, m, b)
    BY <1>6
  <2>2. /\ b < m => Home(B, m, b) = b /\ pos[b] = 0
        /\ b >= m => pos[b] > 0
        /\ pos[b] \in Nat /\ pos[j] \in Nat /\ pos[j] > 0
    BY <1>1, <1>2, <1>3, <2>1, SMTT(30) DEF Chained, Homed
  <2>3. C[b].key \in Keys
    BY <1>2, <1>3, <1>4, <1>6, <2>1, SMTT(30) DEF Chained, Homed
  <2>4. q[b] = pos[b] \/ (q[b] = pos[b] - 1 /\ pos[b] > pos[j])
    BY <1>7
  <2> QED
    BY <2>1, <2>2, <2>3, <2>4
<1>10. LeadsOn(C, T, m, q)
  <2> SUFFICES ASSUME NEW b \in 0 .. T - 1, C[b].used, C[b].next # Nil
               PROVE  /\ C[b].next \in m .. T - 1
                      /\ C[C[b].next].used
                      /\ Home(C, m, C[b].next) = Home(C, m, b)
                      /\ q[C[b].next] = q[b] + 1
    BY DEF LeadsOn
  <2> DEFINE n == C[b].next
             a == IF b = p THEN j ELSE b
  <2>1. /\ B[b].used /\ b # j /\ Home(C, m, b) = Home(B, m, b)
        /\ pos[b] \in Nat /\ pos[j] \in Nat
    BY <1>1, <1>3, <1>6
  <2>2. a \in 0 .. T - 1 /\ B[a].used /\ B[a].next = n /\ Home(B, m, a) = Home(B, m, b)
    BY <1>2, <1>3, <1>4, <2>1
  <2>3. /\ n \in m .. T - 1 /\ B[n].used
        /\ Home(B, m, n) = Home(B, m, a) /\ pos[n] = pos[a] + 1
    BY <2>2 DEF Chained, LeadsOn
  <2>4. n \in 0 .. T - 1 /\ pos[n] \in Nat /\ pos[a] \in Nat
    BY <1>1, <2>2, <2>3
  <2>5. n # j
    <3>1. CASE b = p
      BY <1>2, <1>3, <2>1, <2>3, <2>4, <3>1
    <3>2. CASE b # p
      BY <1>2, <1>3, <1>5, <2>1, <2>2, <2>3, <2>4, <3>2
    <3> QED
      BY <3>1, <3>2
  <2>6. C[n].used /\ Home(C, m, n) = Home(B, m, n)
    BY <1>4, <1>6, <2>3, <2>4, <2>5
  <2>7. q[n] = q[b] + 1
    <3> DEFINE h == Home(B, m, j)
    <3>1. /\ q[n] = IF Home(B, m, n) = h /\ pos[n] > pos[j] THEN pos[n] - 1 ELSE pos[n]
          /\ q[b] = IF Home(B, m, b) = h /\ pos[b] > pos[j] THEN pos[b] - 1 ELSE pos[b]
          /\ Home(B, m, n) = Home(B, m, b)
      BY <1>7, <2>2, <2>3, <2>4
    <3>2. /\ b = p => Home(B, m, b) = h /\ pos[n] = pos[j] + 1 /\ pos[j] = pos[b] + 1
          /\ b # p => pos[n] = pos[b] + 1
      BY <1>2, <2>2, <2>3
    <3>3. pos[b] = pos[j] => Home(B, m, b) # h
      BY <1>2, <1>3, <1>5, <2>1
    <3> HIDE DEF n, a, h
    <3>4. CASE b = p
      BY <2>1, <2>4, <3>1, <3>2, <3>4
    <3>5. CASE b # p
      BY <2>1, <2>4, <3>1, <3>2, <3>3, <3>5
    <3> QED
      BY <3>4, <3>5
  <2> QED
    BY <2>1, <2>2, <2>3, <2>6, <2>7
<1>11. LedTo(C, T, m)
  <2> SUFFICES ASSUME NEW b \in m .. T - 1, C[b].used
               PROVE  \E a \in 0 .. T - 1 : C[a].used /\ C[a].next = b
    BY DEF LedTo
  <2>1. b \in 0 .. T - 1 /\ B[b].used /\ b # j
    BY <1>1, <1>6
  <2>2. PICK a \in 0 .. T - 1 : B[a].used /\ B[a].next = b
    BY <2>1 DEF Chained, LedTo
  <2>3. CASE a = j
    BY <2>2, <2>3
  <2>4. CASE a # j
    <3>1. a # p
      BY <2>1, <2>2
    <3> QED
      BY <1>4, <2>2, <2>4, <3>1
  <2> QED
    BY <2>3, <2>4
<1>12. Distinct(C, T)
  <2> SUFFICES ASSUME NEW b \in 0 .. T - 1, NEW c \in 0 .. T - 1,
                      C[b].used, C[c].used, C[b].key = C[c].key
               PROVE  b = c
    BY DEF Distinct
  <2>1. \A x, y \in 0 .. T - 1 : B[x].used /\ B[y].used /\ B[x].key = B[y].key => x = y
    BY DEF Chained, Distinct
  <2>2. \A x \in 0 .. T - 1 : C[x].used => x # j /\ B[x].used /\ (x # p => C[x].key = B[x].key)
    BY <1>4, <1>6
  <2>3. \A x \in 0 .. T - 1 : C[x].used /\ x # p => C[x].key # C[p].key
    BY <1>2, <1>3, <2>1, <2>2
  <2>4. b = p <=> c = p
    BY <2>3
  <2> QED
    BY <2>1, <2>2, <2>4
<1> QED
  BY <1>1, <1>7, <1>8, <1>9, <1>10, <1>11, <1>12 DEF Chained, Linkable

\* A main bucket with nothing behind it is cleared.
LEMMA ClearMain ==
  ASSUME NEW B, NEW T, NEW m, NEW pos, Chained(B, T, m, pos),
         NEW i \in 0 .. m - 1, B[i].used, B[i].next = Nil,
         NEW C, SameBut(C, B, T, {i}), C[i] = Unused
  PROVE  Linkable(C, T, m)
<1>1. T \in Nat /\ m \in 1 .. T /\ C \in Rows(T) /\ pos \in [0 .. T - 1 -> Nat] /\ i \in 0 .. T - 1
  BY DEF Chained, SameBut
<1>2. /\ \A b \in 0 .. T - 1 : b # i => C[b] = B[b]
      /\ ~C[i].used
  BY UnusedIs DEF SameBut
<1>3. Blank(C, T)
  BY <1>2 DEF Chained, Blank
<1>4. Homed(C, T, m, pos)
  BY <1>2 DEF Chained, Homed, Home
<1>5. LeadsOn(C, T, m, pos)
  <2> SUFFICES ASSUME NEW b \in 0 .. T - 1, C[b].used, C[b].next # Nil
               PROVE  /\ C[b].next \in m .. T - 1
                      /\ C[C[b].next].used
                      /\ Home(C, m, C[b].next) = Home(C, m, b)
                      /\ pos[C[b].next] = pos[b] + 1
    BY DEF LeadsOn
  <2> DEFINE n == B[b].next
  <2>1. C[b] = B[b]
    BY <1>2
  <2>2. /\ n \in m .. T - 1 /\ B[n].used
        /\ Home(B, m, n) = Home(B, m, b) /\ pos[n] = pos[b] + 1
    BY <2>1 DEF Chained, LeadsOn
  <2>3. n \in 0 .. T - 1 /\ n # i
    BY <1>1, <2>2
  <2> QED
    BY <1>2, <2>1, <2>2, <2>3 DEF Home
<1>6. LedTo(C, T, m)
  <2> SUFFICES ASSUME NEW b \in m .. T - 1, C[b].used
               PROVE  \E p \in 0 .. T - 1 : C[p].used /\ C[p].next = b
    BY DEF LedTo
  <2>1. b \in 0 .. T - 1 /\ B[b].used /\ b # Nil
    BY <1>1, <1>2 DEF Nil
  <2>2. PICK p \in 0 .. T - 1 : B[p].used /\ B[p].next = b
    BY <2>1 DEF Chained, LedTo
  <2> QED
    BY <1>2, <2>1, <2>2
<1>7. Distinct(C, T)
  BY <1>2 DEF Chained, Distinct
<1> QED
  BY <1>1, <1>3, <1>4, <1>5, <1>6, <1>7 DEF Chained, Linkable

\* Only a value is changed.
LEMMA ChangeValue ==
  ASSUME NEW B, NEW T, NEW m, NEW pos, Chained(B, T, m, pos),
         NEW i \in 0 .. T - 1, B[i].used,
         NEW C, SameBut(C, B, T, {i}), C[i].used, C[i].key = B[i].key, C[i].next = B[i].next
  PROVE  Linkable(C, T, m)
<1>1. C \in Rows(T)
  BY DEF SameBut
<1>2. \A b \in 0 .. T - 1 : /\ C[b].used = B[b].used /\ C[b].key = B[b].key /\ C[b].next = B[b].next
                            /\ ~C[b].used => C[b] = B[b]
  <2> TAKE b \in 0 .. T - 1
  <2>1. B[b] \in Record /\ C[b] \in Record
    BY <1>1 DEF Chained, Rows
  <2>2. b # i => C[b] = B[b]
    BY DEF SameBut
  <2> QED
    BY <2>1, <2>2 DEF Record
<1>3. Chained(C, T, m, pos)
  <2>1. Blank(C, T)
    BY <1>2 DEF Chained, Blank
  <2>2. Homed(C, T, m, pos)
    BY <1>2 DEF Chained, Homed, Home
  <2>3. LeadsOn(C, T, m, pos)
    <3> SUFFICES ASSUME NEW b \in 0 .. T - 1, C[b].used, C[b].next # Nil
                 PROVE  /\ C[b].next \in m .. T - 1
                        /\ C[C[b].next].used
                        /\ Home(C, m, C[b].next) = Home(C, m, b)
                        /\ pos[C[b].next] = pos[b] + 1
      BY DEF LeadsOn
    <3> DEFINE n == B[b].next
    <3>1. /\ n \in m .. T - 1 /\ B[n].used /\ C[b].next = n
          /\ Home(B, m, n) = Home(B, m, b) /\ pos[n] = pos[b] + 1
      BY <1>2 DEF Chained, LeadsOn
    <3>2. n \in 0 .. T - 1
      BY <3>1 DEF Chained
    <3>3. C[n].used /\ C[n].key = B[n].key /\ C[b].key = B[b].key
      BY <1>2, <3>1, <3>2
    <3> QED
      BY <3>1, <3>3 DEF Home
  <2>4. LedTo(C, T, m)
    <3> SUFFICES ASSUME NEW b \in m .. T - 1, C[b].used
                 PROVE  \E p \in 0 .. T - 1 : C[p].used /\ C[p].next = b
      BY DEF LedTo
    <3>1. b \in 0 .. T - 1
      BY DEF Chained
    <3>2. PICK p \in 0 .. T - 1 : B[p].used /\ B[p].next = b
      BY <1>2, <3>1 DEF Chained, LedTo
    <3> QED
      BY <1>2, <3>2
  <2>5. Distinct(C, T)
    BY <1>2 DEF Chained, Distinct
  <2> QED
    BY <1>1, <2>1, <2>2, <2>3, <2>4, <2>5 DEF Chained
<1> QED
  BY <1>3 DEF Linkable


-------------------------------------------------------------------------------
(* Tables *)

Tables ==
  [bucket : UNION {Rows(T) : T \in Nat}, mainCap : Nat, nextFree : Nat, holes : Seq(Nat), count : Int]

\* the holes are free collision buckets, each queued once
Pooled(B, T, m, h) ==
  /\ \A x \in 1 .. Len(h) : h[x] \in m .. T - 1 /\ ~B[h[x]].used
  /\ \A x, y \in 1 .. Len(h) : h[x] = h[y] => x = y

Good(t, T) ==
  /\ t \in Tables
  /\ Linkable(t.bucket, T, t.mainCap)
  /\ Pooled(t.bucket, T, t.mainCap, t.holes)
  /\ t.nextFree \in 0 .. T - t.mainCap

LEMMA GoodIs ==
  ASSUME NEW t, NEW T, Good(t, T)
  PROVE  /\ T \in Nat /\ t.mainCap \in 1 .. T /\ t.bucket \in Rows(T)
         /\ DOMAIN t.bucket = 0 .. T - 1 /\ Total(t) = T
         /\ t.nextFree \in 0 .. T - t.mainCap /\ t.holes \in Seq(Nat) /\ t.count \in Int
<1>1. PICK pos : Chained(t.bucket, T, t.mainCap, pos)
  BY DEF Good, Linkable
<1>2. T \in Nat /\ t.mainCap \in 1 .. T /\ t.bucket \in Rows(T)
  BY <1>1 DEF Chained
<1> QED
  BY <1>2, TotalIs DEF Good, Tables

\* what an allocation from t in a block of T buckets gives
AllocatedFrom(t, T, a) ==
  /\ a.table \in Tables
  /\ a.table.bucket = t.bucket /\ a.table.mainCap = t.mainCap /\ a.table.count = t.count
  /\ t.holes = <<>> => a.table.holes = <<>>
  /\ a.slot = Nil =>
       /\ t.holes = <<>>
       /\ \A b \in t.mainCap + t.nextFree .. T - 1 : t.bucket[b].used
  /\ a.slot # Nil =>
       /\ a.slot \in t.mainCap .. T - 1 /\ ~t.bucket[a.slot].used
       /\ Pooled(t.bucket, T, t.mainCap, a.table.holes)
       /\ \A x \in 1 .. Len(a.table.holes) : a.table.holes[x] # a.slot
       /\ a.table.nextFree \in 0 .. T - t.mainCap
       /\ Lost(a.table) \ {a.slot} \subseteq Lost(t)

LEMMA AllocateGives ==
  ASSUME NEW t, NEW T, Good(t, T)
  PROVE  AllocatedFrom(t, T, Allocate(t))
<1> DEFINE a == Allocate(t)
           B == t.bucket
           m == t.mainCap
           f == t.nextFree
           h == t.holes
<1>1. /\ T \in Nat /\ m \in 1 .. T /\ B \in Rows(T) /\ Total(t) = T
      /\ f \in 0 .. T - m /\ h \in Seq(Nat) /\ t \in Tables
  BY GoodIs DEF Good
<1>2. CollisionCap(t) = T - m
  BY <1>1 DEF CollisionCap
<1>3. Pooled(B, T, m, h)
  BY DEF Good
<1>4. CASE h # <<>>
  <2> DEFINE g == Tail(h)
             s == Head(h)
  <2>1. a.slot = s /\ a.table = [t EXCEPT !.holes = g]
    BY <1>4 DEF Allocate
  <2>2. /\ g \in Seq(Nat) /\ Len(g) = Len(h) - 1 /\ \A x \in 1 .. Len(g) : g[x] = h[x + 1]
        /\ Len(h) \in Nat \ {0}
    BY <1>1, <1>4, HeadTailProperties, EmptySeq
  <2>3. s = h[1]
    BY <1>1, <1>4, <2>2
  <2> HIDE DEF g, s
  <2>4. /\ a.table \in Tables /\ a.table.bucket = B /\ a.table.mainCap = m /\ a.table.count = t.count
        /\ a.table.holes = g /\ a.table.nextFree = f
    BY <1>1, <2>1, <2>2 DEF Tables
  <2>5. s \in m .. T - 1 /\ ~B[s].used /\ s # Nil
    BY <1>1, <1>3, <2>2, <2>3 DEF Pooled, Nil
  <2>6. Pooled(B, T, m, g) /\ \A x \in 1 .. Len(g) : g[x] # s
    <3>1. \A x \in 1 .. Len(g) : x + 1 \in 1 .. Len(h) /\ g[x] = h[x + 1] /\ x + 1 # 1 /\ 1 \in 1 .. Len(h)
      BY <2>2
    <3> QED
      BY <1>3, <2>2, <2>3, <3>1, SMTT(30) DEF Pooled
  <2>7. Lost(a.table) \ {s} \subseteq Lost(t)
    <3>1. \A x \in Range(h) : x = s \/ x \in Range(g)
      <4> SUFFICES ASSUME NEW x \in Range(h), x # s PROVE x \in Range(g)
        OBVIOUS
      <4>1. PICK y \in 1 .. Len(h) : h[y] = x
        BY <1>1, LenProperties DEF Range
      <4>2. y # 1 /\ y - 1 \in 1 .. Len(g) /\ (y - 1) + 1 = y
        BY <2>2, <2>3, <4>1
      <4>3. g[y - 1] = x
        BY <2>2, <4>1, <4>2
      <4> QED
        BY <2>2, <4>2, <4>3, LenProperties DEF Range
    <3> QED
      BY <2>4, <3>1 DEF Lost
  <2> QED
    BY <1>1, <1>4, <2>1, <2>4, <2>5, <2>6, <2>7 DEF AllocatedFrom
<1>5. CASE h = <<>>
  <2> DEFINE free == {n \in f .. CollisionCap(t) - 1 : ~B[m + n].used}
  <2>1. CASE free = {}
    <3>1. a.slot = Nil /\ a.table = [t EXCEPT !.nextFree = CollisionCap(t)]
      BY <1>5, <2>1 DEF Allocate
    <3>2. CollisionCap(t) \in Nat
      BY <1>1, <1>2
    <3>3. /\ a.table \in Tables /\ a.table.bucket = B /\ a.table.mainCap = m /\ a.table.count = t.count
          /\ a.table.holes = h
      BY <1>1, <3>1, <3>2 DEF Tables
    <3>4. \A b \in m + f .. T - 1 : B[b].used
      <4> TAKE b \in m + f .. T - 1
      <4>1. b - m \in f .. CollisionCap(t) - 1 /\ m + (b - m) = b
        BY <1>1, <1>2
      <4> QED
        BY <2>1, <4>1
    <3> QED
      BY <1>5, <3>1, <3>3, <3>4 DEF AllocatedFrom
  <2>2. CASE free # {}
    <3> DEFINE n == Min(free)
    <3>1. free \subseteq Nat
      BY <1>1, <1>2
    <3>2. n \in free /\ \A x \in free : n <= x
      <4> HIDE DEF free
      <4>1. \E x \in free : \A y \in free : x <= y
        BY <2>2, <3>1, NatMin
      <4> QED
        BY <4>1 DEF Min
    <3>3. a.slot = m + n /\ a.table = [t EXCEPT !.nextFree = n]
      BY <1>5, <2>2 DEF Allocate
    <3>4. n \in f .. (T - m) - 1 /\ ~B[m + n].used
      BY <1>2, <3>2
    <3>5. \A b \in m + f .. m + n - 1 : B[b].used
      <4> TAKE b \in m + f .. m + n - 1
      <4>1. b - m \in f .. CollisionCap(t) - 1 /\ m + (b - m) = b /\ ~(n <= b - m)
        BY <1>1, <1>2, <3>4, SMTT(30)
      <4>2. b - m \notin free
        BY <3>2, <4>1
      <4> QED
        BY <4>1, <4>2
    <3> HIDE DEF n
    <3>6. /\ a.table \in Tables /\ a.table.bucket = B /\ a.table.mainCap = m /\ a.table.count = t.count
          /\ a.table.holes = h /\ a.table.nextFree = n
      <4>1. n \in Nat
        BY <1>1, <3>4
      <4> QED
        BY <1>1, <3>3, <4>1 DEF Tables
    <3>7. a.slot \in m .. T - 1 /\ ~B[a.slot].used /\ a.slot # Nil /\ n \in 0 .. T - m
      BY <1>1, <3>3, <3>4 DEF Nil
    <3>8. Len(h) = 0
      BY <1>5
    <3>9. Lost(a.table) \subseteq Lost(t)
      <4> SUFFICES ASSUME NEW b \in Lost(a.table) PROVE b \in Lost(t)
        OBVIOUS
      <4>1. b \in m .. m + n - 1 /\ ~B[b].used /\ b \notin Range(h)
        BY <3>6 DEF Lost
      <4>2. b \in m .. m + f - 1
        BY <1>1, <3>4, <3>5, <4>1, SMTT(30)
      <4> QED
        BY <4>1, <4>2 DEF Lost
    <3> QED
      BY <1>3, <1>5, <3>6, <3>7, <3>8, <3>9 DEF AllocatedFrom
  <2> QED
    BY <2>1, <2>2
<1> QED
  BY <1>4, <1>5


SameEntry(x, y) == x.used = y.used /\ x.key = y.key /\ x.value = y.value

\* u is t with one more entry, in a bucket that was not in use
Placed(t, T, k, v, u) ==
  /\ Good(u, T)
  /\ u.mainCap = t.mainCap /\ u.count = t.count
  /\ t.holes = <<>> => u.holes = <<>>
  /\ Lost(u) \subseteq Lost(t)
  /\ \E s \in 0 .. T - 1 :
       /\ ~t.bucket[s].used
       /\ u.bucket[s].used /\ u.bucket[s].key = k /\ u.bucket[s].value = v
       /\ \A b \in 0 .. T - 1 : b # s => SameEntry(u.bucket[b], t.bucket[b])

IsFilled(t, T, i, k, v, u) ==
  /\ u \in Tables /\ u.mainCap = t.mainCap /\ u.nextFree = t.nextFree /\ u.holes = t.holes /\ u.count = t.count
  /\ SameBut(u.bucket, t.bucket, T, {i}) /\ u.bucket[i] = Holding(k, v, Nil)

IsLinked(t, T, e, s, k, v, u) ==
  /\ u \in Tables /\ u.mainCap = t.mainCap /\ u.nextFree = t.nextFree /\ u.holes = t.holes /\ u.count = t.count
  /\ SameBut(u.bucket, t.bucket, T, {e, s})
  /\ SameEntry(u.bucket[e], t.bucket[e]) /\ u.bucket[e].next = s
  /\ u.bucket[s] = Holding(k, v, Nil)

LEMMA RowsInTables ==
  ASSUME NEW t \in Tables, NEW T \in Nat, NEW C \in Rows(T)
  PROVE  /\ [t EXCEPT !.bucket = C] \in Tables
         /\ [t EXCEPT !.bucket = C].bucket = C
         /\ [t EXCEPT !.bucket = C].mainCap = t.mainCap
         /\ [t EXCEPT !.bucket = C].nextFree = t.nextFree
         /\ [t EXCEPT !.bucket = C].holes = t.holes
         /\ [t EXCEPT !.bucket = C].count = t.count
<1>1. C \in UNION {Rows(n) : n \in Nat}
  OBVIOUS
<1> QED
  BY <1>1 DEF Tables

LEMMA FilledIs ==
  ASSUME NEW t \in Tables, NEW T \in Nat, t.bucket \in Rows(T), NEW i \in 0 .. T - 1,
         t.bucket[i].next = Nil, NEW k \in Keys, NEW v \in Values
  PROVE  IsFilled(t, T, i, k, v, [t EXCEPT !.bucket[i] = Holding(k, v, @.next)])
<1> DEFINE B == t.bucket
           r == Holding(k, v, Nil)
           C == [B EXCEPT ![i] = r]
           u == [t EXCEPT !.bucket[i] = Holding(k, v, @.next)]
<1>1. u = [t EXCEPT !.bucket = C]
  BY DEF Tables
<1>2. r \in Record
  BY HoldingIs DEF Nil
<1> HIDE DEF r
<1>3. C \in Rows(T) /\ C[i] = r /\ \A b \in 0 .. T - 1 : b # i => C[b] = B[b]
  BY <1>2 DEF Rows
<1> HIDE DEF C, u
<1>4. /\ u \in Tables /\ u.mainCap = t.mainCap /\ u.nextFree = t.nextFree /\ u.holes = t.holes
      /\ u.count = t.count /\ u.bucket = C
  BY <1>1, <1>3, RowsInTables
<1>5. SameBut(u.bucket, B, T, {i}) /\ u.bucket[i] = Holding(k, v, Nil)
  BY <1>3, <1>4 DEF SameBut, r
<1>6. IsFilled(t, T, i, k, v, u)
  BY <1>4, <1>5 DEF IsFilled
<1> QED
  BY <1>6 DEF u

LEMMA LinkedIs ==
  ASSUME NEW t \in Tables, NEW T \in Nat, t.bucket \in Rows(T), NEW e \in 0 .. T - 1, NEW s \in 0 .. T - 1,
         e # s, t.bucket[s].next = Nil, NEW k \in Keys, NEW v \in Values
  PROVE  IsLinked(t, T, e, s, k, v, Linked(t, e, s, k, v))
<1> DEFINE B == t.bucket
           r == Holding(k, v, Nil)
           x == [B[e] EXCEPT !.next = s]
           C == [[B EXCEPT ![e] = x] EXCEPT ![s] = r]
           u == Linked(t, e, s, k, v)
<1>1. u = [t EXCEPT !.bucket = C]
  <2>1. [B EXCEPT ![e] = x][s] = B[s]
    BY DEF Rows
  <2> QED
    BY <2>1 DEF Tables, Linked
<1>2. r \in Record
  BY HoldingIs DEF Nil
<1>3. x \in Record /\ SameEntry(x, B[e]) /\ x.next = s
  <2>1. B[e] \in Record
    BY DEF Rows
  <2> QED
    BY <2>1 DEF Record, SameEntry
<1> HIDE DEF r, x
<1>4. /\ C \in Rows(T) /\ C[s] = r /\ C[e] = x
      /\ \A b \in 0 .. T - 1 : b # s /\ b # e => C[b] = B[b]
  BY <1>2, <1>3 DEF Rows
<1> HIDE DEF C, u
<1> QED
  BY <1>1, <1>3, <1>4, RowsInTables DEF IsLinked, SameBut, r, u

\* The pool is unharmed while no hole is put to use.
LEMMA PoolKept ==
  ASSUME NEW B, NEW T, NEW m, NEW h, Pooled(B, T, m, h), NEW C,
         \A x \in 1 .. Len(h) : ~C[h[x]].used
  PROVE  Pooled(C, T, m, h)
  BY DEF Pooled

\* Place puts an entry for a key that is absent, if there is room.
LEMMA PlaceGives ==
  ASSUME NEW t, NEW T, Good(t, T), NEW k \in Keys, NEW v \in Values,
         Absent(t.bucket, T, k), HasRoom(t, k)
  PROVE  Placed(t, T, k, v, Place(t, k, v))
<1> DEFINE B == t.bucket
           m == t.mainCap
           i == Index(t, k)
           a == Allocate(t)
           u == Place(t, k, v)
           C == u.bucket
           r == Holding(k, v, Nil)
<1>1. /\ T \in Nat /\ m \in 1 .. T /\ B \in Rows(T) /\ t \in Tables
      /\ t.nextFree \in 0 .. T - m /\ t.holes \in Seq(Nat)
  BY GoodIs DEF Good
<1>2. i = HashIndex(k, m) /\ i \in 0 .. m - 1 /\ i \in 0 .. T - 1
  <2>1. i = HashIndex(k, m)
    BY DEF Index, HashIndex
  <2>2. i \in 0 .. m - 1
    BY <1>1, <2>1, HashIndexIn
  <2> QED
    BY <1>1, <2>1, <2>2
<1>3. PICK pos : Chained(B, T, m, pos)
  BY DEF Good, Linkable
<1>4. Pooled(B, T, m, t.holes)
  BY DEF Good
<1>5. \A b \in 0 .. T - 1 : ~B[b].used => B[b].next = Nil
  BY <1>3, UnusedIs DEF Chained, Blank
<1>6. /\ r.used /\ r.key = k /\ r.value = v /\ r.next = Nil
  BY HoldingIs DEF Nil
<1>7. CASE ~B[i].used
  <2>1. u = [t EXCEPT !.bucket[i] = Holding(k, v, @.next)]
    BY <1>7 DEF Place
  <2>2. IsFilled(t, T, i, k, v, u)
    BY <1>1, <1>2, <1>5, <1>7, <2>1, FilledIs
  <2>3. /\ u \in Tables /\ u.mainCap = m /\ u.nextFree = t.nextFree /\ u.holes = t.holes /\ u.count = t.count
        /\ SameBut(C, B, T, {i}) /\ C[i] = r
    BY <2>2 DEF IsFilled
  <2> HIDE DEF u, r, i
  <2>4. Linkable(C, T, m)
    BY <1>2, <1>3, <1>6, <1>7, <2>3, FillMain
  <2>5. \A b \in 0 .. T - 1 : b # i => C[b] = B[b]
    BY <2>3 DEF SameBut
  <2>6. Pooled(C, T, m, t.holes)
    <3>1. \A x \in 1 .. Len(t.holes) : t.holes[x] \in m .. T - 1 /\ ~B[t.holes[x]].used
      BY <1>4 DEF Pooled
    <3>2. \A b \in m .. T - 1 : b # i /\ b \in 0 .. T - 1
      BY <1>1, <1>2
    <3>3. \A x \in 1 .. Len(t.holes) : ~C[t.holes[x]].used
      BY <2>5, <3>1, <3>2
    <3> QED
      BY <1>4, <3>3, PoolKept
  <2>7. Good(u, T)
    BY <1>1, <2>3, <2>4, <2>6 DEF Good
  <2>8. Lost(u) \subseteq Lost(t)
    <3> SUFFICES ASSUME NEW b \in Lost(u) PROVE b \in Lost(t)
      OBVIOUS
    <3>1. b \in m .. m + t.nextFree - 1 /\ ~C[b].used /\ b \notin Range(t.holes)
      BY <2>3 DEF Lost
    <3>2. b # i /\ b \in 0 .. T - 1
      BY <1>1, <1>2, <3>1
    <3> QED
      BY <2>5, <3>1, <3>2 DEF Lost
  <2>9. \A b \in 0 .. T - 1 : b # i => SameEntry(C[b], B[b])
    BY <2>5 DEF SameEntry
  <2>10. Placed(t, T, k, v, u)
    BY <1>2, <1>6, <1>7, <2>3, <2>7, <2>8, <2>9 DEF Placed
  <2> QED
    BY <2>10 DEF u
<1>8. CASE B[i].used
  <2> DEFINE s == a.slot
             e == ChainEnd(t, i)
             w == a.table
  <2>1. u = Linked(w, e, s, k, v)
    BY <1>8 DEF Place
  <2>2. s # Nil
    BY <1>8 DEF HasRoom
  <2>3. AllocatedFrom(t, T, a)
    BY AllocateGives
  <2>4. /\ e \in 0 .. T - 1 /\ B[e].used /\ B[e].next = Nil /\ Home(B, m, e) = i
    BY <1>2, <1>3, <1>8, EndIs
  <2>5. /\ w \in Tables /\ w.bucket = B /\ w.mainCap = m /\ w.count = t.count
        /\ t.holes = <<>> => w.holes = <<>>
        /\ s \in m .. T - 1 /\ ~B[s].used
        /\ Pooled(B, T, m, w.holes)
        /\ \A x \in 1 .. Len(w.holes) : w.holes[x] # s
        /\ w.nextFree \in 0 .. T - m
        /\ Lost(w) \ {s} \subseteq Lost(t)
    BY <2>2, <2>3 DEF AllocatedFrom
  <2> HIDE DEF s, e, w, a
  <2>6. s \in 0 .. T - 1 /\ e # s
    BY <1>1, <2>4, <2>5
  <2>7. IsLinked(w, T, e, s, k, v, u)
    BY <1>1, <1>5, <2>1, <2>4, <2>5, <2>6, LinkedIs
  <2> HIDE DEF u
  <2>8. /\ u \in Tables /\ u.mainCap = m /\ u.nextFree = w.nextFree /\ u.holes = w.holes /\ u.count = t.count
        /\ SameBut(C, B, T, {e, s}) /\ SameEntry(C[e], B[e]) /\ C[e].next = s /\ C[s] = r
    BY <2>5, <2>7 DEF IsLinked
  <2> HIDE DEF r, i
  <2>9. Linkable(C, T, m)
    <3>1. C[e].used /\ C[e].key = B[e].key /\ C[s].used /\ C[s].key = k /\ C[s].next = Nil
      BY <1>6, <2>4, <2>8 DEF SameEntry
    <3> QED
      BY <1>2, <1>3, <2>4, <2>5, <2>8, <3>1, LinkBehind
  <2>10. \A b \in 0 .. T - 1 : b # e /\ b # s => C[b] = B[b]
    BY <2>8 DEF SameBut
  <2>11. \A b \in 0 .. T - 1 : b # s => SameEntry(C[b], B[b])
    BY <2>8, <2>10 DEF SameEntry
  <2>12. Pooled(C, T, m, w.holes)
    <3>1. \A x \in 1 .. Len(w.holes) : w.holes[x] \in m .. T - 1 /\ ~B[w.holes[x]].used /\ w.holes[x] # s
      BY <2>5 DEF Pooled
    <3>2. \A b \in m .. T - 1 : b \in 0 .. T - 1
      BY <1>1
    <3>3. \A x \in 1 .. Len(w.holes) : ~C[w.holes[x]].used
      BY <2>11, <3>1, <3>2 DEF SameEntry
    <3> QED
      BY <2>5, <3>3, PoolKept
  <2>13. Good(u, T)
    BY <2>5, <2>8, <2>9, <2>12 DEF Good
  <2>14. Lost(u) \subseteq Lost(t)
    <3> SUFFICES ASSUME NEW b \in Lost(u) PROVE b \in Lost(t)
      OBVIOUS
    <3>1. b \in m .. m + w.nextFree - 1 /\ ~C[b].used /\ b \notin Range(w.holes)
      BY <2>8 DEF Lost
    <3>2. b # s /\ b \in 0 .. T - 1
      BY <1>1, <1>6, <2>5, <2>8, <3>1
    <3>3. ~B[b].used
      BY <2>11, <3>1, <3>2 DEF SameEntry
    <3>4. b \in Lost(w)
      BY <2>5, <3>1, <3>3 DEF Lost
    <3> QED
      BY <2>5, <3>2, <3>4
  <2>15. Placed(t, T, k, v, u)
    BY <1>6, <2>5, <2>6, <2>8, <2>11, <2>13, <2>14 DEF Placed
  <2> QED
    BY <2>15 DEF u
<1> QED
  BY <1>7, <1>8


-------------------------------------------------------------------------------
(* Capacities *)

\* the powers of two
Doubling(S) == 1 \in S /\ \A x \in S : 2 * x \in S
Powers == {p \in Nat : \A S \in SUBSET Nat : Doubling(S) => p \in S}

LEMMA PowersDouble == Doubling(Powers) /\ Powers \subseteq Nat
<1>1. 1 \in Powers
  BY DEF Powers, Doubling
<1>2. ASSUME NEW x \in Powers PROVE 2 * x \in Powers
  BY DEF Powers, Doubling
<1> QED
  BY <1>1, <1>2 DEF Doubling, Powers

LEMMA PowersLeast ==
  ASSUME NEW S \in SUBSET Nat, Doubling(S)
  PROVE  Powers \subseteq S
  BY DEF Powers

LEMMA PowersSplit ==
  \A p \in Powers : p \in Nat \ {0} /\ (p = 1 \/ \E q \in Powers : p = 2 * q)
<1> DEFINE S == {p \in Powers : p # 0 /\ (p = 1 \/ \E q \in Powers : p = 2 * q)}
<1>1. Doubling(Powers) /\ Powers \subseteq Nat
  BY PowersDouble
<1>2. Doubling(S) /\ S \in SUBSET Nat
  <2>1. 1 \in S
    BY <1>1 DEF Doubling
  <2>2. ASSUME NEW x \in S PROVE 2 * x \in S
    <3>1. x \in Powers /\ x \in Nat /\ x # 0 /\ 2 * x \in Powers
      BY <1>1 DEF Doubling
    <3> QED
      BY <3>1
  <2> HIDE DEF S
  <2> QED
    BY <1>1, <2>1, <2>2 DEF Doubling, S
<1> HIDE DEF S
<1>3. Powers \subseteq S
  BY <1>2, PowersLeast
<1> QED
  BY <1>1, <1>3 DEF S

\* Between two powers of two lies a factor of two.
LEMMA PowersApart ==
  \A m \in Powers : \A p \in Powers : p < m => 2 * p <= m
<1> DEFINE S == {m \in Powers : \A p \in Powers : p < m => 2 * p <= m}
<1>1. Doubling(Powers) /\ Powers \subseteq Nat
  BY PowersDouble
<1>2. Doubling(S) /\ S \in SUBSET Nat
  <2>1. 1 \in S
    <3>1. \A p \in Powers : ~(p < 1)
      BY PowersSplit
    <3> QED
      BY <1>1, <3>1 DEF Doubling
  <2>2. ASSUME NEW x \in S PROVE 2 * x \in S
    <3>1. x \in Powers /\ x \in Nat \ {0} /\ 2 * x \in Powers
      BY <1>1, PowersSplit DEF Doubling
    <3>2. ASSUME NEW p \in Powers, p < 2 * x PROVE 2 * p <= 2 * x
      <4>1. CASE p = 1
        BY <3>1, <4>1
      <4>2. CASE p # 1
        <5>1. PICK q \in Powers : p = 2 * q
          BY <4>2, PowersSplit
        <5>2. q \in Nat /\ q < x
          BY <1>1, <3>1, <3>2, <5>1
        <5>3. 2 * q <= x
          BY <5>2
        <5> QED
          BY <3>1, <5>1, <5>2, <5>3
      <4> QED
        BY <4>1, <4>2
    <3> QED
      BY <3>1, <3>2
  <2> HIDE DEF S
  <2> QED
    BY <1>1, <2>1, <2>2 DEF Doubling, S
<1> HIDE DEF S
<1>3. Powers \subseteq S
  BY <1>2, PowersLeast
<1> QED
  BY <1>3 DEF S

\* The loop of compute_real_capacities ends with a power of two that is large enough.
LEMMA MainForIs ==
  ASSUME NEW want \in Nat
  PROVE  MainFor(want) \in Powers /\ want <= 5 * MainFor(want)
<1> DEFINE step == [n \in 1 .. want |-> [x \in Powers |-> Doubled(x, want)]]
           IsDoubled(f) == f = [n \in 0 .. want |-> IF n = 0 THEN 1 ELSE Doubled(f[n - 1], want)]
           d == CHOOSE f : IsDoubled(f)
<1>1. 1 \in Powers /\ (\A x \in Powers : 2 * x \in Powers) /\ Powers \subseteq Nat
  BY PowersDouble DEF Doubling
<1>2. MainFor(want) = d[want]
  BY DEF MainFor
<1>3. \A x \in Powers : Doubled(x, want) = (IF 5 * x < want THEN 2 * x ELSE x) /\ Doubled(x, want) \in Powers
  BY <1>1 DEF Doubled, Ratio
<1>4. step \in [1 .. want -> [Powers -> Powers]]
  BY <1>3
<1>5. \A n \in 1 .. want : \A x \in Powers : step[n][x] = Doubled(x, want)
  OBVIOUS
<1> HIDE DEF step
<1>6. PICK f \in [0 .. want -> Powers] : f = [n \in 0 .. want |-> IF n = 0 THEN 1 ELSE step[n][f[n - 1]]]
  <2>1. StepsUpTo(want, Powers, 1, step)
    BY <1>1, <1>4, BoundedRecursion
  <2> QED
    BY <2>1 DEF StepsUpTo
<1>7. IsDoubled(f)
  <2>1. \A n \in 0 .. want : f[n] = IF n = 0 THEN 1 ELSE Doubled(f[n - 1], want)
    <3> TAKE n \in 0 .. want
    <3>1. n = 0 \/ (n \in 1 .. want /\ n - 1 \in 0 .. want)
      OBVIOUS
    <3> QED
      BY <1>5, <1>6, <3>1
  <2> QED
    BY <1>6, <2>1
<1>8. IsDoubled(d)
  BY <1>7
<1> HIDE DEF d
<1>9. d[0] = 1 /\ \A n \in 1 .. want : d[n] = Doubled(d[n - 1], want)
  BY <1>8
<1> HIDE DEF IsDoubled
<1> DEFINE S == {n \in 0 .. want : d[n] \in Powers /\ (want <= 5 * d[n] \/ n < d[n])}
<1>10. 0 .. want \subseteq S
  <2>1. 0 \in S
    BY <1>1, <1>9
  <2>2. ASSUME NEW n \in 1 .. want, n - 1 \in S PROVE n \in S
    <3> DEFINE x == d[n - 1]
               y == d[n]
    <3>1. x \in Powers /\ x \in Nat /\ (want <= 5 * x \/ n - 1 < x)
      BY <1>1, <2>2
    <3>2. y = (IF 5 * x < want THEN 2 * x ELSE x) /\ y \in Powers
      BY <1>3, <1>9, <3>1
    <3> HIDE DEF x, y
    <3>3. want <= 5 * y \/ n < y
      BY <3>1, <3>2
    <3> QED
      BY <3>2, <3>3 DEF y
  <2> HIDE DEF S
  <2> QED
    BY <2>1, <2>2, BoundedInduction
<1>11. want \in S
  BY <1>10
<1> DEFINE y == d[want]
<1>12. y \in Powers /\ y \in Nat /\ (want <= 5 * y \/ want < y)
  BY <1>1, <1>11
<1> HIDE DEF y
<1>13. want <= 5 * y
  BY <1>12
<1> QED
  BY <1>2, <1>12, <1>13 DEF y

\* a block from compute_real_capacities, or the one of the default constructor
Sized(T) == \E p \in Powers : T = 5 * p

\* A rehash makes room for more than every bucket of the old block.
LEMMA MainForGrows ==
  ASSUME NEW T, Sized(T), NEW want \in Nat, T < want
  PROVE  /\ MainFor(want) \in Powers /\ MainFor(want) \in Nat \ {0} /\ T \in Nat \ {0}
         /\ T < Ratio * MainFor(want)
<1> DEFINE m == MainFor(want)
<1>1. PICK p \in Powers : T = 5 * p
  BY DEF Sized
<1>2. m \in Powers /\ want <= 5 * m
  BY MainForIs
<1>3. p \in Nat \ {0} /\ m \in Nat \ {0}
  BY <1>2, PowersSplit
<1> HIDE DEF m
<1>4. p < m
  BY <1>1, <1>2, <1>3
<1>5. 2 * p <= m
  BY <1>2, <1>4, PowersApart
<1>6. T < 4 * m
  BY <1>1, <1>3, <1>5
<1> QED
  BY <1>1, <1>2, <1>3, <1>6 DEF m, Ratio


-------------------------------------------------------------------------------
(* Entries *)

Maps(B, T, k, v) == \E b \in 0 .. T - 1 : B[b].used /\ B[b].key = k /\ B[b].value = v
KeysIn(B, T) == {B[b].key : b \in {x \in 0 .. T - 1 : B[x].used}}

Counted(t, T) == t.count = Cardinality(KeysIn(t.bucket, T))

\* the inductive invariant, of a table in a block of T buckets
Sound(t, T) == Good(t, T) /\ Sized(T) /\ Counted(t, T)

\* There are as many keys as buckets in use.
LEMMA KeysCounted ==
  ASSUME NEW B, NEW T, NEW m, Linkable(B, T, m)
  PROVE  /\ IsFiniteSet(KeysIn(B, T)) /\ Cardinality(KeysIn(B, T)) \in Nat
         /\ Cardinality(KeysIn(B, T)) <= T
         /\ KeysIn(B, T) \subseteq Keys
         /\ \A S \in SUBSET {x \in 0 .. T - 1 : B[x].used} : Cardinality(S) <= Cardinality(KeysIn(B, T))
<1> DEFINE U == {x \in 0 .. T - 1 : B[x].used}
           K == KeysIn(B, T)
           f == [b \in U |-> B[b].key]
<1>1. PICK pos : Chained(B, T, m, pos)
  BY DEF Linkable
<1>2. T \in Nat /\ \A b, c \in U : B[b].key = B[c].key => b = c
  BY <1>1 DEF Chained, Distinct
<1>3. IsFiniteSet(0 .. T - 1) /\ Cardinality(0 .. T - 1) = T
  <2>1. 0 \in Int /\ T - 1 \in Int
    BY <1>2
  <2>2. IsFiniteSet(0 .. T - 1) /\ Cardinality(0 .. T - 1) = IF 0 > T - 1 THEN 0 ELSE (T - 1) - 0 + 1
    BY <2>1, FS_Interval
  <2> QED
    BY <1>2, <2>2
<1>4. IsFiniteSet(U) /\ Cardinality(U) <= T /\ Cardinality(U) \in Nat
  <2>1. U \in SUBSET (0 .. T - 1)
    OBVIOUS
  <2> HIDE DEF U
  <2> QED
    BY <1>3, <2>1, FS_Subset, FS_CardinalityType
<1>5. f \in Surjection(U, K)
  <2>1. K = {B[b].key : b \in U}
    BY DEF KeysIn
  <2> HIDE DEF U, K
  <2>2. f \in [U -> K] /\ \A k \in K : \E b \in U : f[b] = k
    BY <2>1
  <2> HIDE DEF f
  <2> QED
    BY <2>2 DEF Surjection
<1>6. IsFiniteSet(K) /\ Cardinality(K) <= Cardinality(U)
  <2> HIDE DEF U, K, f
  <2> QED
    BY <1>4, <1>5, FS_Surjection
<1>7. Cardinality(K) \in Nat
  BY <1>6, FS_CardinalityType
<1>8. ASSUME NEW S \in SUBSET U PROVE Cardinality(S) <= Cardinality(K)
  <2> DEFINE g == [b \in S |-> B[b].key]
  <2>1. g \in [S -> K] /\ \A b, c \in S : g[b] = g[c] => b = c
    BY <1>2 DEF KeysIn
  <2> HIDE DEF g, K
  <2>2. g \in Injection(S, K)
    BY <2>1 DEF Injection, IsInjective
  <2> QED
    BY <1>6, <2>2, FS_Injection
<1>9. K \subseteq Keys
  BY <1>1 DEF KeysIn, Chained, Homed
<1> HIDE DEF K
<1>10. Cardinality(K) <= T
  BY <1>2, <1>4, <1>6, <1>7
<1> QED
  BY <1>6, <1>7, <1>8, <1>9, <1>10 DEF K

\* The keys follow from the entries.
LEMMA KeysMapped ==
  ASSUME NEW B, NEW T, NEW k
  PROVE  k \in KeysIn(B, T) <=> \E v : Maps(B, T, k, v)
  BY DEF KeysIn, Maps

\* No free bucket of the collision memory is lost or waits in the pool, as after a rehash.
Compact(t) == t.holes = <<>> /\ Lost(t) = {}

\* A compact table has room while it has fewer keys than collision buckets.
LEMMA CompactHasRoom ==
  ASSUME NEW t, NEW T, Good(t, T), Compact(t), Cardinality(KeysIn(t.bucket, T)) < T - t.mainCap, NEW k
  PROVE  HasRoom(t, k)
<1> DEFINE B == t.bucket
           m == t.mainCap
           f == t.nextFree
<1> SUFFICES ASSUME Allocate(t).slot = Nil PROVE FALSE
  BY DEF HasRoom
<1>1. T \in Nat /\ m \in 1 .. T /\ f \in 0 .. T - m
  BY GoodIs
<1>2. \A b \in m + f .. T - 1 : B[b].used
  BY AllocateGives DEF AllocatedFrom
<1>3. \A b \in m .. m + f - 1 : B[b].used
  BY DEF Compact, Lost, Range
<1>4. \A b \in m .. T - 1 : B[b].used
  <2> TAKE b \in m .. T - 1
  <2>1. b \in m .. m + f - 1 \/ b \in m + f .. T - 1
    BY <1>1
  <2> QED
    BY <1>2, <1>3, <2>1
<1>5. (m .. T - 1) \in SUBSET {x \in 0 .. T - 1 : B[x].used}
  BY <1>1, <1>4
<1>6. Cardinality(m .. T - 1) <= Cardinality(KeysIn(B, T)) /\ Cardinality(KeysIn(B, T)) \in Nat
  BY <1>5, KeysCounted DEF Good
<1>7. Cardinality(m .. T - 1) = IF m > T - 1 THEN 0 ELSE (T - 1) - m + 1
  <2>1. m \in Int /\ T - 1 \in Int
    BY <1>1
  <2> QED
    BY <2>1, FS_Interval
<1> DEFINE x == Cardinality(m .. T - 1)
           y == Cardinality(KeysIn(B, T))
<1>8. x = T - m
  BY <1>1, <1>7
<1>9. x <= y /\ y \in Nat /\ y < T - m
  BY <1>6
<1> HIDE DEF x, y
<1> QED
  BY <1>1, <1>8, <1>9

\* An entry that is placed is added to the entries, and its key to the keys.
LEMMA PlacedMaps ==
  ASSUME NEW t, NEW T, NEW k, NEW v, NEW u, Placed(t, T, k, v, u)
  PROVE  /\ \A x, y : Maps(u.bucket, T, x, y) <=> (Maps(t.bucket, T, x, y) \/ (x = k /\ y = v))
         /\ \A b \in 0 .. T - 1 : t.bucket[b].used => SameEntry(u.bucket[b], t.bucket[b])
<1> DEFINE B == t.bucket
           C == u.bucket
<1>1. PICK s \in 0 .. T - 1 :
        /\ ~B[s].used
        /\ C[s].used /\ C[s].key = k /\ C[s].value = v
        /\ \A b \in 0 .. T - 1 : b # s => SameEntry(C[b], B[b])
  BY DEF Placed
<1>2. \A b \in 0 .. T - 1 : b # s => C[b].used = B[b].used /\ C[b].key = B[b].key /\ C[b].value = B[b].value
  BY <1>1 DEF SameEntry
<1> HIDE DEF B, C
<1>3. ASSUME NEW x, NEW y PROVE Maps(C, T, x, y) <=> (Maps(B, T, x, y) \/ (x = k /\ y = v))
  BY <1>1, <1>2 DEF Maps
<1> QED
  BY <1>1, <1>3 DEF B, C

\* A new block is sound and compact.
LEMMA EmptyGood ==
  ASSUME NEW a \in Nat \ {0}, NEW c \in Nat
  PROVE  /\ Good(Empty(a, c), a + c) /\ Compact(Empty(a, c))
         /\ Empty(a, c).mainCap = a /\ Empty(a, c).count = 0
         /\ \A x, y : ~Maps(Empty(a, c).bucket, a + c, x, y)
<1> DEFINE t == Empty(a, c)
           T == a + c
           B == [i \in 0 .. T - 1 |-> Unused]
           pos == [i \in 0 .. T - 1 |-> 0]
<1>1. /\ t.bucket = B /\ t.mainCap = a /\ t.nextFree = 0 /\ t.holes = <<>> /\ t.count = 0
      /\ B \in Rows(T) /\ T \in Nat
  BY UnusedIs DEF Empty, Rows
<1>2. t \in Tables
  <2>1. B \in UNION {Rows(n) : n \in Nat}
    BY <1>1
  <2> HIDE DEF B
  <2>2. t = [bucket |-> B, mainCap |-> a, nextFree |-> 0, holes |-> <<>>, count |-> 0]
    BY DEF Empty, B
  <2> QED
    BY <2>1, <2>2 DEF Tables
<1>3. \A b \in 0 .. T - 1 : B[b] = Unused /\ ~B[b].used
  BY UnusedIs
<1>4. pos \in [0 .. T - 1 -> Nat] /\ a \in 1 .. T
  OBVIOUS
<1> HIDE DEF pos, B, T
<1>5. Chained(B, T, a, pos)
  <2>1. Blank(B, T) /\ Homed(B, T, a, pos) /\ LeadsOn(B, T, a, pos) /\ Distinct(B, T)
    BY <1>3 DEF Blank, Homed, LeadsOn, Distinct
  <2>2. LedTo(B, T, a)
    BY <1>3, <1>4 DEF LedTo, T
  <2> QED
    BY <1>1, <1>4, <2>1, <2>2 DEF Chained
<1>6. Linkable(B, T, a)
  BY <1>5 DEF Linkable
<1>7. Pooled(B, T, a, <<>>)
  BY DEF Pooled
<1>8. Good(t, T)
  <2>1. 0 \in 0 .. T - a
    BY <1>1, <1>4
  <2> HIDE DEF t
  <2> QED
    BY <1>1, <1>2, <1>6, <1>7, <2>1 DEF Good
<1>9. Compact(t)
  <2> HIDE DEF t
  <2>1. \A b \in a .. a + 0 - 1 : FALSE
    OBVIOUS
  <2> QED
    BY <1>1, <2>1 DEF Compact, Lost
<1>10. \A x, y : ~Maps(B, T, x, y)
  BY <1>3 DEF Maps
<1> HIDE DEF t
<1> QED
  BY <1>1, <1>8, <1>9, <1>10 DEF t, T


-------------------------------------------------------------------------------
(* Rehashing *)

\* the entry is in one of the first n buckets of the old block
MapsBelow(B, n, k, v) == \E b \in 0 .. n - 1 : B[b].used /\ B[b].key = k /\ B[b].value = v

\* the new block u, of M buckets, after n buckets of the old block t
Moving(t, n, m, M, u) ==
  /\ Good(u, M) /\ Compact(u)
  /\ u.mainCap = m /\ u.count = 0
  /\ \A x, y : Maps(u.bucket, M, x, y) <=> MapsBelow(t.bucket, n, x, y)

\* Moving a bucket is placing its entry.
LEMMA MoveIsPlace ==
  ASSUME NEW u, NEW M, Good(u, M), NEW old \in Record, old.used, old.key \in Keys
  PROVE  MoveOne(u, old) = Place(u, old.key, old.value)
<1> DEFINE i == Index(u, old.key)
           B == u.bucket
<1>1. /\ M \in Nat /\ u.mainCap \in 1 .. M /\ B \in Rows(M) /\ u \in Tables
  BY GoodIs DEF Good
<1>2. i \in 0 .. M - 1
  <2>1. i = HashIndex(old.key, u.mainCap)
    BY DEF Index, HashIndex
  <2>2. i \in 0 .. u.mainCap - 1
    BY <1>1, <2>1, HashIndexIn
  <2> QED
    BY <1>1, <2>2
<1>3. ~B[i].used => B[i].next = Nil
  <2>1. PICK pos : Chained(B, M, u.mainCap, pos)
    BY DEF Good, Linkable
  <2> QED
    BY <1>2, <2>1, UnusedIs DEF Chained, Blank
<1>4. CASE ~B[i].used
  <2>1. MoveOne(u, old) = [u EXCEPT !.bucket[i] = Holding(old.key, old.value, Nil)]
    BY <1>4 DEF MoveOne
  <2>2. Place(u, old.key, old.value) = [u EXCEPT !.bucket[i] = Holding(old.key, old.value, @.next)]
    BY <1>4 DEF Place
  <2>3. B[i].next = Nil
    BY <1>3, <1>4
  <2> QED
    BY <2>1, <2>2, <2>3
<1>5. CASE B[i].used
  BY <1>5 DEF MoveOne, Place
<1> QED
  BY <1>4, <1>5

\* A step of the loop of rehash() moves the next bucket.
LEMMA MoveStep ==
  ASSUME NEW t, NEW T, Good(t, T), NEW n \in 1 .. T, NEW m, NEW M, T < M - m,
         NEW u, Moving(t, n - 1, m, M, u)
  PROVE  Moving(t, n, m, M, MoveOne(u, t.bucket[n - 1]))
<1> DEFINE B == t.bucket
           old == B[n - 1]
           w == MoveOne(u, old)
<1>1. /\ T \in Nat /\ B \in Rows(T) /\ n - 1 \in 0 .. T - 1 /\ old \in Record
      /\ M \in Nat /\ m \in 1 .. M
  <2>1. T \in Nat /\ B \in Rows(T)
    BY GoodIs
  <2>2. n - 1 \in 0 .. T - 1
    BY <2>1
  <2>3. M \in Nat /\ m \in 1 .. M
    BY GoodIs DEF Moving
  <2> QED
    BY <2>1, <2>2, <2>3 DEF Rows
<1>2. PICK pos : Chained(B, T, t.mainCap, pos)
  BY DEF Good, Linkable
<1>3. \A x, y : MapsBelow(B, n, x, y) <=>
                  MapsBelow(B, n - 1, x, y) \/ (old.used /\ old.key = x /\ old.value = y)
  <2> SUFFICES ASSUME NEW x, NEW y
               PROVE  MapsBelow(B, n, x, y) <=>
                        MapsBelow(B, n - 1, x, y) \/ (old.used /\ old.key = x /\ old.value = y)
    OBVIOUS
  <2>1. \A b : b \in 0 .. n - 1 <=> b \in 0 .. (n - 1) - 1 \/ b = n - 1
    BY <1>1
  <2> QED
    BY <2>1 DEF MapsBelow
<1>4. CASE ~old.used
  <2>1. w = u
    BY <1>4 DEF MoveOne
  <2>2. \A x, y : MapsBelow(B, n, x, y) <=> MapsBelow(B, n - 1, x, y)
    BY <1>3, <1>4
  <2>3. Moving(t, n, m, M, u)
    BY <2>2 DEF Moving
  <2> QED
    BY <2>1, <2>3
<1>5. CASE old.used
  <2> DEFINE k == old.key
             v == old.value
             C == u.bucket
  <2>1. k \in Keys /\ v \in Values
    BY <1>1, <1>2, <1>5 DEF Chained, Homed, Record
  <2>2. Good(u, M) /\ Compact(u) /\ u.mainCap = m /\ u.count = 0
    BY DEF Moving
  <2>3. \A x, y : Maps(C, M, x, y) <=> MapsBelow(B, n - 1, x, y)
    BY DEF Moving
  <2>4. Absent(C, M, k)
    <3> SUFFICES ASSUME NEW c \in 0 .. M - 1, C[c].used, C[c].key = k PROVE FALSE
      BY DEF Absent
    <3>1. Maps(C, M, k, C[c].value)
      BY DEF Maps
    <3>2. PICK b \in 0 .. (n - 1) - 1 : B[b].used /\ B[b].key = k
      BY <2>3, <3>1 DEF MapsBelow
    <3>3. b \in 0 .. T - 1 /\ b # n - 1
      BY <1>1
    <3> QED
      BY <1>1, <1>2, <1>5, <3>2, <3>3 DEF Chained, Distinct
  <2>5. HasRoom(u, k)
    <3> DEFINE K == KeysIn(C, M)
               J == KeysIn(B, T)
    <3>1. K \subseteq J
      <4> SUFFICES ASSUME NEW x \in K PROVE x \in J
        OBVIOUS
      <4>1. PICK y : Maps(C, M, x, y)
        BY KeysMapped
      <4>2. PICK b \in 0 .. (n - 1) - 1 : B[b].used /\ B[b].key = x /\ B[b].value = y
        BY <2>3, <4>1 DEF MapsBelow
      <4>3. b \in 0 .. T - 1
        BY <1>1
      <4> QED
        BY <4>2, <4>3 DEF KeysIn
    <3>2. IsFiniteSet(J) /\ Cardinality(J) \in Nat /\ Cardinality(J) <= T
      BY KeysCounted DEF Good
    <3> HIDE DEF K, J
    <3>3. Cardinality(K) <= Cardinality(J) /\ Cardinality(K) \in Nat
      BY <3>1, <3>2, FS_Subset, FS_CardinalityType
    <3> DEFINE x == Cardinality(K)
               y == Cardinality(J)
    <3>4. x \in Nat /\ y \in Nat /\ x <= y /\ y <= T
      BY <3>2, <3>3
    <3> HIDE DEF x, y
    <3>5. x < M - m
      BY <1>1, <3>4
    <3> QED
      BY <2>2, <3>5, CompactHasRoom DEF x, K
  <2>6. Placed(u, M, k, v, w)
    <3>1. w = Place(u, k, v)
      BY <1>1, <1>5, <2>1, <2>2, MoveIsPlace
    <3>2. Placed(u, M, k, v, Place(u, k, v))
      BY <2>1, <2>2, <2>4, <2>5, PlaceGives
    <3> QED
      BY <3>1, <3>2
  <2> HIDE DEF w, k, v
  <2>7. /\ Good(w, M) /\ w.mainCap = m /\ w.count = 0 /\ Compact(w)
    BY <2>2, <2>6 DEF Placed, Compact
  <2>8. \A x, y : Maps(w.bucket, M, x, y) <=> (Maps(C, M, x, y) \/ (x = k /\ y = v))
    BY <2>6, PlacedMaps
  <2>9. \A x, y : Maps(w.bucket, M, x, y) <=> MapsBelow(B, n, x, y)
    BY <1>3, <1>5, <2>3, <2>8 DEF k, v
  <2>10. Moving(t, n, m, M, w)
    BY <2>7, <2>9 DEF Moving
  <2> QED
    BY <2>10 DEF w
<1> QED
  BY <1>4, <1>5

\* u has the entries of t, in a larger block with room for one more
Rehashed(t, T, u) ==
  \E M \in Nat :
    /\ T < M /\ Good(u, M) /\ Sized(M) /\ Compact(u)
    /\ T < M - u.mainCap
    /\ u.count = t.count
    /\ \A x, y : Maps(u.bucket, M, x, y) <=> Maps(t.bucket, T, x, y)

\* rehash() moves every entry.
LEMMA RehashGives ==
  ASSUME NEW t, NEW T, Sound(t, T), NEW want \in Nat, T < want
  PROVE  Rehashed(t, T, Rehash(t, want))
<1> DEFINE m == MainFor(want)
           M == m + Ratio * m
           B == t.bucket
           IsMoved(f) == f = [n \in 0 .. Total(t) |->
                                IF n = 0 THEN Empty(m, Ratio * m) ELSE MoveOne(f[n - 1], B[n - 1])]
           d == CHOOSE f : IsMoved(f)
<1>1. Good(t, T) /\ Sized(T) /\ T \in Nat /\ Total(t) = T
  BY GoodIs DEF Sound
<1>2. m \in Powers /\ m \in Nat \ {0} /\ T < Ratio * m
  BY <1>1, MainForGrows
<1>3. M = 5 * m /\ M \in Nat /\ T < M - m /\ T < M /\ Ratio * m \in Nat
  BY <1>1, <1>2 DEF Ratio
<1>4. Sized(M)
  BY <1>2, <1>3 DEF Sized
<1>5. Rehash(t, want) = [d[T] EXCEPT !.count = t.count]
  BY <1>1 DEF Rehash
<1> DEFINE base == Empty(m, Ratio * m)
           V == {u \in Tables : \E n \in 0 .. T : Moving(t, n, m, M, u)}
           Go(n, u) == MoveOne(u, B[n - 1])
           step == [n \in 1 .. T |-> [u \in V |-> IF Moving(t, n - 1, m, M, u) THEN Go(n, u) ELSE u]]
<1>6. Moving(t, 0, m, M, base)
  <2>1. /\ Good(base, M) /\ Compact(base) /\ base.mainCap = m /\ base.count = 0
        /\ \A x, y : ~Maps(base.bucket, M, x, y)
    BY <1>2, <1>3, EmptyGood
  <2>2. \A x, y : ~MapsBelow(B, 0, x, y)
    BY DEF MapsBelow
  <2> HIDE DEF base
  <2> QED
    BY <2>1, <2>2 DEF Moving
<1> HIDE DEF m, M, base
<1>7. \A n \in 1 .. T : \A u : Moving(t, n - 1, m, M, u) => Moving(t, n, m, M, Go(n, u))
  BY <1>1, <1>3, MoveStep
<1>8. \A u, n : n \in 0 .. T /\ Moving(t, n, m, M, u) => u \in V
  BY DEF Moving, Good
<1>9. base \in V
  BY <1>1, <1>6, <1>8
<1>10. step \in [1 .. T -> [V -> V]]
  <2>1. ASSUME NEW n \in 1 .. T, NEW u \in V PROVE (IF Moving(t, n - 1, m, M, u) THEN Go(n, u) ELSE u) \in V
    <3>1. n \in 0 .. T
      BY <1>1
    <3> HIDE DEF V, Go
    <3> QED
      BY <1>7, <1>8, <3>1
  <2> HIDE DEF V, Go
  <2> QED
    BY <2>1
<1> HIDE DEF V
<1>11. \A n \in 1 .. T : \A u \in V : Moving(t, n - 1, m, M, u) => step[n][u] = Go(n, u)
  OBVIOUS
<1> HIDE DEF step
<1>12. PICK f \in [0 .. T -> V] : f = [n \in 0 .. T |-> IF n = 0 THEN base ELSE step[n][f[n - 1]]]
  <2>1. StepsUpTo(T, V, base, step)
    BY <1>1, <1>9, <1>10, BoundedRecursion
  <2> QED
    BY <2>1 DEF StepsUpTo
<1> HIDE DEF Go
<1>13. ASSUME NEW g, g[0] = base, \A n \in 1 .. T : Moving(t, n - 1, m, M, g[n - 1]) => g[n] = Go(n, g[n - 1])
       PROVE  \A n \in 0 .. T : Moving(t, n, m, M, g[n])
  <2> DEFINE S == {n \in 0 .. T : Moving(t, n, m, M, g[n])}
  <2>1. 0 \in S
    BY <1>1, <1>6, <1>13
  <2>2. ASSUME NEW n \in 1 .. T, n - 1 \in S PROVE n \in S
    BY <1>1, <1>7, <1>13, <2>2
  <2> HIDE DEF S
  <2>3. 0 .. T \subseteq S
    BY <1>1, <2>1, <2>2, BoundedInduction
  <2> QED
    BY <2>3 DEF S
<1>14. IsMoved(f)
  <2>1. f[0] = base
    BY <1>1, <1>12
  <2>2. \A n \in 1 .. T : f[n - 1] \in V /\ f[n] = step[n][f[n - 1]]
    BY <1>1, <1>12
  <2>3. \A n \in 1 .. T : Moving(t, n - 1, m, M, f[n - 1]) => f[n] = Go(n, f[n - 1])
    BY <1>11, <2>2
  <2>4. \A n \in 0 .. T : Moving(t, n, m, M, f[n])
    BY <1>13, <2>1, <2>3
  <2>5. \A n \in 0 .. T : f[n] = IF n = 0 THEN base ELSE Go(n, f[n - 1])
    <3> TAKE n \in 0 .. T
    <3>1. n = 0 \/ (n \in 1 .. T /\ n - 1 \in 0 .. T)
      BY <1>1
    <3> QED
      BY <2>1, <2>3, <2>4, <3>1
  <2>6. f = [n \in 0 .. T |-> f[n]]
    BY <1>12
  <2> QED
    BY <1>1, <2>5, <2>6 DEF Go, base
<1>15. IsMoved(d)
  BY <1>14
<1> HIDE DEF d
<1>16. d[0] = base /\ \A n \in 1 .. T : d[n] = Go(n, d[n - 1])
  BY <1>1, <1>15 DEF Go, base
<1> HIDE DEF IsMoved
<1>17. Moving(t, T, m, M, d[T])
  BY <1>1, <1>13, <1>16
<1> DEFINE e == d[T]
           u == [e EXCEPT !.count = t.count]
<1>18. Good(e, M) /\ Compact(e) /\ e.mainCap = m /\ e \in Tables
  BY <1>17 DEF Moving, Good
<1>19. \A x, y : Maps(e.bucket, M, x, y) <=> Maps(B, T, x, y)
  BY <1>17 DEF Moving, MapsBelow, Maps
<1>20. t.count \in Int
  BY <1>1, GoodIs
<1> HIDE DEF e
<1>21. /\ u \in Tables /\ u.bucket = e.bucket /\ u.mainCap = m /\ u.nextFree = e.nextFree
       /\ u.holes = e.holes /\ u.count = t.count
  BY <1>18, <1>20 DEF Tables
<1>22. Rehash(t, want) = u
  BY <1>5 DEF e
<1> HIDE DEF u
<1>23. Good(u, M)
  BY <1>18, <1>21 DEF Good
<1>24. Compact(u)
  BY <1>18, <1>21 DEF Compact, Lost
<1>25. Rehashed(t, T, u)
  BY <1>3, <1>4, <1>19, <1>21, <1>23, <1>24 DEF Rehashed
<1> QED
  BY <1>22, <1>25


-------------------------------------------------------------------------------
(* Insertion *)

\* no entry has moved, or the block is a larger one
Stays(t, T, u, M) ==
  \/ M > T
  \/ /\ M = T /\ u.mainCap = t.mainCap
     /\ \A b \in 0 .. T - 1 : t.bucket[b].used => u.bucket[b].used /\ u.bucket[b].key = t.bucket[b].key

Grown(t, T, u, M) == M \in Nat /\ Sound(u, M) /\ Lost(u) \subseteq Lost(t) /\ Stays(t, T, u, M)

AddedTo(t, T, k, v, u) ==
  \E M : /\ Grown(t, T, u, M)
         /\ \A x, y : Maps(u.bucket, M, x, y) <=> (Maps(t.bucket, T, x, y) \/ (x = k /\ y = v))

\* A new count leaves a table what it is.
LEMMA CountOnly ==
  ASSUME NEW t, NEW T, Good(t, T), NEW n \in Int
  PROVE  LET u == [t EXCEPT !.count = n] IN
         Good(u, T) /\ u.bucket = t.bucket /\ u.mainCap = t.mainCap /\ u.count = n /\ Lost(u) = Lost(t)
<1> DEFINE u == [t EXCEPT !.count = n]
<1>1. /\ u \in Tables /\ u.bucket = t.bucket /\ u.mainCap = t.mainCap /\ u.nextFree = t.nextFree
      /\ u.holes = t.holes /\ u.count = n
  BY DEF Good, Tables
<1> HIDE DEF u
<1>2. Good(u, T) /\ Lost(u) = Lost(t)
  BY <1>1 DEF Good, Lost
<1> QED
  BY <1>1, <1>2 DEF u

\* Has tells whether a key is stored.
LEMMA HasIs ==
  ASSUME NEW t, NEW T, Good(t, T), NEW k \in Keys
  PROVE  /\ Has(t, k) <=> k \in KeysIn(t.bucket, T)
         /\ Has(t, k) <=> ~Absent(t.bucket, T, k)
         /\ Has(t, k) => /\ At(t, k) \in 0 .. T - 1
                         /\ t.bucket[At(t, k)].used /\ t.bucket[At(t, k)].key = k
<1> DEFINE B == t.bucket
<1>1. PICK pos : Chained(B, T, t.mainCap, pos)
  BY DEF Good, Linkable
<1>2. /\ \A b \in 0 .. T - 1 : B[b].used /\ B[b].key = k => At(t, k) = b
      /\ (\A b \in 0 .. T - 1 : ~(B[b].used /\ B[b].key = k)) => At(t, k) = Nil
  BY <1>1, AtFinds
<1>3. \A b \in 0 .. T - 1 : b # Nil
  BY <1>1 DEF Chained, Nil
<1>4. Has(t, k) <=> \E b \in 0 .. T - 1 : B[b].used /\ B[b].key = k
  BY <1>2, <1>3 DEF Has
<1>5. k \in KeysIn(B, T) <=> \E b \in 0 .. T - 1 : B[b].used /\ B[b].key = k
  BY DEF KeysIn
<1>6. Absent(B, T, k) <=> ~ \E b \in 0 .. T - 1 : B[b].used /\ B[b].key = k
  BY DEF Absent
<1>7. Has(t, k) => /\ At(t, k) \in 0 .. T - 1 /\ B[At(t, k)].used /\ B[At(t, k)].key = k
  BY <1>2, <1>4
<1> QED
  BY <1>4, <1>5, <1>6, <1>7

MapsPlus(C, M, B, T, k, v) ==
  \A x, y : Maps(C, M, x, y) <=> (Maps(B, T, x, y) \/ (x = k /\ y = v))

\* One more key is counted.
LEMMA KeysMore ==
  ASSUME NEW t, NEW T, Sound(t, T), NEW k, k \notin KeysIn(t.bucket, T), NEW v, NEW C, NEW M,
         MapsPlus(C, M, t.bucket, T, k, v)
  PROVE  Cardinality(KeysIn(C, M)) = t.count + 1
<1> DEFINE K == KeysIn(t.bucket, T)
           J == KeysIn(C, M)
<1>1. \A x : x \in J <=> x \in K \/ x = k
  BY KeysMapped DEF MapsPlus
<1>2. J = K \cup {k}
  BY <1>1
<1>3. IsFiniteSet(K) /\ t.count = Cardinality(K)
  BY KeysCounted DEF Sound, Good, Counted
<1> HIDE DEF K, J
<1>4. Cardinality(K \cup {k}) = Cardinality(K) + 1
  BY <1>3, FS_AddElement DEF K
<1>5. Cardinality(J) = t.count + 1
  BY <1>2, <1>3, <1>4
<1> QED
  BY <1>5 DEF J

\* An absent key is added, if necessary after a rehash.
LEMMA AddedGives ==
  ASSUME NEW t, NEW T, Sound(t, T), NEW k \in Keys, NEW v \in Values, ~Has(t, k)
  PROVE  AddedTo(t, T, k, v, Added(t, k, v))
<1>1. Good(t, T) /\ Sized(T) /\ t.count \in Int /\ T \in Nat /\ Total(t) = T /\ t.mainCap \in 1 .. T
  BY GoodIs DEF Sound
<1>2. Absent(t.bucket, T, k) /\ k \notin KeysIn(t.bucket, T)
  BY <1>1, HasIs
<1> DEFINE r == IF HasRoom(t, k) THEN t ELSE Rehash(t, 2 * T)
           p == Place(r, k, v)
           u == [p EXCEPT !.count = @ + 1]
<1>3. Added(t, k, v) = u
  BY <1>1 DEF Added
<1>4. PICK M \in Nat :
        /\ Good(r, M) /\ Sized(M) /\ HasRoom(r, k) /\ r.count = t.count
        /\ Lost(r) \subseteq Lost(t) /\ ((r = t /\ M = T) \/ M > T)
        /\ \A x, y : Maps(r.bucket, M, x, y) <=> Maps(t.bucket, T, x, y)
  <2>1. CASE HasRoom(t, k)
    BY <1>1, <2>1
  <2>2. CASE ~HasRoom(t, k)
    <3> DEFINE s == Rehash(t, 2 * T)
    <3>1. 2 * T \in Nat /\ T < 2 * T
      BY <1>1
    <3>2. Rehashed(t, T, s)
      BY <3>1, RehashGives
    <3>3. r = s
      BY <2>2
    <3> HIDE DEF s, r
    <3>4. PICK M \in Nat :
            /\ T < M /\ Good(s, M) /\ Sized(M) /\ Compact(s)
            /\ T < M - s.mainCap
            /\ s.count = t.count
            /\ \A x, y : Maps(s.bucket, M, x, y) <=> Maps(t.bucket, T, x, y)
      BY <3>2 DEF Rehashed
    <3>5. HasRoom(s, k)
      <4> DEFINE K == KeysIn(t.bucket, T)
      <4>1. KeysIn(s.bucket, M) = K
        <5>1. \A x : x \in KeysIn(s.bucket, M) <=> x \in KeysIn(t.bucket, T)
          BY <3>4, KeysMapped
        <5> QED
          BY <5>1
      <4>2. Cardinality(K) \in Nat /\ Cardinality(K) <= T
        BY <1>1, KeysCounted DEF Good
      <4> DEFINE c == Cardinality(K)
      <4>3. s.mainCap \in Int
        BY <3>4, GoodIs
      <4> HIDE DEF c, K
      <4>4. c < M - s.mainCap
        BY <1>1, <3>4, <4>2, <4>3 DEF c
      <4> QED
        BY <3>4, <4>1, <4>4, CompactHasRoom DEF c
    <3>6. Lost(s) \subseteq Lost(t)
      BY <3>4 DEF Compact
    <3> QED
      BY <3>3, <3>4, <3>5, <3>6
  <2> QED
    BY <2>1, <2>2
<1> HIDE DEF r
<1>5. Absent(r.bucket, M, k)
  <2>1. k \notin KeysIn(r.bucket, M)
    BY <1>2, <1>4, KeysMapped
  <2> QED
    BY <2>1 DEF KeysIn, Absent
<1>6. Placed(r, M, k, v, p)
  BY <1>4, <1>5, PlaceGives
<1>7. /\ Good(p, M) /\ p.mainCap = r.mainCap /\ p.count = t.count /\ Lost(p) \subseteq Lost(r)
  BY <1>4, <1>6 DEF Placed
<1>8. /\ \A x, y : Maps(p.bucket, M, x, y) <=> (Maps(r.bucket, M, x, y) \/ (x = k /\ y = v))
      /\ \A b \in 0 .. M - 1 : r.bucket[b].used => SameEntry(p.bucket[b], r.bucket[b])
  BY <1>6, PlacedMaps
<1> HIDE DEF p
<1>9. Good(u, M) /\ u.bucket = p.bucket /\ u.mainCap = p.mainCap /\ u.count = t.count + 1 /\ Lost(u) = Lost(p)
  <2>1. p.count + 1 \in Int
    BY <1>1, <1>7
  <2> QED
    BY <1>7, <2>1, CountOnly
<1> HIDE DEF u
<1>10. \A x, y : Maps(u.bucket, M, x, y) <=> (Maps(t.bucket, T, x, y) \/ (x = k /\ y = v))
  BY <1>4, <1>8, <1>9
<1>11. Counted(u, M)
  <2>1. MapsPlus(u.bucket, M, t.bucket, T, k, v)
    BY <1>10 DEF MapsPlus
  <2>2. Cardinality(KeysIn(u.bucket, M)) = t.count + 1
    BY <1>2, <2>1, KeysMore
  <2> QED
    BY <1>9, <2>2 DEF Counted
<1>12. Stays(t, T, u, M)
  BY <1>4, <1>7, <1>8, <1>9 DEF Stays, SameEntry
<1>13. Grown(t, T, u, M)
  BY <1>4, <1>7, <1>9, <1>11, <1>12 DEF Grown, Sound
<1>14. AddedTo(t, T, k, v, u)
  BY <1>10, <1>13 DEF AddedTo
<1> QED
  BY <1>3, <1>14

InsertedInto(t, T, k, v, u) ==
  \E M : /\ Grown(t, T, u, M)
         /\ \A x, y : Maps(u.bucket, M, x, y) <=>
                        (Maps(t.bucket, T, x, y) \/ (x = k /\ y = v /\ k \notin KeysIn(t.bucket, T)))

\* insert() adds what is absent and leaves what is there.
LEMMA InsertGives ==
  ASSUME NEW t, NEW T, Sound(t, T), NEW k \in Keys, NEW v \in Values
  PROVE  InsertedInto(t, T, k, v, InsertIn(t, k, v))
<1>1. Good(t, T) /\ T \in Nat
  BY GoodIs DEF Sound
<1>2. Has(t, k) <=> k \in KeysIn(t.bucket, T)
  BY <1>1, HasIs
<1>3. CASE Has(t, k)
  <2>1. InsertIn(t, k, v) = t
    BY <1>3 DEF InsertIn
  <2>2. Grown(t, T, t, T)
    BY <1>1 DEF Grown, Stays
  <2>3. InsertedInto(t, T, k, v, t)
    BY <1>2, <1>3, <2>2 DEF InsertedInto
  <2> QED
    BY <2>1, <2>3
<1>4. CASE ~Has(t, k)
  <2>1. InsertIn(t, k, v) = Added(t, k, v)
    BY <1>4 DEF InsertIn
  <2>2. AddedTo(t, T, k, v, Added(t, k, v))
    BY <1>4, AddedGives
  <2>3. InsertedInto(t, T, k, v, Added(t, k, v))
    BY <1>2, <1>4, <2>2 DEF InsertedInto, AddedTo
  <2> QED
    BY <2>1, <2>3
<1> QED
  BY <1>3, <1>4

AssignedIn(t, T, k, v, u) ==
  \E M : /\ Grown(t, T, u, M)
         /\ \A x, y : Maps(u.bucket, M, x, y) <=> ((Maps(t.bucket, T, x, y) /\ x # k) \/ (x = k /\ y = v))

\* Assignment through operator[] overwrites or adds.
LEMMA AssignGives ==
  ASSUME NEW t, NEW T, Sound(t, T), NEW k \in Keys, NEW v \in Values
  PROVE  AssignedIn(t, T, k, v, AssignIn(t, k, v))
<1>1. Good(t, T) /\ T \in Nat /\ t \in Tables /\ t.bucket \in Rows(T) /\ Counted(t, T) /\ Sized(T)
  BY GoodIs DEF Sound, Good
<1>2. Has(t, k) <=> k \in KeysIn(t.bucket, T)
  BY <1>1, HasIs
<1>3. CASE Has(t, k)
  <2> DEFINE B == t.bucket
             i == At(t, k)
             r == [B[i] EXCEPT !.value = v]
             C == [B EXCEPT ![i] = r]
             u == AssignIn(t, k, v)
  <2>1. i \in 0 .. T - 1 /\ B[i].used /\ B[i].key = k
    BY <1>1, <1>3, HasIs
  <2>2. u = [t EXCEPT !.bucket[At(t, k)].value = v]
    BY <1>3 DEF AssignIn
  <2> HIDE DEF i
  <2>3. u = [t EXCEPT !.bucket = C]
    BY <1>1, <2>2 DEF Tables, i
  <2>4. r \in Record /\ r.used /\ r.key = k /\ r.value = v /\ r.next = B[i].next
    <3>1. B[i] \in Record
      BY <1>1, <2>1 DEF Rows
    <3> QED
      BY <2>1, <3>1 DEF Record
  <2> HIDE DEF r
  <2>5. C \in Rows(T) /\ C[i] = r /\ \A b \in 0 .. T - 1 : b # i => C[b] = B[b]
    BY <1>1, <2>1, <2>4 DEF Rows
  <2> HIDE DEF C, u
  <2>6. /\ u \in Tables /\ u.bucket = C /\ u.mainCap = t.mainCap /\ u.nextFree = t.nextFree
        /\ u.holes = t.holes /\ u.count = t.count
    BY <1>1, <2>3, <2>5, RowsInTables
  <2>7. SameBut(C, B, T, {i})
    BY <2>5 DEF SameBut
  <2>8. PICK pos : Chained(B, T, t.mainCap, pos)
    BY <1>1 DEF Good, Linkable
  <2>9. Linkable(C, T, t.mainCap)
    BY <2>1, <2>4, <2>5, <2>7, <2>8, ChangeValue
  <2>10. \A b \in 0 .. T - 1 : C[b].used = B[b].used /\ C[b].key = B[b].key
    <3> TAKE b \in 0 .. T - 1
    <3>1. B[i].used \in BOOLEAN /\ C[i].used \in BOOLEAN
      BY <1>1, <2>1, <2>5 DEF Rows, Record
    <3> QED
      BY <2>1, <2>4, <2>5, <3>1
  <2>11. Pooled(C, T, t.mainCap, t.holes)
    <3>1. \A x \in 1 .. Len(t.holes) : t.holes[x] \in t.mainCap .. T - 1 /\ ~B[t.holes[x]].used
      BY <1>1 DEF Good, Pooled
    <3>2. t.mainCap \in 1 .. T
      BY <1>1, GoodIs
    <3>3. \A x \in 1 .. Len(t.holes) : ~C[t.holes[x]].used
      BY <2>10, <3>1, <3>2
    <3> QED
      BY <1>1, <3>3, PoolKept DEF Good
  <2>12. Good(u, T)
    BY <1>1, <2>6, <2>9, <2>11 DEF Good
  <2>13. ASSUME NEW x, NEW y PROVE Maps(C, T, x, y) <=> ((Maps(B, T, x, y) /\ x # k) \/ (x = k /\ y = v))
    <3>1. \A b \in 0 .. T - 1 : B[b].used /\ B[b].key = k => b = i
      BY <2>1, <2>8 DEF Chained, Distinct
    <3>2. \A b \in 0 .. T - 1 : b # i => C[b].value = B[b].value
      BY <2>5
    <3> QED
      BY <2>1, <2>4, <2>5, <2>10, <3>1, <3>2 DEF Maps
  <2>14. KeysIn(C, T) = KeysIn(B, T)
    BY <2>10 DEF KeysIn
  <2>15. Counted(u, T)
    BY <1>1, <2>6, <2>14 DEF Counted
  <2>16. Lost(u) \subseteq Lost(t)
    <3>1. t.mainCap \in 1 .. T /\ t.nextFree \in 0 .. T - t.mainCap
      BY <1>1, GoodIs
    <3>2. \A b \in t.mainCap .. t.mainCap + t.nextFree - 1 : b \in 0 .. T - 1
      BY <1>1, <3>1
    <3> QED
      BY <2>6, <2>10, <3>2 DEF Lost
  <2>17. Stays(t, T, u, T)
    BY <2>6, <2>10 DEF Stays
  <2>18. Grown(t, T, u, T)
    BY <1>1, <2>12, <2>15, <2>16, <2>17 DEF Grown, Sound
  <2>19. AssignedIn(t, T, k, v, u)
    BY <2>6, <2>13, <2>18 DEF AssignedIn
  <2> QED
    BY <2>19 DEF u
<1>4. CASE ~Has(t, k)
  <2>1. AssignIn(t, k, v) = Added(t, k, v)
    BY <1>4 DEF AssignIn
  <2>2. AddedTo(t, T, k, v, Added(t, k, v))
    BY <1>4, AddedGives
  <2>3. \A x, y : Maps(t.bucket, T, x, y) => x # k
    BY <1>2, <1>4, KeysMapped
  <2>4. AssignedIn(t, T, k, v, Added(t, k, v))
    BY <2>2, <2>3 DEF AssignedIn, AddedTo
  <2> QED
    BY <2>1, <2>4
<1> QED
  BY <1>3, <1>4


-------------------------------------------------------------------------------
(* Removal *)

\* An entry that is not removed keeps its bucket, unless it was the first behind the
\* main bucket: then it has moved there.
Settled(t, T, u) ==
  \A b \in 0 .. T - 1 : t.bucket[b].used =>
    \/ u.bucket[b].used /\ u.bucket[b].key = t.bucket[b].key
    \/ \A c \in 0 .. T - 1 : u.bucket[c].key # t.bucket[b].key
    \/ LET head == HashIndex(t.bucket[b].key, t.mainCap)
       IN u.bucket[head].key = t.bucket[b].key /\ t.bucket[head].next = b

\* u is t without the entry of k, which is still counted
TakenOut(t, T, k, u) ==
  /\ Good(u, T) /\ u.mainCap = t.mainCap /\ u.count = t.count /\ Lost(u) \subseteq Lost(t)
  /\ \A x, y : Maps(u.bucket, T, x, y) <=> (Maps(t.bucket, T, x, y) /\ x # k)
  /\ Settled(t, T, u)

\* u is t with a chain cut and the freed bucket j remembered
IsCut(t, T, p, j, C, u) ==
  /\ u \in Tables /\ u.bucket = C /\ u.mainCap = t.mainCap /\ u.nextFree = t.nextFree
  /\ u.holes = Append(t.holes, j) /\ u.count = t.count
  /\ SameBut(C, t.bucket, T, {p, j})
  /\ C[p].used /\ C[p].next = t.bucket[j].next /\ C[p].key \in {t.bucket[p].key, t.bucket[j].key}
  /\ C[j] = Unused

\* The bucket that is cut out is remembered.
LEMMA CutTable ==
  ASSUME NEW t, NEW T, Good(t, T), NEW p \in 0 .. T - 1, t.bucket[p].used,
         NEW j, j = t.bucket[p].next, j # Nil, NEW C, NEW u, IsCut(t, T, p, j, C, u)
  PROVE  Good(u, T) /\ Lost(u) \subseteq Lost(t)
<1> DEFINE B == t.bucket
           m == t.mainCap
           h == t.holes
           g == Append(h, j)
<1>1. /\ T \in Nat /\ m \in 1 .. T /\ t.nextFree \in 0 .. T - m /\ h \in Seq(Nat)
  BY GoodIs
<1>2. PICK pos : Chained(B, T, m, pos)
  BY DEF Good, Linkable
<1>3. j \in m .. T - 1 /\ B[j].used /\ j \in Nat
  BY <1>1, <1>2, SMTT(30) DEF Chained, LeadsOn
<1>4. /\ SameBut(C, B, T, {p, j}) /\ C[p].used /\ C[p].next = B[j].next
      /\ C[p].key \in {B[p].key, B[j].key} /\ C[j] = Unused
  BY DEF IsCut
<1>5. Linkable(C, T, m)
  BY <1>2, <1>4, CutOut
<1>6. /\ \A b \in 0 .. T - 1 : b # p /\ b # j => C[b] = B[b]
      /\ ~C[j].used
  BY <1>4, UnusedIs DEF SameBut
<1>7. \A x \in 1 .. Len(h) : h[x] \in m .. T - 1 /\ ~B[h[x]].used
  BY DEF Good, Pooled
<1>8. \A x, y \in 1 .. Len(h) : h[x] = h[y] => x = y
  BY DEF Good, Pooled
<1>9. /\ Len(g) = Len(h) + 1 /\ Len(h) \in Nat /\ g[Len(h) + 1] = j
      /\ \A x \in 1 .. Len(h) : g[x] = h[x]
  BY <1>1, <1>3, AppendProperties, LenProperties
<1>10. DOMAIN h = 1 .. Len(h) /\ DOMAIN g = 1 .. Len(h) + 1
  BY <1>1, <1>3, <1>9, AppendProperties, LenProperties
<1> HIDE DEF g
<1>11. ASSUME NEW x \in 1 .. Len(h) PROVE h[x] # j /\ h[x] # p /\ h[x] \in 0 .. T - 1
  <2>1. h[x] \in m .. T - 1 /\ ~B[h[x]].used
    BY <1>7
  <2>2. h[x] # j /\ h[x] # p
    BY <1>3, <2>1
  <2> QED
    BY <1>1, <2>1, <2>2
<1>12. \A x \in 1 .. Len(h) + 1 : x \in 1 .. Len(h) \/ x = Len(h) + 1
  BY <1>9
<1>13. Pooled(C, T, m, g)
  <2>1. ASSUME NEW x \in 1 .. Len(g) PROVE g[x] \in m .. T - 1 /\ ~C[g[x]].used
    <3>1. x \in 1 .. Len(h) \/ x = Len(h) + 1
      BY <1>9, <1>12
    <3>2. CASE x \in 1 .. Len(h)
      BY <1>6, <1>7, <1>9, <1>11, <3>2
    <3>3. CASE x = Len(h) + 1
      BY <1>3, <1>6, <1>9, <3>3
    <3> QED
      BY <3>1, <3>2, <3>3
  <2>2. ASSUME NEW x \in 1 .. Len(g), NEW y \in 1 .. Len(g), g[x] = g[y] PROVE x = y
    <3>1. (x \in 1 .. Len(h) \/ x = Len(h) + 1) /\ (y \in 1 .. Len(h) \/ y = Len(h) + 1)
      BY <1>9, <1>12
    <3> QED
      BY <1>8, <1>9, <1>11, <2>2, <3>1
  <2> QED
    BY <2>1, <2>2 DEF Pooled
<1>14. /\ u \in Tables /\ u.bucket = C /\ u.mainCap = m /\ u.nextFree = t.nextFree
       /\ u.holes = g /\ u.count = t.count
  BY DEF IsCut, g
<1>15. Good(u, T)
  BY <1>1, <1>5, <1>13, <1>14 DEF Good
<1>16. Lost(u) \subseteq Lost(t)
  <2> SUFFICES ASSUME NEW b \in m .. m + t.nextFree - 1, ~C[b].used, b \notin Range(g)
               PROVE  ~B[b].used /\ b \notin Range(h)
    BY <1>14 DEF Lost
  <2>1. b \in 0 .. T - 1
    BY <1>1
  <2>2. \A x \in 1 .. Len(h) + 1 : g[x] # b
    BY <1>10 DEF Range
  <2>3. b # j
    BY <1>9, <2>2
  <2>4. b # p
    BY <1>4
  <2>5. ~B[b].used
    BY <1>6, <2>1, <2>3, <2>4
  <2>6. \A x \in 1 .. Len(h) : h[x] # b
    BY <1>9, <2>2
  <2> QED
    BY <1>10, <2>5, <2>6 DEF Range
<1> QED
  BY <1>15, <1>16

\* A key in collision memory is unlinked.
LEMMA UnlinkedGives ==
  ASSUME NEW t, NEW T, Good(t, T), NEW p \in 0 .. T - 1, t.bucket[p].used,
         NEW j, j = t.bucket[p].next, j # Nil
  PROVE  TakenOut(t, T, t.bucket[j].key, Unlinked(t, p, j))
<1> DEFINE B == t.bucket
           k == B[j].key
           r == [B[p] EXCEPT !.next = B[j].next]
           C == [[B EXCEPT ![p] = r] EXCEPT ![j] = Unused]
           u == Unlinked(t, p, j)
<1>1. /\ T \in Nat /\ t.mainCap \in 1 .. T /\ B \in Rows(T) /\ t.holes \in Seq(Nat) /\ t \in Tables
  BY GoodIs DEF Good
<1>2. PICK pos : Chained(B, T, t.mainCap, pos)
  BY DEF Good, Linkable
<1>3. j \in t.mainCap .. T - 1 /\ B[j].used /\ pos[j] = pos[p] + 1 /\ pos[p] \in Nat
  BY <1>2 DEF Chained, LeadsOn
<1>4. j \in 0 .. T - 1 /\ j # p /\ j \in Nat
  BY <1>1, <1>3, SMTT(30)
<1>5. r \in Record /\ SameEntry(r, B[p]) /\ r.next = B[j].next
  <2>1. B[p] \in Record /\ B[j].next \in Int
    BY <1>1, <1>4 DEF Rows, Record
  <2> QED
    BY <2>1 DEF Record, SameEntry
<1>6. u = [[t EXCEPT !.bucket = C] EXCEPT !.holes = Append(t.holes, j)]
  BY <1>1 DEF Unlinked, Tables, Rows
<1> HIDE DEF r
<1>7. /\ C \in Rows(T) /\ C[j] = Unused /\ C[p] = r
      /\ \A b \in 0 .. T - 1 : b # p /\ b # j => C[b] = B[b]
  BY <1>1, <1>4, <1>5, UnusedIs DEF Rows
<1>8. Append(t.holes, j) \in Seq(Nat)
  BY <1>1, <1>4, AppendProperties
<1> HIDE DEF C, u
<1>9. /\ u \in Tables /\ u.bucket = C /\ u.mainCap = t.mainCap /\ u.nextFree = t.nextFree
      /\ u.holes = Append(t.holes, j) /\ u.count = t.count
  <2> DEFINE s == [t EXCEPT !.bucket = C]
  <2>1. /\ s \in Tables /\ s.bucket = C /\ s.mainCap = t.mainCap /\ s.nextFree = t.nextFree
        /\ s.count = t.count
    BY <1>1, <1>7, RowsInTables
  <2>2. u = [s EXCEPT !.holes = Append(t.holes, j)]
    BY <1>6
  <2> HIDE DEF s
  <2> QED
    BY <1>8, <2>1, <2>2 DEF Tables
<1>10. SameBut(C, B, T, {p, j})
  BY <1>7 DEF SameBut
<1>11. IsCut(t, T, p, j, C, u)
  BY <1>5, <1>7, <1>9, <1>10 DEF IsCut, SameEntry
<1>12. Good(u, T) /\ Lost(u) \subseteq Lost(t)
  BY <1>11, CutTable
<1>13. \A b \in 0 .. T - 1 : B[b].used /\ B[b].key = k => b = j
  BY <1>2, <1>3, <1>4 DEF Chained, Distinct
<1>14. ~C[j].used /\ C[j].key = NoKey /\ \A b \in 0 .. T - 1 : b # j => SameEntry(C[b], B[b])
  BY <1>5, <1>7, UnusedIs DEF SameEntry
<1>15. \A x, y : Maps(C, T, x, y) <=> (Maps(B, T, x, y) /\ x # k)
  BY <1>4, <1>13, <1>14 DEF Maps, SameEntry
<1>16. Settled(t, T, u)
  <2> SUFFICES ASSUME NEW b \in 0 .. T - 1, B[b].used
               PROVE  \/ C[b].used /\ C[b].key = B[b].key
                      \/ \A c \in 0 .. T - 1 : C[c].key # B[b].key
    BY <1>9 DEF Settled
  <2>1. CASE b # j
    BY <1>14, <2>1 DEF SameEntry
  <2>2. CASE b = j
    <3> SUFFICES ASSUME NEW c \in 0 .. T - 1 PROVE C[c].key # k
      BY <2>2
    <3>1. k \in Keys /\ k # NoKey
      BY <1>2, <1>3, <1>4, DefaultAssumption DEF Chained, Homed
    <3>2. c # j => C[c].key = B[c].key /\ C[c].used = B[c].used
      BY <1>14 DEF SameEntry
    <3>3. ~B[c].used => B[c].key = NoKey
      BY <1>2, UnusedIs DEF Chained, Blank
    <3> QED
      BY <1>13, <1>14, <3>1, <3>2, <3>3
  <2> QED
    BY <2>1, <2>2
<1>17. TakenOut(t, T, k, u)
  BY <1>9, <1>12, <1>15, <1>16 DEF TakenOut
<1> QED
  BY <1>17 DEF u


\* A key in main memory gives its bucket to the first collision bucket.
LEMMA PromotedGives ==
  ASSUME NEW t, NEW T, Good(t, T), NEW i \in 0 .. t.mainCap - 1, t.bucket[i].used,
         t.bucket[i].next # Nil
  PROVE  TakenOut(t, T, t.bucket[i].key, Promoted(t, i))
<1> DEFINE B == t.bucket
           k == B[i].key
           j == B[i].next
           C == [[B EXCEPT ![i] = B[j]] EXCEPT ![j] = Unused]
           u == Promoted(t, i)
<1>1. /\ T \in Nat /\ t.mainCap \in 1 .. T /\ B \in Rows(T) /\ t.holes \in Seq(Nat) /\ t \in Tables
  BY GoodIs DEF Good
<1>2. PICK pos : Chained(B, T, t.mainCap, pos)
  BY DEF Good, Linkable
<1>3. i \in 0 .. T - 1
  BY <1>1
<1>4. /\ j \in t.mainCap .. T - 1 /\ B[j].used /\ pos[j] = pos[i] + 1 /\ pos[i] \in Nat
      /\ Home(B, t.mainCap, j) = Home(B, t.mainCap, i)
  BY <1>2, <1>3 DEF Chained, LeadsOn
<1>5. j \in 0 .. T - 1 /\ j # i /\ j \in Nat /\ Home(B, t.mainCap, i) = i
  BY <1>1, <1>2, <1>3, <1>4, SMTT(30) DEF Chained, Homed
<1>6. u = [[t EXCEPT !.bucket = C] EXCEPT !.holes = Append(t.holes, j)]
  BY <1>1 DEF Promoted, Tables, Rows
<1> HIDE DEF j
<1>7. /\ C \in Rows(T) /\ C[j] = Unused /\ C[i] = B[j]
      /\ \A b \in 0 .. T - 1 : b # i /\ b # j => C[b] = B[b]
  BY <1>1, <1>3, <1>5, UnusedIs DEF Rows
<1>8. Append(t.holes, j) \in Seq(Nat)
  BY <1>1, <1>5, AppendProperties
<1> HIDE DEF C, u
<1>9. /\ u \in Tables /\ u.bucket = C /\ u.mainCap = t.mainCap /\ u.nextFree = t.nextFree
      /\ u.holes = Append(t.holes, j) /\ u.count = t.count
  <2> DEFINE s == [t EXCEPT !.bucket = C]
  <2>1. /\ s \in Tables /\ s.bucket = C /\ s.mainCap = t.mainCap /\ s.nextFree = t.nextFree
        /\ s.count = t.count
    BY <1>1, <1>7, RowsInTables
  <2>2. u = [s EXCEPT !.holes = Append(t.holes, j)]
    BY <1>6
  <2> HIDE DEF s
  <2> QED
    BY <1>8, <2>1, <2>2 DEF Tables
<1>10. SameBut(C, B, T, {i, j})
  BY <1>7 DEF SameBut
<1>11. IsCut(t, T, i, j, C, u)
  BY <1>4, <1>7, <1>9, <1>10 DEF IsCut
<1>12. Good(u, T) /\ Lost(u) \subseteq Lost(t)
  BY <1>3, <1>11, CutTable DEF j
<1>13. \A b, c \in 0 .. T - 1 : B[b].used /\ B[c].used /\ B[b].key = B[c].key => b = c
  BY <1>2 DEF Chained, Distinct
<1>14. ~C[j].used /\ C[j].key = NoKey
  BY <1>7, UnusedIs
<1>15. \A x, y : Maps(C, T, x, y) <=> (Maps(B, T, x, y) /\ x # k)
  <2> TAKE x, y
  <2>1. ASSUME Maps(C, T, x, y) PROVE Maps(B, T, x, y) /\ x # k
    <3>1. PICK b \in 0 .. T - 1 : C[b].used /\ C[b].key = x /\ C[b].value = y
      BY <2>1 DEF Maps
    <3>2. PICK a \in 0 .. T - 1 : a # i /\ B[a] = C[b]
      BY <1>5, <1>7, <1>14, <3>1
    <3> QED
      BY <1>3, <1>13, <3>1, <3>2 DEF Maps
  <2>2. ASSUME Maps(B, T, x, y), x # k PROVE Maps(C, T, x, y)
    <3>1. PICK b \in 0 .. T - 1 : B[b].used /\ B[b].key = x /\ B[b].value = y
      BY <2>2 DEF Maps
    <3>2. PICK a \in 0 .. T - 1 : C[a] = B[b]
      BY <1>3, <1>7, <2>2, <3>1
    <3> QED
      BY <3>1, <3>2 DEF Maps
  <2> QED
    BY <2>1, <2>2
<1>16. Settled(t, T, u)
  <2> SUFFICES ASSUME NEW b \in 0 .. T - 1, B[b].used
               PROVE  \/ C[b].used /\ C[b].key = B[b].key
                      \/ \A c \in 0 .. T - 1 : C[c].key # B[b].key
                      \/ LET head == HashIndex(B[b].key, t.mainCap)
                         IN C[head].key = B[b].key /\ B[head].next = b
    BY <1>9 DEF Settled
  <2>1. CASE b # i /\ b # j
    BY <1>7, <2>1
  <2>2. CASE b = j
    <3>1. HashIndex(B[b].key, t.mainCap) = i
      BY <1>4, <1>5, <2>2 DEF HashIndex, Home
    <3> QED
      BY <1>7, <2>2, <3>1 DEF j
  <2>3. CASE b = i
    <3> SUFFICES ASSUME NEW c \in 0 .. T - 1 PROVE C[c].key # k
      BY <2>3
    <3>1. k \in Keys /\ k # NoKey
      BY <1>2, <1>3, DefaultAssumption DEF Chained, Homed
    <3>2. \A x \in 0 .. T - 1 : ~B[x].used => B[x].key = NoKey
      BY <1>2, UnusedIs DEF Chained, Blank
    <3>3. c = j \/ \E a \in 0 .. T - 1 : a # i /\ C[c] = B[a]
      BY <1>5, <1>7
    <3> QED
      BY <1>3, <1>13, <1>14, <3>1, <3>2, <3>3
  <2> QED
    BY <2>1, <2>2, <2>3
<1>17. TakenOut(t, T, k, u)
  BY <1>9, <1>12, <1>15, <1>16 DEF TakenOut
<1> QED
  BY <1>17 DEF u

\* A key that is alone on its chain leaves an empty main bucket.
LEMMA ClearedGives ==
  ASSUME NEW t, NEW T, Good(t, T), NEW i \in 0 .. t.mainCap - 1, t.bucket[i].used,
         t.bucket[i].next = Nil
  PROVE  TakenOut(t, T, t.bucket[i].key, [t EXCEPT !.bucket[i] = Unused])
<1> DEFINE B == t.bucket
           k == B[i].key
           C == [B EXCEPT ![i] = Unused]
           u == [t EXCEPT !.bucket[i] = Unused]
<1>1. /\ T \in Nat /\ t.mainCap \in 1 .. T /\ B \in Rows(T) /\ t \in Tables
      /\ t.nextFree \in 0 .. T - t.mainCap
  BY GoodIs DEF Good
<1>2. PICK pos : Chained(B, T, t.mainCap, pos)
  BY DEF Good, Linkable
<1>3. i \in 0 .. T - 1
  BY <1>1
<1>4. u = [t EXCEPT !.bucket = C]
  BY <1>1 DEF Tables
<1>5. /\ C \in Rows(T) /\ C[i] = Unused /\ \A b \in 0 .. T - 1 : b # i => C[b] = B[b]
  BY <1>1, <1>3, UnusedIs DEF Rows
<1> HIDE DEF C, u
<1>6. /\ u \in Tables /\ u.bucket = C /\ u.mainCap = t.mainCap /\ u.nextFree = t.nextFree
      /\ u.holes = t.holes /\ u.count = t.count
  BY <1>1, <1>4, <1>5, RowsInTables
<1>7. SameBut(C, B, T, {i})
  BY <1>5 DEF SameBut
<1>8. Linkable(C, T, t.mainCap)
  BY <1>2, <1>5, <1>7, ClearMain
<1>9. ~C[i].used /\ C[i].key = NoKey
  BY <1>5, UnusedIs
<1>10. Pooled(C, T, t.mainCap, t.holes)
  <2>1. \A x \in 1 .. Len(t.holes) : t.holes[x] \in t.mainCap .. T - 1 /\ ~B[t.holes[x]].used
    BY DEF Good, Pooled
  <2>2. ASSUME NEW x \in 1 .. Len(t.holes) PROVE ~C[t.holes[x]].used
    <3>1. t.holes[x] \in 0 .. T - 1 /\ t.holes[x] # i
      BY <1>1, <2>1
    <3> QED
      BY <1>5, <2>1, <3>1
  <2> QED
    BY <2>2, PoolKept DEF Good
<1>11. Good(u, T)
  BY <1>1, <1>6, <1>8, <1>10 DEF Good
<1>12. Lost(u) \subseteq Lost(t)
  <2> SUFFICES ASSUME NEW b \in t.mainCap .. t.mainCap + t.nextFree - 1, ~C[b].used
               PROVE  ~B[b].used
    BY <1>6 DEF Lost
  <2>1. b \in 0 .. T - 1 /\ b # i
    BY <1>1
  <2> QED
    BY <1>5, <2>1
<1>13. \A b \in 0 .. T - 1 : B[b].used /\ B[b].key = k => b = i
  BY <1>2, <1>3 DEF Chained, Distinct
<1>14. \A x, y : Maps(C, T, x, y) <=> (Maps(B, T, x, y) /\ x # k)
  BY <1>3, <1>5, <1>9, <1>13 DEF Maps
<1>15. Settled(t, T, u)
  <2> SUFFICES ASSUME NEW b \in 0 .. T - 1, B[b].used
               PROVE  \/ C[b].used /\ C[b].key = B[b].key
                      \/ \A c \in 0 .. T - 1 : C[c].key # B[b].key
    BY <1>6 DEF Settled
  <2>1. CASE b # i
    BY <1>5, <2>1
  <2>2. CASE b = i
    <3> SUFFICES ASSUME NEW c \in 0 .. T - 1 PROVE C[c].key # k
      BY <2>2
    <3>1. k \in Keys /\ k # NoKey
      BY <1>2, <1>3, DefaultAssumption DEF Chained, Homed
    <3>2. ~B[c].used => B[c].key = NoKey
      BY <1>2, UnusedIs DEF Chained, Blank
    <3> QED
      BY <1>5, <1>9, <1>13, <3>1, <3>2
  <2> QED
    BY <2>1, <2>2
<1>16. TakenOut(t, T, k, u)
  BY <1>6, <1>11, <1>12, <1>14, <1>15 DEF TakenOut
<1> QED
  BY <1>16 DEF u


\* u is t without the entry of k
Removed(t, T, k, u) ==
  /\ Sound(u, T) /\ u.mainCap = t.mainCap /\ Lost(u) \subseteq Lost(t)
  /\ \A x, y : Maps(u.bucket, T, x, y) <=> (Maps(t.bucket, T, x, y) /\ x # k)
  /\ Settled(t, T, u) /\ u.count < t.count

\* What is left of a table when a key is taken out and counted down.
LEMMA TakenOutCounted ==
  ASSUME NEW t, NEW T, Sound(t, T), NEW k, k \in KeysIn(t.bucket, T), NEW r, TakenOut(t, T, k, r)
  PROVE  Removed(t, T, k, [r EXCEPT !.count = @ - 1])
<1> DEFINE K == KeysIn(t.bucket, T)
           J == KeysIn(r.bucket, T)
           u == [r EXCEPT !.count = @ - 1]
<1>1. /\ Good(r, T) /\ r.mainCap = t.mainCap /\ r.count = t.count /\ Lost(r) \subseteq Lost(t)
      /\ \A x, y : Maps(r.bucket, T, x, y) <=> (Maps(t.bucket, T, x, y) /\ x # k)
      /\ Settled(t, T, r)
  BY DEF TakenOut
<1>2. Good(t, T) /\ Sized(T) /\ t.count = Cardinality(K) /\ t.count \in Int
  BY GoodIs DEF Sound, Counted
<1>3. IsFiniteSet(K)
  BY <1>2, KeysCounted DEF Good
<1>4. \A x : x \in J <=> x \in K /\ x # k
  BY <1>1, KeysMapped
<1>5. J = K \ {k} /\ k \in K
  BY <1>4
<1> HIDE DEF K, J
<1>6. Cardinality(K \ {k}) = Cardinality(K) - 1
  BY <1>3, <1>5, FS_RemoveElement
<1>7. r.count - 1 \in Int
  BY <1>1, <1>2
<1>8. Good(u, T) /\ u.bucket = r.bucket /\ u.mainCap = r.mainCap /\ u.count = r.count - 1 /\ Lost(u) = Lost(r)
  BY <1>1, <1>7, CountOnly
<1> HIDE DEF u
<1>9. Counted(u, T)
  BY <1>1, <1>2, <1>5, <1>6, <1>8 DEF Counted, J
<1>10. u.count < t.count
  BY <1>1, <1>2, <1>8
<1>11. Settled(t, T, u)
  BY <1>1, <1>8 DEF Settled
<1>12. Removed(t, T, k, u)
  BY <1>1, <1>2, <1>8, <1>9, <1>10, <1>11 DEF Removed, Sound
<1> QED
  BY <1>12 DEF u

\* remove() takes the entry of a key out, wherever it is on its chain.
LEMMA RemoveGives ==
  ASSUME NEW t, NEW T, Sound(t, T), NEW k \in Keys, Has(t, k)
  PROVE  Removed(t, T, k, RemoveFrom(t, k))
<1> DEFINE B == t.bucket
           m == t.mainCap
           i == Index(t, k)
           w == Walk(t, i)
           b == At(t, k)
           n == CHOOSE x \in DOMAIN w : w[x] = b
           r == IF n > 0 THEN Unlinked(t, w[n - 1], w[n])
                ELSE IF B[i].next # Nil THEN Promoted(t, i)
                ELSE [t EXCEPT !.bucket[i] = Unused]
<1>1. Good(t, T) /\ T \in Nat /\ m \in 1 .. T
  BY GoodIs DEF Sound
<1>2. b \in 0 .. T - 1 /\ B[b].used /\ B[b].key = k /\ k \in KeysIn(B, T)
  BY <1>1, HasIs
<1>3. PICK pos : Chained(B, T, m, pos)
  BY <1>1 DEF Good, Linkable
<1>4. RemoveFrom(t, k) = [r EXCEPT !.count = @ - 1]
  BY DEF RemoveFrom
<1>5. i = Home(B, m, b)
  BY <1>2 DEF Index, Home
<1> HIDE DEF b, i, w
<1>6. i \in 0 .. m - 1 /\ B[i].used /\ i \in 0 .. T - 1
  BY <1>1, <1>2, <1>3, <1>5, WalkFinds
<1>7. IsWalk(w, B, T, i)
  BY <1>3, <1>6, WalkIs DEF w
<1>8. pos[b] \in 0 .. T - 1 /\ w[pos[b]] = b
  BY <1>2, <1>3, <1>5, <1>7, WalkFinds
<1>9. n \in DOMAIN w /\ w[n] = b
  <2>1. pos[b] \in DOMAIN w
    BY <1>1, <1>7, <1>8 DEF IsWalk
  <2> QED
    BY <1>8, <2>1
<1> HIDE DEF n
<1>10. n \in 0 .. T /\ w[n] # Nil
  BY <1>1, <1>2, <1>7, <1>9 DEF IsWalk, Nil
<1>11. CASE n > 0
  <2> DEFINE p == w[n - 1]
  <2>1. n \in 1 .. T /\ n - 1 \in 0 .. T /\ n - 1 \in 0 .. n
    BY <1>1, <1>10, <1>11
  <2>2. w[n] = IF p = Nil THEN Nil ELSE B[p].next
    BY <1>7, <2>1 DEF IsWalk
  <2>3. p # Nil /\ b = B[p].next
    BY <1>9, <1>10, <2>2
  <2>4. p \in 0 .. T - 1 /\ B[p].used
    BY <1>3, <1>6, <1>7, <2>1, <2>3, WalkStays
  <2>5. r = Unlinked(t, p, b)
    BY <1>9, <1>11
  <2> HIDE DEF p
  <2>6. TakenOut(t, T, k, r)
    BY <1>1, <1>2, <1>9, <1>10, <2>3, <2>4, <2>5, UnlinkedGives
  <2> HIDE DEF r
  <2> QED
    BY <1>2, <1>4, <2>6, TakenOutCounted
<1>12. CASE ~(n > 0)
  <2>1. n = 0 /\ b = i
    BY <1>7, <1>9, <1>10, <1>12 DEF IsWalk
  <2>2. TakenOut(t, T, k, r)
    BY <1>1, <1>2, <1>6, <1>12, <2>1, PromotedGives, ClearedGives
  <2> HIDE DEF r
  <2> QED
    BY <1>2, <1>4, <2>2, TakenOutCounted
<1> QED
  BY <1>11, <1>12


-------------------------------------------------------------------------------
(* Lists of entries *)

\* the key's entry is the first of it in the first n pairs of a list
Listed(list, n, k, v) ==
  \E a \in 1 .. n : list[a] = <<k, v>> /\ \A c \in 1 .. a - 1 : list[c][1] # k

\* u is t with those entries of the first n pairs of a list whose key t does not hold
Extended(t, T, list, n, u) ==
  \E M : /\ Grown(t, T, u, M)
         /\ \A x, y : Maps(u.bucket, M, x, y) <=>
                        (Maps(t.bucket, T, x, y) \/ (x \notin KeysIn(t.bucket, T) /\ Listed(list, n, x, y)))

\* What has grown twice has grown.
LEMMA GrownTwice ==
  ASSUME NEW t, NEW T \in Nat, NEW u, NEW M, Grown(t, T, u, M), NEW r, NEW R, Grown(u, M, r, R)
  PROVE  Grown(t, T, r, R)
<1>1. R \in Nat /\ M \in Nat /\ Sound(r, R) /\ Lost(r) \subseteq Lost(t)
  BY DEF Grown
<1>2. Stays(t, T, u, M) /\ Stays(u, M, r, R)
  BY DEF Grown
<1>3. Stays(t, T, r, R)
  BY <1>1, <1>2 DEF Stays
<1> QED
  BY <1>1, <1>3 DEF Grown

\* One more pair of the list is inserted.
LEMMA ExtendStep ==
  ASSUME NEW t, NEW T \in Nat, NEW list \in Seq(Keys \X Values), NEW n \in 1 .. Len(list),
         NEW u, Extended(t, T, list, n - 1, u)
  PROVE  Extended(t, T, list, n, InsertIn(u, list[n][1], list[n][2]))
<1> DEFINE k == list[n][1]
           v == list[n][2]
           r == InsertIn(u, k, v)
           K == KeysIn(t.bucket, T)
<1>1. list[n] = <<k, v>> /\ k \in Keys /\ v \in Values /\ Len(list) \in Nat
  BY LenProperties, ElementOfSeq
<1> HIDE DEF k, v
<1>2. PICK M : /\ Grown(t, T, u, M)
               /\ \A x, y : Maps(u.bucket, M, x, y) <=>
                              (Maps(t.bucket, T, x, y) \/ (x \notin K /\ Listed(list, n - 1, x, y)))
  BY DEF Extended
<1>3. Sound(u, M)
  BY <1>2 DEF Grown
<1>4. InsertedInto(u, M, k, v, r)
  BY <1>1, <1>3, InsertGives
<1> HIDE DEF r
<1>5. PICK R : /\ Grown(u, M, r, R)
               /\ \A x, y : Maps(r.bucket, R, x, y) <=>
                              (Maps(u.bucket, M, x, y) \/ (x = k /\ y = v /\ k \notin KeysIn(u.bucket, M)))
  BY <1>4 DEF InsertedInto
<1>6. Grown(t, T, r, R)
  BY <1>2, <1>5, GrownTwice
<1>7. \A y : k \in K => ~(k \notin K /\ Listed(list, n - 1, k, y))
  OBVIOUS
<1>8. k \in KeysIn(u.bucket, M) <=> (k \in K \/ \E y : Listed(list, n - 1, k, y))
  <2>1. k \in KeysIn(u.bucket, M) <=> \E y : Maps(u.bucket, M, k, y)
    BY KeysMapped
  <2>2. k \in K <=> \E y : Maps(t.bucket, T, k, y)
    BY KeysMapped
  <2> HIDE DEF K
  <2> QED
    BY <1>2, <2>1, <2>2
<1>9. (\E y : Listed(list, n - 1, k, y)) <=> \E a \in 1 .. n - 1 : list[a][1] = k
  <2>1. ASSUME NEW y, Listed(list, n - 1, k, y) PROVE \E a \in 1 .. n - 1 : list[a][1] = k
    BY <2>1 DEF Listed
  <2>2. ASSUME \E a \in 1 .. n - 1 : list[a][1] = k PROVE \E y : Listed(list, n - 1, k, y)
    <3> DEFINE S == {a \in 1 .. n - 1 : list[a][1] = k}
    <3>1. S \subseteq Nat /\ S # {}
      BY <2>2, SMTT(30)
    <3>2. PICK a \in S : \A c \in S : a <= c
      BY <3>1, NatMin
    <3>3. a \in 1 .. n - 1 /\ list[a][1] = k
      BY <3>2
    <3>4. \A c \in 1 .. a - 1 : list[c][1] # k
      <4> SUFFICES ASSUME NEW c \in 1 .. a - 1, list[c][1] = k PROVE FALSE
        OBVIOUS
      <4>1. c \in S
        BY <3>3
      <4> QED
        BY <3>2, <3>3, <4>1
    <3>5. list[a] = <<k, list[a][2]>>
      <4>1. a \in 1 .. Len(list)
        BY <1>1, <3>3
      <4>2. list[a] \in Keys \X Values
        BY <4>1, ElementOfSeq
      <4> QED
        BY <3>3, <4>2
    <3>6. Listed(list, n - 1, k, list[a][2])
      BY <3>3, <3>4, <3>5 DEF Listed
    <3> QED
      BY <3>6
  <2> QED
    BY <2>1, <2>2
<1>10. ASSUME NEW x, NEW y
       PROVE  Listed(list, n, x, y) <=>
                \/ Listed(list, n - 1, x, y)
                \/ x = k /\ y = v /\ ~ \E a \in 1 .. n - 1 : list[a][1] = k
  <2>1. ASSUME Listed(list, n - 1, x, y) PROVE Listed(list, n, x, y)
    <3>1. PICK a \in 1 .. n - 1 : list[a] = <<x, y>> /\ \A c \in 1 .. a - 1 : list[c][1] # x
      BY <2>1 DEF Listed
    <3>2. a \in 1 .. n
      BY <1>1
    <3> QED
      BY <3>1, <3>2 DEF Listed
  <2>2. ASSUME x = k, y = v, ~ \E a \in 1 .. n - 1 : list[a][1] = k PROVE Listed(list, n, x, y)
    <3>1. n \in 1 .. n /\ list[n] = <<x, y>>
      BY <1>1, <2>2
    <3> QED
      BY <2>2, <3>1 DEF Listed
  <2>3. ASSUME Listed(list, n, x, y), ~Listed(list, n - 1, x, y)
        PROVE  x = k /\ y = v /\ ~ \E a \in 1 .. n - 1 : list[a][1] = k
    <3>1. PICK a \in 1 .. n : list[a] = <<x, y>> /\ \A c \in 1 .. a - 1 : list[c][1] # x
      BY <2>3 DEF Listed
    <3>2. a = n
      <4>1. a \notin 1 .. n - 1
        BY <2>3, <3>1 DEF Listed
      <4> QED
        BY <1>1, <4>1
    <3>3. x = k /\ y = v
      BY <1>1, <3>1, <3>2
    <3> QED
      BY <3>1, <3>2, <3>3
  <2> QED
    BY <2>1, <2>2, <2>3
<1> HIDE DEF K
<1>11. ASSUME NEW x, NEW y
       PROVE  Maps(r.bucket, R, x, y) <=>
                (Maps(t.bucket, T, x, y) \/ (x \notin K /\ Listed(list, n, x, y)))
  <2>1. Maps(u.bucket, M, x, y) <=> (Maps(t.bucket, T, x, y) \/ (x \notin K /\ Listed(list, n - 1, x, y)))
    BY <1>2
  <2>2. Maps(r.bucket, R, x, y) <=>
          (Maps(u.bucket, M, x, y) \/ (x = k /\ y = v /\ k \notin KeysIn(u.bucket, M)))
    BY <1>5
  <2> QED
    BY <1>8, <1>9, <1>10, <2>1, <2>2
<1>12. Extended(t, T, list, n, r)
  BY <1>6, <1>11 DEF Extended, K
<1> QED
  BY <1>12 DEF r, k, v


\* Merging a table in, or an initializer list, inserts its pairs one after another.
LEMMA InsertAllGives ==
  ASSUME NEW t, NEW T, Sound(t, T), NEW list \in Seq(Keys \X Values)
  PROVE  Extended(t, T, list, Len(list), InsertAll(t, list))
<1> DEFINE N == Len(list)
           Go(n, u) == InsertIn(u, list[n][1], list[n][2])
           IsDone(f) == f = [n \in 0 .. N |-> IF n = 0 THEN t ELSE Go(n, f[n - 1])]
           d == CHOOSE f : IsDone(f)
           V == {u \in Tables : \E n \in 0 .. N : Extended(t, T, list, n, u)}
           step == [n \in 1 .. N |-> [u \in V |-> IF Extended(t, T, list, n - 1, u) THEN Go(n, u) ELSE u]]
<1>1. Good(t, T) /\ T \in Nat /\ N \in Nat
  BY GoodIs, LenProperties DEF Sound
<1>2. InsertAll(t, list) = d[N]
  BY DEF InsertAll
<1>3. Extended(t, T, list, 0, t)
  <2>1. \A x, y : ~Listed(list, 0, x, y)
    BY DEF Listed
  <2>2. Grown(t, T, t, T)
    BY <1>1 DEF Grown, Stays
  <2> QED
    BY <2>1, <2>2 DEF Extended
<1>4. \A n \in 1 .. N : \A u : Extended(t, T, list, n - 1, u) => Extended(t, T, list, n, Go(n, u))
  BY <1>1, ExtendStep
<1>5. \A u, n : n \in 0 .. N /\ Extended(t, T, list, n, u) => u \in V
  BY DEF Extended, Grown, Sound, Good
<1>6. t \in V
  BY <1>1, <1>3, <1>5
<1>7. step \in [1 .. N -> [V -> V]]
  <2>1. ASSUME NEW n \in 1 .. N, NEW u \in V
        PROVE  (IF Extended(t, T, list, n - 1, u) THEN Go(n, u) ELSE u) \in V
    <3>1. n \in 0 .. N
      BY <1>1
    <3> HIDE DEF V, Go
    <3> QED
      BY <1>4, <1>5, <3>1
  <2> HIDE DEF V, Go
  <2> QED
    BY <2>1
<1> HIDE DEF V
<1>8. \A n \in 1 .. N : \A u \in V : Extended(t, T, list, n - 1, u) => step[n][u] = Go(n, u)
  OBVIOUS
<1> HIDE DEF step
<1>9. PICK f \in [0 .. N -> V] : f = [n \in 0 .. N |-> IF n = 0 THEN t ELSE step[n][f[n - 1]]]
  <2>1. StepsUpTo(N, V, t, step)
    BY <1>1, <1>6, <1>7, BoundedRecursion
  <2> QED
    BY <2>1 DEF StepsUpTo
<1> HIDE DEF Go, N
<1>10. ASSUME NEW g, g[0] = t,
              \A n \in 1 .. N : Extended(t, T, list, n - 1, g[n - 1]) => g[n] = Go(n, g[n - 1])
       PROVE  \A n \in 0 .. N : Extended(t, T, list, n, g[n])
  <2> DEFINE S == {n \in 0 .. N : Extended(t, T, list, n, g[n])}
  <2>1. 0 \in S
    BY <1>1, <1>3, <1>10
  <2>2. ASSUME NEW n \in 1 .. N, n - 1 \in S PROVE n \in S
    BY <1>1, <1>4, <1>10, <2>2
  <2> HIDE DEF S
  <2>3. 0 .. N \subseteq S
    BY <1>1, <2>1, <2>2, BoundedInduction
  <2> QED
    BY <2>3 DEF S
<1>11. IsDone(f)
  <2>1. f[0] = t
    BY <1>1, <1>9
  <2>2. \A n \in 1 .. N : f[n - 1] \in V /\ f[n] = step[n][f[n - 1]]
    BY <1>1, <1>9
  <2>3. \A n \in 1 .. N : Extended(t, T, list, n - 1, f[n - 1]) => f[n] = Go(n, f[n - 1])
    BY <1>8, <2>2
  <2>4. \A n \in 0 .. N : Extended(t, T, list, n, f[n])
    BY <1>10, <2>1, <2>3
  <2>5. \A n \in 0 .. N : f[n] = IF n = 0 THEN t ELSE Go(n, f[n - 1])
    <3> TAKE n \in 0 .. N
    <3>1. n = 0 \/ (n \in 1 .. N /\ n - 1 \in 0 .. N)
      BY <1>1
    <3> QED
      BY <2>1, <2>3, <2>4, <3>1
  <2>6. f = [n \in 0 .. N |-> f[n]]
    BY <1>9
  <2> QED
    BY <2>5, <2>6
<1>12. IsDone(d)
  BY <1>11
<1> HIDE DEF d
<1>13. d[0] = t /\ \A n \in 1 .. N : d[n] = Go(n, d[n - 1])
  BY <1>1, <1>12
<1> HIDE DEF IsDone
<1>14. Extended(t, T, list, N, d[N])
  BY <1>1, <1>10, <1>13
<1> QED
  BY <1>2, <1>14 DEF N


-------------------------------------------------------------------------------
(* The invariant *)

\* The inductive invariant: the table is sound, in a block of its size.
Invariant == Sound(table, Total(table))

LEMMA SoundIs ==
  ASSUME NEW t, NEW T, Sound(t, T)
  PROVE  Sound(t, Total(t)) /\ Total(t) = T
<1>1. Total(t) = T
  BY GoodIs DEF Sound
<1> QED
  BY <1>1

\* A fresh table is sound.
LEMMA EmptySound ==
  ASSUME NEW main, NEW collision, main \in Nat \ {0}, collision \in Nat, Sized(main + collision)
  PROVE  Sound(Empty(main, collision), main + collision)
<1> DEFINE e == Empty(main, collision)
           M == main + collision
<1>1. /\ Good(e, M) /\ e.count = 0 /\ \A x, y : ~Maps(e.bucket, M, x, y)
  BY EmptyGood
<1> HIDE DEF e
<1>2. KeysIn(e.bucket, M) = {}
  <2>1. \A x : x \notin KeysIn(e.bucket, M)
    BY <1>1, KeysMapped
  <2> QED
    BY <2>1
<1>3. Cardinality({}) = 0
  BY FS_EmptySet
<1>4. Counted(e, M)
  BY <1>1, <1>2, <1>3 DEF Counted
<1> QED
  BY <1>1, <1>4 DEF Sound, e


LEMMA InitSound == Init => Invariant
<1> SUFFICES ASSUME Init PROVE Invariant
  OBVIOUS
<1>1. CASE table = Empty(Ratio, 1)
  <2>1. Sized(5) /\ Ratio + 1 = 5 /\ Ratio \in Nat \ {0} /\ 1 \in Nat
    BY PowersDouble DEF Sized, Doubling, Ratio
  <2>2. Sound(Empty(Ratio, 1), Ratio + 1)
    BY <2>1, EmptySound
  <2> QED
    BY <1>1, <2>2, SoundIs DEF Invariant
<1>2. ASSUME NEW list \in Lists,
             LET m == MainFor(IF list = <<>> THEN Ratio + 1 ELSE Len(list))
             IN table = InsertAll(Empty(m, Ratio * m), list)
      PROVE  Invariant
  <2> DEFINE want == IF list = <<>> THEN Ratio + 1 ELSE Len(list)
             m == MainFor(want)
             e == Empty(m, Ratio * m)
             M == m + Ratio * m
  <2>1. list \in Seq(Keys \X Values)
    BY ListsAssumption
  <2>2. want \in Nat
    BY <2>1, LenProperties DEF Ratio
  <2> HIDE DEF want
  <2>3. m \in Powers /\ m \in Nat \ {0}
    BY <2>2, MainForIs, PowersSplit
  <2>4. table = InsertAll(e, list)
    BY <1>2 DEF want
  <2> HIDE DEF m
  <2>5. Ratio * m \in Nat /\ M = 5 * m
    BY <2>3 DEF Ratio
  <2>6. Sized(M)
    BY <2>3, <2>5 DEF Sized
  <2>7. Sound(e, M)
    BY <2>3, <2>5, <2>6, EmptySound
  <2> HIDE DEF e, M
  <2>8. Extended(e, M, list, Len(list), table)
    BY <2>1, <2>4, <2>7, InsertAllGives
  <2> QED
    BY <2>8, SoundIs DEF Extended, Grown, Invariant
<1> QED
  BY <1>1, <1>2 DEF Init

LEMMA InsertStep ==
  ASSUME Invariant, NEW k \in Keys, NEW v \in Values, Insert(k, v)
  PROVE  InsertedInto(table, Total(table), k, v, table')
BY InsertGives DEF Invariant, Insert

LEMMA AssignStep ==
  ASSUME Invariant, NEW k \in Keys, NEW v \in Values, Assign(k, v)
  PROVE  AssignedIn(table, Total(table), k, v, table')
BY AssignGives DEF Invariant, Assign

LEMMA SubscriptStep ==
  ASSUME Invariant, NEW k \in Keys, Subscript(k)
  PROVE  InsertedInto(table, Total(table), k, Default, table')
<1>1. table' = InsertIn(table, k, Default)
  BY DEF Subscript, InsertIn
<1> QED
  BY <1>1, InsertGives, DefaultAssumption DEF Invariant

LEMMA EraseStep ==
  ASSUME Invariant, NEW k \in Keys, Erase(k)
  PROVE  IF Has(table, k) THEN Removed(table, Total(table), k, table') ELSE table' = table
BY RemoveGives DEF Invariant, Erase, RemoveFrom

LEMMA MergeStep ==
  ASSUME Invariant, NEW list \in Others, Merge(list)
  PROVE  Extended(table, Total(table), list, Len(list), table')
<1>1. list \in Seq(Keys \X Values)
  BY ListsAssumption
<1> QED
  BY <1>1, InsertAllGives DEF Invariant, Merge

\* u has the entries of t, in a larger block
Enlarged(t, T, u) ==
  \E M : /\ Grown(t, T, u, M) /\ \A x, y : Maps(u.bucket, M, x, y) <=> Maps(t.bucket, T, x, y)

LEMMA EnsureCapacityStep ==
  ASSUME Invariant, NEW n \in Requests, EnsureCapacity(n)
  PROVE  Enlarged(table, Total(table), table')
<1> DEFINE t == table
           u == table'
           T == Total(table)
<1>1. n \in Nat /\ T < n /\ Sound(t, T) /\ u = Rehash(t, n)
  BY RequestsAssumption DEF EnsureCapacity, Invariant
<1>2. T \in Nat /\ t.count = Cardinality(KeysIn(t.bucket, T))
  BY <1>1, GoodIs DEF Sound, Counted
<1>3. Rehashed(t, T, u)
  BY <1>1, RehashGives
<1> HIDE DEF t, u, T
<1>4. PICK M \in Nat :
        /\ T < M /\ Good(u, M) /\ Sized(M) /\ Compact(u) /\ u.count = t.count
        /\ \A x, y : Maps(u.bucket, M, x, y) <=> Maps(t.bucket, T, x, y)
  BY <1>3 DEF Rehashed
<1>5. KeysIn(u.bucket, M) = KeysIn(t.bucket, T)
  <2>1. \A x : x \in KeysIn(u.bucket, M) <=> x \in KeysIn(t.bucket, T)
    BY <1>4, KeysMapped
  <2> QED
    BY <2>1
<1>6. Sound(u, M)
  BY <1>2, <1>4, <1>5 DEF Sound, Counted
<1>7. Grown(t, T, u, M)
  BY <1>2, <1>4, <1>6 DEF Grown, Stays, Compact
<1>8. Enlarged(t, T, u)
  BY <1>4, <1>7 DEF Enlarged
<1> QED
  BY <1>8 DEF t, u, T

\* u is t without its holes
Copied(t, T, u) ==
  /\ Sound(u, T) /\ u.bucket = t.bucket /\ u.mainCap = t.mainCap /\ u.count = t.count

LEMMA CopyStep ==
  ASSUME Invariant, Copy
  PROVE  Copied(table, Total(table), table')
<1> DEFINE t == table
           u == table'
           T == Total(table)
<1>1. Sound(t, T) /\ u = [t EXCEPT !.holes = <<>>]
  BY DEF Invariant, Copy
<1> HIDE DEF t, u, T
<1>2. t \in Tables /\ Good(t, T)
  BY <1>1 DEF Sound, Good
<1>3. /\ u \in Tables /\ u.bucket = t.bucket /\ u.mainCap = t.mainCap /\ u.nextFree = t.nextFree
      /\ u.holes = <<>> /\ u.count = t.count
  <2>1. <<>> \in Seq(Nat)
    OBVIOUS
  <2> QED
    BY <1>1, <1>2, <2>1 DEF Tables
<1>4. Pooled(u.bucket, T, u.mainCap, u.holes)
  BY <1>3 DEF Pooled
<1>5. Good(u, T)
  BY <1>2, <1>3, <1>4 DEF Good
<1>6. Sound(u, T)
  BY <1>1, <1>3, <1>5 DEF Sound, Counted
<1>7. Copied(t, T, u)
  BY <1>3, <1>6 DEF Copied
<1> QED
  BY <1>7 DEF t, u, T

\* u holds nothing and has lost nothing
Emptied(u) ==
  /\ Sound(u, 5) /\ Lost(u) = {} /\ u.mainCap = 4
  /\ \A x, y : ~Maps(u.bucket, 5, x, y)

LEMMA ClearStep ==
  ASSUME Clear
  PROVE  Emptied(table')
<1>1. Sized(5) /\ Ratio = 4
  BY PowersDouble DEF Sized, Doubling, Ratio
<1> DEFINE e == Empty(4, 1)
<1>2. /\ Compact(e) /\ e.mainCap = 4
      /\ \A x, y : ~Maps(e.bucket, 5, x, y)
  <2>1. 4 \in Nat \ {0} /\ 1 \in Nat /\ 4 + 1 = 5
    OBVIOUS
  <2>2. /\ Compact(e) /\ e.mainCap = 4
        /\ \A x, y : ~Maps(e.bucket, 4 + 1, x, y)
    BY <2>1, EmptyGood
  <2> QED
    BY <2>1, <2>2
<1>3. Sound(e, 5)
  <2>1. 4 \in Nat \ {0} /\ 1 \in Nat /\ 4 + 1 = 5
    OBVIOUS
  <2> QED
    BY <1>1, <2>1, EmptySound
<1>4. table' = e
  BY <1>1 DEF Clear
<1> HIDE DEF e
<1> QED
  BY <1>2, <1>3, <1>4 DEF Emptied, Compact


\* What a step does to a table: it grows, loses one key, or is replaced.
Outcome(t, T, u) ==
  \/ \E M : Grown(t, T, u, M)
  \/ \E k \in Keys : Removed(t, T, k, u)
  \/ Copied(t, T, u)
  \/ Emptied(u)

LEMMA NextOutcome ==
  ASSUME Invariant, [Next]_table
  PROVE  /\ Outcome(table, Total(table), table')
         /\ Copied(table, Total(table), table') /\ ~Copy => \E M : Grown(table, Total(table), table', M)
<1> DEFINE T == Total(table)
<1>1. Sound(table, T) /\ T \in Nat
  BY GoodIs DEF Invariant, Sound
<1>2. Grown(table, T, table, T)
  BY <1>1 DEF Grown, Stays
<1>3. ASSUME NEW k \in Keys, Erase(k) PROVE Removed(table, T, k, table') \/ table' = table
  BY <1>3, EraseStep
<1>4. ASSUME NEW k \in Keys, NEW v \in Values, Insert(k, v) \/ Assign(k, v) \/ Subscript(k)
      PROVE  \E M : Grown(table, T, table', M)
  BY <1>4, InsertStep, AssignStep, SubscriptStep DEF InsertedInto, AssignedIn
<1>5. ASSUME NEW list \in Others, Merge(list) PROVE \E M : Grown(table, T, table', M)
  BY <1>5, MergeStep DEF Extended
<1>6. ASSUME NEW n \in Requests, EnsureCapacity(n) PROVE \E M : Grown(table, T, table', M)
  BY <1>6, EnsureCapacityStep DEF Enlarged
<1>7. ASSUME Copy PROVE Copied(table, T, table')
  BY <1>7, CopyStep
<1>8. ASSUME Clear PROVE Emptied(table')
  BY <1>8, ClearStep
<1>9. ASSUME NEW k \in Keys, Removed(table, T, k, table') PROVE ~Copied(table, T, table')
  <2>1. table.count \in Int /\ table'.count < table.count
    BY <1>1, <1>9, GoodIs DEF Removed, Sound
  <2> QED
    BY <2>1 DEF Copied
<1>10. ASSUME Emptied(table'), Copied(table, T, table') PROVE \E M : Grown(table, T, table', M)
  <2>1. /\ Sound(table', T) /\ table'.bucket = table.bucket /\ table'.mainCap = table.mainCap
        /\ Lost(table') = {}
    BY <1>10 DEF Copied, Emptied
  <2>2. Grown(table, T, table', T)
    BY <1>1, <2>1 DEF Grown, Stays
  <2> QED
    BY <2>2
<1> HIDE DEF T
<1>11. \/ \E M : Grown(table, T, table', M)
       \/ \E k \in Keys : Removed(table, T, k, table')
       \/ Copy \/ Clear
  BY <1>2, <1>3, <1>4, <1>5, <1>6, DefaultAssumption DEF Next
<1> QED
  BY <1>7, <1>8, <1>9, <1>10, <1>11 DEF Outcome, T

LEMMA NextSound == Invariant /\ [Next]_table => Invariant'
<1> SUFFICES ASSUME Invariant, [Next]_table PROVE Invariant'
  OBVIOUS
<1>1. Outcome(table, Total(table), table')
  BY NextOutcome
<1>2. \E M : Sound(table', M)
  BY <1>1 DEF Outcome, Grown, Removed, Copied, Emptied
<1>3. Sound(table', Total(table'))
  BY <1>2, SoundIs
<1> QED
  BY <1>3 DEF Invariant

LEMMA AlwaysSound == Spec => []Invariant
BY InitSound, NextSound, PTL DEF Spec


-------------------------------------------------------------------------------
(* The theorems *)

\* The table always has the shape that its fields and pointers promise.
THEOREM TypesHold == Spec => []TypeOK
<1>1. ASSUME Invariant PROVE TypeOK
  <2> DEFINE B == table.bucket
             m == table.mainCap
             T == Total(table)
             h == table.holes
  <2>1. Good(table, T) /\ table.count = Cardinality(KeysIn(B, T))
    BY <1>1 DEF Invariant, Sound, Counted
  <2>2. /\ T \in Nat /\ m \in 1 .. T /\ B \in Rows(T) /\ DOMAIN B = 0 .. T - 1
        /\ table.nextFree \in 0 .. T - m /\ h \in Seq(Nat)
    BY <2>1, GoodIs
  <2>3. PICK pos : Chained(B, T, m, pos)
    BY <2>1 DEF Good, Linkable
  <2>4. ASSUME NEW b \in 0 .. T - 1 PROVE B[b].next \in 0 .. T - 1 \cup {Nil}
    <3>1. CASE B[b].used
      BY <2>2, <2>3, <3>1 DEF Chained, LeadsOn
    <3>2. CASE ~B[b].used
      BY <2>3, <3>2, UnusedIs DEF Chained, Blank
    <3> QED
      BY <3>1, <3>2
  <2>5. B \in [0 .. T - 1 -> [used : BOOLEAN, key : Keys \cup {NoKey}, value : Values,
                              next : 0 .. T - 1 \cup {Nil}]]
    <3>1. ASSUME NEW b \in 0 .. T - 1
          PROVE  B[b] \in [used : BOOLEAN, key : Keys \cup {NoKey}, value : Values,
                           next : 0 .. T - 1 \cup {Nil}]
      <4>1. B[b] \in Record
        BY <2>2 DEF Rows
      <4> QED
        BY <2>4, <4>1 DEF Record
    <3> QED
      BY <2>2, <3>1 DEF Rows
  <2>6. h \in Seq(0 .. T - 1)
    <3>1. \A x \in 1 .. Len(h) : h[x] \in m .. T - 1
      BY <2>1 DEF Good, Pooled
    <3>2. \A x \in 1 .. Len(h) : h[x] \in 0 .. T - 1
      BY <2>2, <3>1
    <3> QED
      BY <2>2, <3>2, LenProperties, IsASeq, SMTT(30)
  <2>7. table.count \in 0 .. T
    BY <2>1, <2>2, KeysCounted DEF Good
  <2>8. CollisionCap(table) = T - m
    BY DEF CollisionCap
  <2> QED
    BY <2>2, <2>5, <2>6, <2>7, <2>8 DEF TypeOK, Slots
<1> QED
  BY <1>1, AlwaysSound, PTL


\* No bucket is handed out twice: every known hole is a free collision bucket.
THEOREM HolesAreFree == Spec => []HolesFree
<1>1. ASSUME Invariant PROVE HolesFree
  <2> DEFINE T == Total(table)
             m == table.mainCap
             h == table.holes
  <2>1. Good(table, T)
    BY <1>1 DEF Invariant, Sound
  <2>2. T \in Nat /\ m \in 1 .. T /\ h \in Seq(Nat)
    BY <2>1, GoodIs
  <2>3. DOMAIN h = 1 .. Len(h)
    BY <2>2, LenProperties
  <2>4. \A x \in 1 .. Len(h) : h[x] \in m .. T - 1 /\ ~table.bucket[h[x]].used
    BY <2>1 DEF Good, Pooled
  <2>5. \A x, y \in 1 .. Len(h) : h[x] = h[y] => x = y
    BY <2>1 DEF Good, Pooled
  <2>6. IsInjective(h)
    BY <2>3, <2>5 DEF IsInjective
  <2>7. ASSUME NEW b \in Range(h) PROVE b >= m /\ ~table.bucket[b].used
    <3>1. PICK x \in 1 .. Len(h) : b = h[x]
      BY <2>3 DEF Range
    <3> QED
      BY <2>2, <2>4, <3>1
  <2> QED
    BY <2>6, <2>7 DEF HolesFree
<1> QED
  BY <1>1, AlwaysSound, PTL

\* size() is the number of keys.
THEOREM SizeIsExact == Spec => []SizeExact
<1>1. ASSUME Invariant PROVE SizeExact
  <2> DEFINE T == Total(table)
             K == KeysIn(table.bucket, T)
  <2>1. Good(table, T) /\ table.count = Cardinality(K)
    BY <1>1 DEF Invariant, Sound, Counted
  <2>2. K \subseteq Keys
    BY <2>1, KeysCounted DEF Good
  <2>3. \A k \in Keys : Has(table, k) <=> k \in K
    BY <2>1, HasIs
  <2> HIDE DEF K
  <2>4. K = {k \in Keys : Has(table, k)}
    BY <2>2, <2>3
  <2> QED
    BY <2>1, <2>4 DEF SizeExact
<1> QED
  BY <1>1, AlwaysSound, PTL

\* A rehash finds room for every key.
THEOREM RehashesFit == Spec => []RehashFits
<1>1. ASSUME Invariant PROVE RehashFits
  <2> DEFINE T == Total(table)
             c == Cardinality(KeysIn(table.bucket, T))
             m == MainFor(T + 1)
  <2>1. Good(table, T) /\ table.count = c /\ Sized(T)
    BY <1>1 DEF Invariant, Sound, Counted
  <2>2. c \in Nat /\ c <= T /\ T \in Nat
    BY <2>1, KeysCounted, GoodIs DEF Good
  <2>3. T + 1 \in Nat /\ T < T + 1
    BY <2>2
  <2>4. m \in Nat /\ T < Ratio * m
    BY <2>1, <2>3, MainForGrows
  <2> HIDE DEF c, m
  <2>5. c < Ratio * m
    BY <2>2, <2>4 DEF Ratio
  <2> QED
    BY <2>1, <2>5 DEF RehashFits, m
<1> QED
  BY <1>1, AlwaysSound, PTL

\* Only a copy of the table loses a bucket for good.
THEOREM OnlyCopiesLose == Spec => NothingLost
<1> DEFINE A == Copy \/ Lost(table') \subseteq Lost(table)
<1>1. ASSUME Invariant, [Next]_table PROVE A
  <2>1. /\ Outcome(table, Total(table), table')
        /\ Copied(table, Total(table), table') /\ ~Copy => \E M : Grown(table, Total(table), table', M)
    BY <1>1, NextOutcome
  <2> QED
    BY <2>1 DEF Outcome, Grown, Removed, Emptied
<1>2. NothingLost <=> [][A]_table
  BY DEF NothingLost
<1> HIDE DEF A
<1> QED
  BY <1>1, <1>2, AlwaysSound, PTL DEF Spec

\* A reference into the table survives everything but a rehash and the removal of the
\* key at the head of its chain.
THEOREM EntriesAreStable == Spec => EntriesStay
<1> DEFINE A == (DOMAIN table.bucket = DOMAIN table'.bucket /\ table.mainCap = table'.mainCap) =>
                  \A i \in InUse :
                    LET head == Index(table, table.bucket[i].key)
                        Keeps(j) == table'.bucket[j].key = table.bucket[i].key
                    IN \/ Keeps(i)
                       \/ \A j \in Slots : ~Keeps(j)
                       \/ Keeps(head) /\ table.bucket[head].next = i /\ table'.count < table.count
<1>1. ASSUME Invariant, [Next]_table PROVE A
  <2> DEFINE t == table
             u == table'
             T == Total(table)
  <2> SUFFICES ASSUME DOMAIN t.bucket = DOMAIN u.bucket, NEW i \in InUse
               PROVE  \/ u.bucket[i].key = t.bucket[i].key
                      \/ \A j \in Slots : u.bucket[j].key # t.bucket[i].key
                      \/ LET head == Index(t, t.bucket[i].key)
                         IN /\ u.bucket[head].key = t.bucket[i].key
                            /\ t.bucket[head].next = i /\ u.count < t.count
    OBVIOUS
  <2>1. Good(t, T) /\ T \in Nat /\ DOMAIN t.bucket = 0 .. T - 1
    BY <1>1, GoodIs DEF Invariant, Sound
  <2>2. i \in 0 .. T - 1 /\ t.bucket[i].used /\ Slots = 0 .. T - 1
    BY <2>1 DEF InUse, Slots
  <2>3. Outcome(t, T, u)
    BY <1>1, NextOutcome
  <2>4. \A M : Sound(u, M) => M = T
    <3>1. Total(u) = T
      BY DEF Total
    <3> QED
      BY <3>1, SoundIs
  <2> HIDE DEF T
  <2>5. CASE \E M : Grown(t, T, u, M)
    BY <2>1, <2>2, <2>4, <2>5 DEF Grown, Stays
  <2>6. CASE \E k \in Keys : Removed(t, T, k, u)
    BY <2>1, <2>2, <2>6 DEF Removed, Settled, HashIndex, Index
  <2>7. CASE Copied(t, T, u)
    BY <2>7 DEF Copied
  <2>8. CASE Emptied(u)
    <3>1. Good(u, T) /\ \A x, y : ~Maps(u.bucket, T, x, y)
      BY <2>4, <2>8 DEF Emptied, Sound
    <3>2. PICK pos : Chained(u.bucket, T, u.mainCap, pos)
      BY <3>1 DEF Good, Linkable
    <3>3. \A j \in 0 .. T - 1 : ~u.bucket[j].used
      BY <3>1 DEF Maps
    <3>4. \A j \in 0 .. T - 1 : u.bucket[j].key = NoKey
      BY <3>2, <3>3, UnusedIs DEF Chained, Blank
    <3>5. PICK p : Chained(t.bucket, T, t.mainCap, p)
      BY <2>1 DEF Good, Linkable
    <3>6. t.bucket[i].key # NoKey
      BY <2>2, <3>5, DefaultAssumption DEF Chained, Homed
    <3> QED
      BY <2>2, <3>4, <3>6
  <2> QED
    BY <2>3, <2>5, <2>6, <2>7, <2>8 DEF Outcome
<1>2. EntriesStay <=> [][A]_table
  BY DEF EntriesStay
<1> HIDE DEF A
<1> QED
  BY <1>1, <1>2, AlwaysSound, PTL DEF Spec



-------------------------------------------------------------------------------
(* Iteration *)

\* c visits the used buckets whose keys hash to bucket i, each once
IsChain(c, B, T, m, i) ==
  /\ c \in Seq(0 .. T - 1)
  /\ \A j \in 1 .. Len(c) : /\ B[c[j]].used /\ Home(B, m, c[j]) = i
                            /\ j > 1 => c[j] >= m
  /\ \A j, l \in 1 .. Len(c) : c[j] = c[l] => j = l
  /\ \A b \in 0 .. T - 1 : B[b].used /\ Home(B, m, b) = i => \E j \in 1 .. Len(c) : c[j] = b

LEMMA ChainIs ==
  ASSUME NEW t, NEW T, NEW pos, Chained(t.bucket, T, t.mainCap, pos),
         NEW i \in 0 .. t.mainCap - 1, t.bucket[i].used
  PROVE  IsChain(Chain(t, i), t.bucket, T, t.mainCap, i)
<1> DEFINE B == t.bucket
           m == t.mainCap
           w == Walk(t, i)
           D == {x \in DOMAIN w : w[x] # Nil}
<1>1. T \in Nat /\ m \in 1 .. T /\ i \in 0 .. T - 1
  BY DEF Chained
<1>2. IsWalk(w, B, T, i)
  BY <1>1, WalkIs
<1>3. Chain(t, i) = [n \in 1 .. Cardinality(D) |-> w[n - 1]]
  BY DEF Chain
<1> HIDE DEF w
<1>4. DOMAIN w = 0 .. T
  BY <1>2 DEF IsWalk
<1>5. /\ \A n \in 0 .. T : w[n] # Nil =>
           /\ w[n] \in 0 .. T - 1 /\ B[w[n]].used /\ Home(B, m, w[n]) = i /\ pos[w[n]] = n
           /\ n > 0 => w[n] >= m
      /\ w[T] = Nil
  BY <1>2, WalkStays
<1>6. PICK e \in 0 .. T : w[e] = Nil /\ \A x \in 0 .. T : w[x] = Nil => e <= x
  <2> DEFINE S == {x \in 0 .. T : w[x] = Nil}
  <2>1. S \subseteq Nat /\ T \in S
    BY <1>1, <1>5
  <2> HIDE DEF S
  <2>2. PICK e \in S : \A x \in S : e <= x
    BY <2>1, NatMin
  <2> QED
    BY <2>2 DEF S
<1>7. D = 0 .. e - 1
  <2>1. ASSUME NEW x \in 0 .. T, w[x] # Nil PROVE x < e
    <3>1. Unbroken(w, x)
      BY <1>1, <1>2, <2>1, WalkUnbroken
    <3>2. e \notin 0 .. x
      BY <1>6, <3>1 DEF Unbroken
    <3> QED
      BY <3>2
  <2>2. ASSUME NEW x \in 0 .. e - 1 PROVE x \in 0 .. T /\ w[x] # Nil
    BY <1>1, <1>6
  <2> QED
    BY <1>1, <1>4, <2>1, <2>2
<1>8. Cardinality(D) = e
  <2>1. 0 \in Int /\ e - 1 \in Int
    BY <1>1
  <2>2. Cardinality(0 .. e - 1) = IF 0 > e - 1 THEN 0 ELSE (e - 1) - 0 + 1
    BY <2>1, FS_Interval
  <2>3. Cardinality(0 .. e - 1) = e
    BY <1>1, <2>2
  <2> HIDE DEF D
  <2> QED
    BY <1>7, <2>3
<1> DEFINE c == [n \in 1 .. e |-> w[n - 1]]
<1>9. \A n \in 1 .. e : n - 1 \in 0 .. T /\ w[n - 1] # Nil
  BY <1>1, <1>6
<1>10. c \in Seq(0 .. T - 1) /\ Len(c) = e
  <2>1. e \in Nat /\ \A n \in 1 .. e : w[n - 1] \in 0 .. T - 1
    BY <1>1, <1>5, <1>9
  <2> QED
    BY <2>1, IsASeq, LenProperties
<1>11. \A n \in 1 .. e : c[n] = w[n - 1]
  OBVIOUS
<1> HIDE DEF c, D
<1>12. ASSUME NEW j \in 1 .. e
       PROVE  B[c[j]].used /\ Home(B, m, c[j]) = i /\ pos[c[j]] = j - 1 /\ (j > 1 => c[j] >= m)
  <2>1. j > 1 => j - 1 > 0
    OBVIOUS
  <2> QED
    BY <1>5, <1>9, <1>11, <2>1
<1>13. ASSUME NEW j \in 1 .. e, NEW l \in 1 .. e, c[j] = c[l] PROVE j = l
  <2>1. j - 1 = l - 1
    BY <1>12, <1>13
  <2> QED
    BY <2>1
<1>14. ASSUME NEW b \in 0 .. T - 1, B[b].used, Home(B, m, b) = i
       PROVE  \E j \in 1 .. e : c[j] = b
  <2>1. pos[b] \in 0 .. T - 1 /\ w[pos[b]] = b
    BY <1>2, <1>14, WalkFinds
  <2>2. w[pos[b]] # Nil /\ pos[b] \in DOMAIN w
    BY <1>1, <1>4, <2>1 DEF Nil
  <2>3. pos[b] \in 0 .. e - 1
    BY <1>7, <2>2 DEF D
  <2>4. pos[b] + 1 \in 1 .. e /\ (pos[b] + 1) - 1 = pos[b]
    BY <1>1, <2>3
  <2> QED
    BY <1>11, <2>1, <2>4
<1>15. IsChain(c, B, T, m, i)
  BY <1>10, <1>12, <1>13, <1>14 DEF IsChain
<1> QED
  BY <1>3, <1>8, <1>15 DEF c

\* A chain leads through used buckets that belong on it, and through no other.
THEOREM ChainsAreSound == Spec => []ChainsSound
<1>1. ASSUME Invariant PROVE ChainsSound
  <2> DEFINE B == table.bucket
             m == table.mainCap
             T == Total(table)
  <2>1. Good(table, T) /\ T \in Nat /\ DOMAIN B = 0 .. T - 1
    BY <1>1, GoodIs DEF Invariant, Sound
  <2>2. PICK pos : Chained(B, T, m, pos)
    BY <2>1 DEF Good, Linkable
  <2>3. ASSUME NEW i \in MainSlots \cap InUse, NEW j \in DOMAIN Chain(table, i)
        PROVE  LET b == Chain(table, i)[j] IN
               /\ B[b].used /\ Index(table, B[b].key) = i
               /\ j > 1 => b >= m
    <3> DEFINE c == Chain(table, i)
    <3>1. i \in 0 .. m - 1 /\ B[i].used
      BY DEF MainSlots, InUse
    <3>2. IsChain(c, B, T, m, i)
      BY <2>2, <3>1, ChainIs
    <3> HIDE DEF c
    <3>3. j \in 1 .. Len(c)
      BY <3>2, LenProperties DEF IsChain, c
    <3>4. B[c[j]].used /\ Home(B, m, c[j]) = i /\ (j > 1 => c[j] >= m)
      BY <3>2, <3>3 DEF IsChain
    <3> QED
      BY <3>4 DEF Home, Index, c
  <2>4. \A i, j \in InUse : B[i].key = B[j].key => i = j
    BY <2>1, <2>2 DEF InUse, Slots, Chained, Distinct
  <2>5. \A i \in Slots \ InUse : B[i].next = Nil
    BY <2>1, <2>2, UnusedIs DEF InUse, Slots, Chained, Blank
  <2> QED
    BY <2>3, <2>4, <2>5 DEF ChainsSound
<1> QED
  BY <1>1, AlwaysSound, PTL


\* s visits the used buckets of the first n chains, each once
Visits(s, B, T, m, n) ==
  /\ s \in Seq(0 .. T - 1)
  /\ \A j \in 1 .. Len(s) : B[s[j]].used /\ Home(B, m, s[j]) < n
  /\ \A j, l \in 1 .. Len(s) : s[j] = s[l] => j = l
  /\ \A b \in 0 .. T - 1 : B[b].used /\ Home(B, m, b) < n => \E j \in 1 .. Len(s) : s[j] = b

\* After the chains before it, the next one is visited.
LEMMA VisitChain ==
  ASSUME NEW B, NEW T, NEW m, NEW pos, Chained(B, T, m, pos), NEW n \in 1 .. m,
         NEW s, Visits(s, B, T, m, n - 1), NEW c, IsChain(c, B, T, m, n - 1)
  PROVE  Visits(s \o c, B, T, m, n)
<1> DEFINE q == s \o c
           L == Len(s)
           C == Len(c)
<1>1. s \in Seq(0 .. T - 1) /\ c \in Seq(0 .. T - 1) /\ L \in Nat /\ C \in Nat /\ m \in Nat
  BY LenProperties DEF Visits, IsChain, Chained
<1>2. /\ q \in Seq(0 .. T - 1) /\ Len(q) = L + C
      /\ \A j \in 1 .. L + C : q[j] = IF j <= L THEN s[j] ELSE c[j - L]
  BY <1>1, ConcatProperties
<1>3. \A b \in 0 .. T - 1 : B[b].used => Home(B, m, b) \in 0 .. m - 1
  BY WalkFinds
<1>4. \A j \in 1 .. L : s[j] \in 0 .. T - 1
  BY <1>1, ElementOfSeq
<1>5. \A j \in 1 .. L : B[s[j]].used /\ Home(B, m, s[j]) < n - 1
  BY DEF Visits
<1>6. \A j \in 1 .. C : B[c[j]].used /\ Home(B, m, c[j]) = n - 1
  BY DEF IsChain
<1>7. \A j, l \in 1 .. L : s[j] = s[l] => j = l
  BY DEF Visits
<1>8. \A j, l \in 1 .. C : c[j] = c[l] => j = l
  BY DEF IsChain
<1> HIDE DEF q, L, C
<1>9. \A j \in 1 .. L + C : (j \in 1 .. L /\ q[j] = s[j]) \/ (j - L \in 1 .. C /\ j > L /\ q[j] = c[j - L])
  BY <1>1, <1>2
<1>10. \A j \in 1 .. L, l \in 1 .. C : s[j] # c[l]
  <2> TAKE j \in 1 .. L, l \in 1 .. C
  <2>1. Home(B, m, s[j]) \in Int /\ Home(B, m, s[j]) < n - 1
    BY <1>3, <1>4, <1>5
  <2> QED
    BY <1>6, <2>1
<1>11. ASSUME NEW j \in 1 .. L + C PROVE B[q[j]].used /\ Home(B, m, q[j]) < n
  <2>1. CASE j \in 1 .. L /\ q[j] = s[j]
    <3>1. Home(B, m, s[j]) \in Int /\ Home(B, m, s[j]) < n - 1 /\ B[s[j]].used
      BY <1>3, <1>4, <1>5, <2>1
    <3>2. Home(B, m, s[j]) < n
      BY <3>1
    <3> QED
      BY <2>1, <3>1, <3>2
  <2>2. CASE j - L \in 1 .. C /\ q[j] = c[j - L]
    <3>1. B[c[j - L]].used /\ Home(B, m, c[j - L]) = n - 1
      BY <1>6, <2>2
    <3>2. Home(B, m, c[j - L]) < n
      BY <3>1
    <3> QED
      BY <2>2, <3>1, <3>2
  <2> QED
    BY <1>9, <2>1, <2>2
<1>12. ASSUME NEW j \in 1 .. L + C, NEW l \in 1 .. L + C, q[j] = q[l] PROVE j = l
  <2>1. CASE j \in 1 .. L /\ q[j] = s[j]
    BY <1>7, <1>9, <1>10, <1>12, <2>1
  <2>2. CASE j - L \in 1 .. C /\ q[j] = c[j - L]
    <3>1. l - L \in 1 .. C /\ q[l] = c[l - L]
      BY <1>9, <1>10, <1>12, <2>2
    <3>2. j - L = l - L
      BY <1>8, <1>12, <2>2, <3>1
    <3> QED
      BY <1>1, <3>2
  <2> QED
    BY <1>9, <2>1, <2>2
<1>13. ASSUME NEW b \in 0 .. T - 1, B[b].used, Home(B, m, b) < n PROVE \E j \in 1 .. L + C : q[j] = b
  <2>1. Home(B, m, b) < n - 1 \/ Home(B, m, b) = n - 1
    <3>1. Home(B, m, b) \in Int
      BY <1>3, <1>13
    <3> QED
      BY <1>13, <3>1
  <2>2. CASE Home(B, m, b) < n - 1
    <3>1. PICK j \in 1 .. L : s[j] = b
      BY <1>13, <2>2 DEF Visits, L
    <3>2. j \in 1 .. L + C /\ j <= L
      BY <1>1
    <3> QED
      BY <1>2, <3>1, <3>2
  <2>3. CASE Home(B, m, b) = n - 1
    <3>1. PICK j \in 1 .. C : c[j] = b
      BY <1>13, <2>3 DEF IsChain, C
    <3>2. j + L \in 1 .. L + C /\ ~(j + L <= L) /\ (j + L) - L = j
      BY <1>1
    <3> QED
      BY <1>2, <3>1, <3>2
  <2> QED
    BY <2>1, <2>2, <2>3
<1>14. Visits(q, B, T, m, n)
  BY <1>2, <1>11, <1>12, <1>13 DEF Visits
<1> QED
  BY <1>14 DEF q

\* A chain without its main bucket is empty.
LEMMA VisitNone ==
  ASSUME NEW B, NEW T, NEW m, NEW pos, Chained(B, T, m, pos), NEW n \in 1 .. m, ~B[n - 1].used,
         NEW s, Visits(s, B, T, m, n - 1)
  PROVE  Visits(s, B, T, m, n)
<1>1. \A b \in 0 .. T - 1 : B[b].used => /\ Home(B, m, b) \in 0 .. m - 1 /\ B[Home(B, m, b)].used
  BY WalkFinds
<1>2. m \in Nat /\ s \in Seq(0 .. T - 1)
  BY DEF Chained, Visits
<1>3. \A b \in 0 .. T - 1 : B[b].used => (Home(B, m, b) < n <=> Home(B, m, b) < n - 1)
  <2> TAKE b \in 0 .. T - 1
  <2> HAVE B[b].used
  <2>1. Home(B, m, b) \in Int /\ Home(B, m, b) # n - 1
    BY <1>1
  <2> QED
    BY <2>1
<1>4. \A j \in 1 .. Len(s) : s[j] \in 0 .. T - 1
  BY <1>2, ElementOfSeq
<1> QED
  BY <1>3, <1>4 DEF Visits

\* What the recursion of Iteration computes.
LEMMA IterationIs ==
  ASSUME NEW t, NEW T, NEW pos, Chained(t.bucket, T, t.mainCap, pos)
  PROVE  Visits(Iteration(t), t.bucket, T, t.mainCap, t.mainCap)
<1> DEFINE B == t.bucket
           m == t.mainCap
           V == Seq(0 .. T - 1)
           Add(n) == IF B[n - 1].used THEN Chain(t, n - 1) ELSE <<>>
           Go(n, s) == s \o Add(n)
           IsVisited(f) == f = [n \in 0 .. m |-> IF n = 0 THEN <<>> ELSE Go(n, f[n - 1])]
           d == CHOOSE f : IsVisited(f)
           step == [n \in 1 .. m |-> [s \in V |-> Go(n, s)]]
<1>1. m \in Nat /\ m \in 1 .. T /\ T \in Nat
  BY DEF Chained
<1>2. Iteration(t) = d[m]
  BY DEF Iteration
<1>3. ASSUME NEW n \in 1 .. m, B[n - 1].used PROVE IsChain(Chain(t, n - 1), B, T, m, n - 1)
  <2>1. n - 1 \in 0 .. m - 1
    BY <1>1
  <2> QED
    BY <1>3, <2>1, ChainIs
<1>4. \A n \in 1 .. m : Add(n) \in V
  <2> TAKE n \in 1 .. m
  <2>1. CASE B[n - 1].used
    BY <1>3, <2>1 DEF IsChain
  <2>2. CASE ~B[n - 1].used
    <3>1. <<>> \in V
      BY EmptySeq
    <3> QED
      BY <2>2, <3>1
  <2> QED
    BY <2>1, <2>2
<1>5. ASSUME NEW n \in 1 .. m, NEW s, Visits(s, B, T, m, n - 1) PROVE Visits(Go(n, s), B, T, m, n)
  <2>1. CASE B[n - 1].used
    BY <1>3, <1>5, <2>1, VisitChain
  <2>2. CASE ~B[n - 1].used
    <3>1. s \o <<>> = s
      BY <1>5, ConcatEmptySeq DEF Visits
    <3>2. Visits(s, B, T, m, n)
      BY <1>5, <2>2, VisitNone
    <3> QED
      BY <2>2, <3>1, <3>2
  <2> QED
    BY <2>1, <2>2
<1>6. Visits(<<>>, B, T, m, 0)
  <2>1. <<>> \in V /\ Len(<<>>) = 0
    BY EmptySeq
  <2>2. \A b \in 0 .. T - 1 : B[b].used => ~(Home(B, m, b) < 0)
    <3> TAKE b \in 0 .. T - 1
    <3> HAVE B[b].used
    <3>1. Home(B, m, b) \in 0 .. m - 1
      BY WalkFinds
    <3> QED
      BY <1>1, <3>1
  <2> QED
    BY <2>1, <2>2 DEF Visits
<1> HIDE DEF Add
<1>7. <<>> \in V
  BY EmptySeq
<1>8. step \in [1 .. m -> [V -> V]]
  <2>1. ASSUME NEW n \in 1 .. m, NEW s \in V PROVE Go(n, s) \in V
    BY <1>4, ConcatProperties
  <2> HIDE DEF V, Go
  <2> QED
    BY <2>1
<1> HIDE DEF V
<1>9. \A n \in 1 .. m : \A s \in V : step[n][s] = Go(n, s)
  OBVIOUS
<1> HIDE DEF step, Go
<1>10. PICK f \in [0 .. m -> V] : f = [n \in 0 .. m |-> IF n = 0 THEN <<>> ELSE step[n][f[n - 1]]]
  <2>1. StepsUpTo(m, V, <<>>, step)
    BY <1>1, <1>7, <1>8, BoundedRecursion
  <2> QED
    BY <2>1 DEF StepsUpTo
<1>11. IsVisited(f)
  <2>1. \A n \in 0 .. m : f[n] = IF n = 0 THEN <<>> ELSE Go(n, f[n - 1])
    <3> TAKE n \in 0 .. m
    <3>1. n = 0 \/ (n \in 1 .. m /\ n - 1 \in 0 .. m)
      BY <1>1
    <3> QED
      BY <1>9, <1>10, <3>1
  <2>2. f = [n \in 0 .. m |-> f[n]]
    BY <1>10
  <2> QED
    BY <2>1, <2>2
<1>12. IsVisited(d)
  BY <1>11
<1> HIDE DEF d
<1>13. d[0] = <<>> /\ \A n \in 1 .. m : d[n] = Go(n, d[n - 1])
  BY <1>1, <1>12
<1> HIDE DEF IsVisited
<1> DEFINE S == {n \in 0 .. m : Visits(d[n], B, T, m, n)}
<1>14. 0 .. m \subseteq S
  <2>1. 0 \in S
    BY <1>1, <1>6, <1>13
  <2>2. ASSUME NEW n \in 1 .. m, n - 1 \in S PROVE n \in S
    BY <1>1, <1>5, <1>13, <2>2
  <2> HIDE DEF S
  <2> QED
    BY <1>1, <2>1, <2>2, BoundedInduction
<1>15. Visits(d[m], B, T, m, m)
  BY <1>1, <1>14
<1> QED
  BY <1>2, <1>15

\* An iteration visits every entry exactly once.
THEOREM IterationsAreExact == Spec => []IterationExact
<1>1. ASSUME Invariant PROVE IterationExact
  <2> DEFINE B == table.bucket
             m == table.mainCap
             T == Total(table)
             it == Iteration(table)
  <2>1. Good(table, T) /\ T \in Nat /\ DOMAIN B = 0 .. T - 1
    BY <1>1, GoodIs DEF Invariant, Sound
  <2>2. PICK pos : Chained(B, T, m, pos)
    BY <2>1 DEF Good, Linkable
  <2>3. Visits(it, B, T, m, m)
    BY <2>2, IterationIs
  <2> HIDE DEF it
  <2>4. DOMAIN it = 1 .. Len(it) /\ \A j \in 1 .. Len(it) : it[j] \in 0 .. T - 1
    BY <2>3, LenProperties, ElementOfSeq DEF Visits
  <2>5. \A b \in 0 .. T - 1 : B[b].used => Home(B, m, b) < m
    <3> TAKE b \in 0 .. T - 1
    <3> HAVE B[b].used
    <3>1. Home(B, m, b) \in 0 .. m - 1 /\ m \in Nat
      BY <2>2, WalkFinds DEF Chained
    <3> QED
      BY <3>1
  <2>6. IsInjective(it)
    BY <2>3, <2>4 DEF Visits, IsInjective
  <2>7. ASSUME NEW b PROVE b \in Range(it) <=> b \in InUse
    <3>1. b \in Range(it) <=> \E j \in 1 .. Len(it) : it[j] = b
      BY <2>4 DEF Range
    <3>2. b \in InUse <=> b \in 0 .. T - 1 /\ B[b].used
      BY <2>1 DEF InUse, Slots
    <3> QED
      BY <2>3, <2>4, <2>5, <3>1, <3>2 DEF Visits
  <2>8. Range(it) = InUse
    BY <2>7
  <2> QED
    BY <2>6, <2>8 DEF IterationExact, it
<1> QED
  BY <1>1, AlwaysSound, PTL



-------------------------------------------------------------------------------
(* Refinement of Dictionary *)

ContentsOf(t) == [k \in {x \in Keys : Has(t, x)} |-> t.bucket[At(t, k)].value]

\* d is the map of the entries in a block
Represents(d, B, T) ==
  /\ d \in [KeysIn(B, T) -> Values]
  /\ KeysIn(B, T) \subseteq Keys
  /\ \A x, y : Maps(B, T, x, y) <=> (x \in KeysIn(B, T) /\ d[x] = y)

LEMMA ContentsIs ==
  ASSUME NEW t, NEW T, Good(t, T)
  PROVE  Represents(ContentsOf(t), t.bucket, T)
<1> DEFINE B == t.bucket
           K == KeysIn(B, T)
           d == ContentsOf(t)
<1>1. PICK pos : Chained(B, T, t.mainCap, pos)
  BY DEF Good, Linkable
<1>2. K \subseteq Keys
  BY KeysCounted DEF Good
<1>3. \A k \in Keys : Has(t, k) <=> k \in K
  BY HasIs
<1>4. \A k \in Keys : Has(t, k) => At(t, k) \in 0 .. T - 1 /\ B[At(t, k)].used /\ B[At(t, k)].key = k
  BY HasIs
<1>5. K = {x \in Keys : Has(t, x)}
  <2> HIDE DEF K
  <2> QED
    BY <1>2, <1>3
<1>6. DOMAIN d = K /\ d = [x \in K |-> d[x]] /\ \A x \in K : d[x] = B[At(t, x)].value
  <2> HIDE DEF K
  <2> QED
    BY <1>5 DEF ContentsOf
<1> HIDE DEF d
<1>7. \A b \in 0 .. T - 1 : B[b].value \in Values
  <2> TAKE b \in 0 .. T - 1
  <2>1. B[b] \in Record
    BY <1>1 DEF Chained, Rows
  <2> QED
    BY <2>1 DEF Record
<1>8. \A b, c \in 0 .. T - 1 : B[b].used /\ B[c].used /\ B[b].key = B[c].key => b = c
  BY <1>1 DEF Chained, Distinct
<1>9. \A x, y : Maps(B, T, x, y) => x \in K
  BY KeysMapped
<1> HIDE DEF K
<1>10. \A x \in K : d[x] \in Values
  BY <1>2, <1>3, <1>4, <1>6, <1>7
<1>11. ASSUME NEW x, NEW y PROVE Maps(B, T, x, y) <=> (x \in K /\ d[x] = y)
  <2>1. ASSUME Maps(B, T, x, y) PROVE x \in K /\ d[x] = y
    <3>1. x \in K
      BY <1>9, <2>1
    <3>2. x \in Keys /\ Has(t, x)
      BY <1>2, <1>3, <3>1
    <3>3. PICK b \in 0 .. T - 1 : B[b].used /\ B[b].key = x /\ B[b].value = y
      BY <2>1 DEF Maps
    <3>4. b = At(t, x)
      BY <1>4, <1>8, <3>2, <3>3
    <3> QED
      BY <1>6, <3>1, <3>3, <3>4
  <2>2. ASSUME x \in K, d[x] = y PROVE Maps(B, T, x, y)
    BY <1>2, <1>3, <1>4, <1>6, <2>2 DEF Maps
  <2> QED
    BY <2>1, <2>2
<1>12. d \in [K -> Values]
  BY <1>6, <1>10
<1>13. Represents(d, B, T)
  BY <1>2, <1>11, <1>12 DEF Represents, K
<1> QED
  BY <1>13 DEF d

\* f, with the domain F, is the map of the entries in a block
Denotes(f, F, B, T) ==
  /\ f = [x \in F |-> f[x]]
  /\ \A x, y : Maps(B, T, x, y) <=> (x \in F /\ f[x] = y)

\* The entries determine the map.
LEMMA SameContents ==
  ASSUME NEW B, NEW T, NEW d, Represents(d, B, T), NEW f, NEW F, Denotes(f, F, B, T)
  PROVE  d = f
<1> DEFINE K == KeysIn(B, T)
<1>1. d = [x \in K |-> d[x]] /\ \A x, y : Maps(B, T, x, y) <=> (x \in K /\ d[x] = y)
  BY DEF Represents
<1> HIDE DEF K
<1>2. f = [x \in F |-> f[x]] /\ \A x, y : Maps(B, T, x, y) <=> (x \in F /\ f[x] = y)
  BY DEF Denotes
<1>3. \A x : x \in K <=> x \in F
  BY <1>1, <1>2
<1>4. K = F
  BY <1>3
<1>5. \A x \in K : d[x] = f[x]
  BY <1>1, <1>2, <1>4
<1> QED
  BY <1>1, <1>2, <1>4, <1>5

\* A new entry leaves the others alone.
LEMMA InsertedMap ==
  ASSUME NEW B, NEW T, NEW d, Represents(d, B, T), NEW k \in Keys, NEW v \in Values,
         NEW C, NEW M, NEW e, Represents(e, C, M),
         \A x, y : Maps(C, M, x, y) <=>
                    (Maps(B, T, x, y) \/ (x = k /\ y = v /\ k \notin KeysIn(B, T)))
  PROVE  e = Map!Override(d, Map!Entry(k, v))
<1> DEFINE K == KeysIn(B, T)
           f == Map!Override(d, Map!Entry(k, v))
           F == K \cup {k}
<1>1. /\ d \in [K -> Values]
      /\ \A x, y : Maps(B, T, x, y) <=> (x \in K /\ d[x] = y)
  BY DEF Represents
<1> HIDE DEF K
<1>2. f = [x \in F |-> IF x \in K THEN d[x] ELSE v]
  BY <1>1 DEF Map!Override, Map!Entry
<1> HIDE DEF f, F
<1>3. \A x : x \in F <=> x \in K \/ x = k
  BY DEF F
<1>4. \A x, y : Maps(C, M, x, y) <=> (x \in F /\ f[x] = y)
  BY <1>1, <1>2, <1>3 DEF K
<1>5. Denotes(f, F, C, M)
  BY <1>2, <1>4 DEF Denotes
<1> QED
  BY <1>5, SameContents DEF f


\* An assigned entry replaces the one of its key and leaves the others alone.
LEMMA AssignedMap ==
  ASSUME NEW B, NEW T, NEW d, Represents(d, B, T), NEW k \in Keys, NEW v \in Values,
         NEW C, NEW M, NEW e, Represents(e, C, M),
         \A x, y : Maps(C, M, x, y) <=> ((Maps(B, T, x, y) /\ x # k) \/ (x = k /\ y = v))
  PROVE  e = Map!Override(Map!Entry(k, v), d)
<1> DEFINE K == KeysIn(B, T)
           f == Map!Override(Map!Entry(k, v), d)
           F == {k} \cup K
<1>1. /\ d \in [K -> Values]
      /\ \A x, y : Maps(B, T, x, y) <=> (x \in K /\ d[x] = y)
  BY DEF Represents
<1> HIDE DEF K
<1>2. f = [x \in F |-> IF x = k THEN v ELSE d[x]]
  BY <1>1 DEF Map!Override, Map!Entry
<1> HIDE DEF f, F
<1>3. \A x : x \in F <=> x \in K \/ x = k
  BY DEF F
<1>4. \A x, y : Maps(C, M, x, y) <=> (x \in F /\ f[x] = y)
  BY <1>1, <1>2, <1>3
<1>5. Denotes(f, F, C, M)
  BY <1>2, <1>4 DEF Denotes
<1> QED
  BY <1>5, SameContents DEF f

\* A removed entry leaves the others alone.
LEMMA ErasedMap ==
  ASSUME NEW B, NEW T, NEW d, Represents(d, B, T), NEW k \in Keys,
         NEW C, NEW M, NEW e, Represents(e, C, M),
         \A x, y : Maps(C, M, x, y) <=> (Maps(B, T, x, y) /\ x # k)
  PROVE  e \in Map!Erased(d)
<1> DEFINE K == KeysIn(B, T)
           F == K \ {k}
           f == [x \in F |-> d[x]]
<1>1. /\ d \in [K -> Values] /\ DOMAIN d = K
      /\ \A x, y : Maps(B, T, x, y) <=> (x \in K /\ d[x] = y)
  BY DEF Represents
<1> HIDE DEF K
<1>2. f \in Map!Erased(d)
  BY <1>1 DEF Map!Erased, Map!Restrict
<1>3. \A x : x \in F <=> x \in K /\ x # k
  OBVIOUS
<1> HIDE DEF F
<1>4. \A x \in F : f[x] = d[x]
  OBVIOUS
<1>5. f = [x \in F |-> f[x]]
  OBVIOUS
<1> HIDE DEF f
<1>6. \A x, y : Maps(C, M, x, y) <=> (x \in F /\ f[x] = y)
  BY <1>1, <1>3, <1>4
<1>7. Denotes(f, F, C, M)
  BY <1>5, <1>6 DEF Denotes
<1>8. e = f
  BY <1>7, SameContents
<1> QED
  BY <1>2, <1>8

\* The same entries are the same map.
LEMMA KeptMap ==
  ASSUME NEW B, NEW T, NEW d, Represents(d, B, T),
         NEW C, NEW M, NEW e, Represents(e, C, M),
         \A x, y : Maps(C, M, x, y) <=> Maps(B, T, x, y)
  PROVE  e = d
<1> DEFINE K == KeysIn(B, T)
<1>1. Denotes(d, K, C, M)
  <2>1. d = [x \in K |-> d[x]] /\ \A x, y : Maps(B, T, x, y) <=> (x \in K /\ d[x] = y)
    BY DEF Represents
  <2> HIDE DEF K
  <2> QED
    BY <2>1 DEF Denotes
<1> QED
  BY <1>1, SameContents

\* A list, read as a map, gives each key the value of its first pair.
LEMMA AsMapIs ==
  ASSUME NEW list \in Seq(Keys \X Values)
  PROVE  /\ AsMap(list) = [x \in DOMAIN AsMap(list) |-> AsMap(list)[x]]
         /\ \A x, y : Listed(list, Len(list), x, y) <=> (x \in DOMAIN AsMap(list) /\ AsMap(list)[x] = y)
<1> DEFINE N == Len(list)
           F == {list[a][1] : a \in DOMAIN list}
           At1(x) == {a \in DOMAIN list : list[a][1] = x}
           f == AsMap(list)
<1>1. N \in Nat /\ DOMAIN list = 1 .. N /\ \A a \in 1 .. N : list[a] \in Keys \X Values
  BY LenProperties, ElementOfSeq
<1>2. f = [x \in F |-> list[Min(At1(x))][2]]
  BY DEF AsMap
<1> HIDE DEF f
<1>3. \A x : x \in F <=> \E a \in 1 .. N : list[a][1] = x
  BY <1>1
<1> HIDE DEF F
<1>4. ASSUME NEW x \in F
      PROVE  /\ Min(At1(x)) \in 1 .. N /\ list[Min(At1(x))][1] = x
             /\ \A c \in 1 .. N : list[c][1] = x => Min(At1(x)) <= c
  <2> DEFINE S == At1(x)
  <2>1. S \subseteq Nat /\ S # {} /\ \A c : c \in S <=> c \in 1 .. N /\ list[c][1] = x
    BY <1>1, <1>3
  <2> HIDE DEF S
  <2>2. \E a \in S : \A c \in S : a <= c
    BY <2>1, NatMin
  <2>3. Min(S) \in S /\ \A c \in S : Min(S) <= c
    BY <2>2 DEF Min
  <2> QED
    BY <2>1, <2>3 DEF S
<1> HIDE DEF At1
<1>5. \A x \in F : f[x] = list[Min(At1(x))][2]
  BY <1>2
<1>6. \A a \in 1 .. N : list[a] = <<list[a][1], list[a][2]>>
  BY <1>1
<1>7. ASSUME NEW x, NEW y PROVE Listed(list, N, x, y) <=> (x \in F /\ f[x] = y)
  <2>1. ASSUME Listed(list, N, x, y) PROVE x \in F /\ f[x] = y
    <3>1. PICK a \in 1 .. N : list[a] = <<x, y>> /\ \A c \in 1 .. a - 1 : list[c][1] # x
      BY <2>1 DEF Listed
    <3>2. x \in F /\ list[a][1] = x
      BY <1>3, <3>1
    <3> DEFINE n == Min(At1(x))
    <3>3. n \in 1 .. N /\ list[n][1] = x /\ n <= a
      BY <1>4, <3>2
    <3>4. n \notin 1 .. a - 1
      BY <3>1, <3>3
    <3>5. n = a
      BY <1>1, <3>3, <3>4
    <3> HIDE DEF n
    <3>6. list[n][2] = y
      BY <3>1, <3>5
    <3> QED
      BY <1>5, <3>2, <3>6 DEF n
  <2>2. ASSUME x \in F, f[x] = y PROVE Listed(list, N, x, y)
    <3> DEFINE n == Min(At1(x))
    <3>1. /\ n \in 1 .. N /\ list[n][1] = x /\ f[x] = list[n][2]
          /\ \A c \in 1 .. N : list[c][1] = x => n <= c
      BY <1>4, <1>5, <2>2
    <3> HIDE DEF n
    <3>2. list[n] = <<x, y>>
      BY <1>6, <2>2, <3>1
    <3>3. \A c \in 1 .. n - 1 : list[c][1] # x
      <4> TAKE c \in 1 .. n - 1
      <4>1. c \in 1 .. N /\ ~(n <= c)
        BY <1>1, <3>1
      <4> QED
        BY <3>1, <4>1
    <3> QED
      BY <3>1, <3>2, <3>3 DEF Listed
  <2> QED
    BY <2>1, <2>2
<1>8. DOMAIN f = F
  BY <1>2
<1>9. f = [x \in F |-> f[x]]
  BY <1>2
<1> QED
  BY <1>7, <1>8, <1>9 DEF f

\* A list that is merged in adds what the map does not hold.
LEMMA MergedMap ==
  ASSUME NEW B, NEW T, NEW d, Represents(d, B, T), NEW list \in Seq(Keys \X Values),
         NEW C, NEW M, NEW e, Represents(e, C, M),
         \A x, y : Maps(C, M, x, y) <=>
                    (Maps(B, T, x, y) \/ (x \notin KeysIn(B, T) /\ Listed(list, Len(list), x, y)))
  PROVE  e = Map!Override(d, AsMap(list))
<1> DEFINE K == KeysIn(B, T)
           a == AsMap(list)
           f == Map!Override(d, a)
           F == K \cup DOMAIN a
<1>1. /\ d \in [K -> Values] /\ DOMAIN d = K
      /\ \A x, y : Maps(B, T, x, y) <=> (x \in K /\ d[x] = y)
  BY DEF Represents
<1>2. \A x, y : Listed(list, Len(list), x, y) <=> (x \in DOMAIN a /\ a[x] = y)
  BY AsMapIs
<1> HIDE DEF K, a
<1>3. f = [x \in F |-> IF x \in K THEN d[x] ELSE a[x]]
  BY <1>1 DEF Map!Override
<1> HIDE DEF f, F
<1>4. \A x : x \in F <=> x \in K \/ x \in DOMAIN a
  BY DEF F
<1>5. \A x, y : Maps(C, M, x, y) <=> (x \in F /\ f[x] = y)
  BY <1>1, <1>2, <1>3, <1>4 DEF K
<1>6. Denotes(f, F, C, M)
  BY <1>3, <1>5 DEF Denotes
<1> QED
  BY <1>6, SameContents DEF f, a


\* Every step of the table is a step of the map it represents.
LEMMA StepIsMapStep ==
  ASSUME Invariant, [Next]_table
  PROVE  [Map!Next]_Contents
<1> DEFINE B == table.bucket
           T == Total(table)
           C == table'.bucket
           d == ContentsOf(table)
           e == ContentsOf(table')
<1>1. Represents(d, B, T)
  BY ContentsIs DEF Invariant, Sound
<1>2. Contents = d /\ Contents' = e
  BY DEF Contents, ContentsOf
<1>3. ASSUME NEW M, Sound(table', M) PROVE Represents(e, C, M)
  BY <1>3, ContentsIs DEF Sound
<1> HIDE DEF d, e
<1> SUFFICES e \in Map!Outcomes(d) \/ e = d
  BY <1>2 DEF Map!Next
<1>4. ASSUME NEW k \in Keys, NEW v \in Values, Insert(k, v) PROVE e \in Map!Inserted(d)
  <2>1. InsertedInto(table, T, k, v, table')
    BY <1>4, InsertStep
  <2>2. PICK M : /\ Sound(table', M)
                 /\ \A x, y : Maps(C, M, x, y) <=>
                                (Maps(B, T, x, y) \/ (x = k /\ y = v /\ k \notin KeysIn(B, T)))
    BY <2>1 DEF InsertedInto, Grown
  <2>3. e = Map!Override(d, Map!Entry(k, v))
    BY <1>1, <1>3, <2>2, InsertedMap
  <2> QED
    BY <2>3 DEF Map!Inserted
<1>5. ASSUME NEW k \in Keys, Subscript(k) PROVE e \in Map!Subscripted(d)
  <2>1. InsertedInto(table, T, k, Default, table')
    BY <1>5, SubscriptStep
  <2>2. PICK M : /\ Sound(table', M)
                 /\ \A x, y : Maps(C, M, x, y) <=>
                                (Maps(B, T, x, y) \/ (x = k /\ y = Default /\ k \notin KeysIn(B, T)))
    BY <2>1 DEF InsertedInto, Grown
  <2>3. e = Map!Override(d, Map!Entry(k, Default))
    BY <1>1, <1>3, <2>2, InsertedMap, DefaultAssumption
  <2> QED
    BY <2>3 DEF Map!Subscripted
<1>6. ASSUME NEW k \in Keys, NEW v \in Values, Assign(k, v) PROVE e \in Map!Assigned(d)
  <2>1. AssignedIn(table, T, k, v, table')
    BY <1>6, AssignStep
  <2>2. PICK M : /\ Sound(table', M)
                 /\ \A x, y : Maps(C, M, x, y) <=>
                                ((Maps(B, T, x, y) /\ x # k) \/ (x = k /\ y = v))
    BY <2>1 DEF AssignedIn, Grown
  <2>3. e = Map!Override(Map!Entry(k, v), d)
    BY <1>1, <1>3, <2>2, AssignedMap
  <2> QED
    BY <2>3 DEF Map!Assigned
<1>7. ASSUME NEW k \in Keys, Erase(k) PROVE e \in Map!Erased(d) \/ e = d
  <2>1. CASE Has(table, k)
    <3>1. Removed(table, T, k, table')
      BY <1>7, <2>1, EraseStep
    <3>2. /\ Sound(table', T)
          /\ \A x, y : Maps(C, T, x, y) <=> (Maps(B, T, x, y) /\ x # k)
      BY <3>1 DEF Removed
    <3> QED
      BY <1>1, <1>3, <3>2, ErasedMap
  <2>2. CASE ~Has(table, k)
    <3>1. table' = table
      BY <1>7, <2>2, EraseStep
    <3> QED
      BY <3>1 DEF d, e
  <2> QED
    BY <2>1, <2>2
<1>8. ASSUME NEW list \in Others, Merge(list) PROVE e = Map!Override(d, AsMap(list))
  <2>1. Extended(table, T, list, Len(list), table')
    BY <1>8, MergeStep
  <2>2. PICK M : /\ Sound(table', M)
                 /\ \A x, y : Maps(C, M, x, y) <=>
                      (Maps(B, T, x, y) \/ (x \notin KeysIn(B, T) /\ Listed(list, Len(list), x, y)))
    BY <2>1 DEF Extended, Grown
  <2>3. list \in Seq(Keys \X Values)
    BY ListsAssumption
  <2> QED
    BY <1>1, <1>3, <2>2, <2>3, MergedMap
<1>9. ASSUME NEW n \in Requests, EnsureCapacity(n) PROVE e = d
  <2>1. Enlarged(table, T, table')
    BY <1>9, EnsureCapacityStep
  <2>2. PICK M : /\ Sound(table', M)
                 /\ \A x, y : Maps(C, M, x, y) <=> Maps(B, T, x, y)
    BY <2>1 DEF Enlarged, Grown
  <2> QED
    BY <1>1, <1>3, <2>2, KeptMap
<1>10. ASSUME Copy PROVE e = d
  <2>1. Copied(table, T, table')
    BY <1>10, CopyStep
  <2>2. /\ Sound(table', T)
        /\ \A x, y : Maps(C, T, x, y) <=> Maps(B, T, x, y)
    BY <2>1 DEF Copied
  <2> QED
    BY <1>1, <1>3, <2>2, KeptMap
<1>11. ASSUME Clear PROVE e = Map!NoEntry
  <2>1. /\ Sound(table', 5)
        /\ \A x, y : ~Maps(C, 5, x, y)
    BY <1>11, ClearStep DEF Emptied
  <2> DEFINE f == Map!NoEntry
  <2>2. f = [x \in {} |-> f[x]]
    BY DEF Map!NoEntry
  <2> HIDE DEF f
  <2>3. Denotes(f, {}, C, 5)
    BY <2>1, <2>2 DEF Denotes
  <2>4. e = f
    BY <1>3, <2>1, <2>3, SameContents
  <2> QED
    BY <2>4 DEF f
<1>12. CASE Next
  <2>1. \/ \E k \in Keys, v \in Values : Insert(k, v) \/ Assign(k, v)
        \/ \E k \in Keys : Subscript(k) \/ Erase(k)
        \/ \E list \in Others : Merge(list)
        \/ \E n \in Requests : EnsureCapacity(n)
        \/ Copy
        \/ Clear
    BY <1>12 DEF Next
  <2>2. \A list \in Others : Map!Override(d, AsMap(list)) \in Map!Merged(d)
    BY DEF Map!Merged
  <2> QED
    BY <1>4, <1>5, <1>6, <1>7, <1>8, <1>9, <1>10, <1>11, <2>1, <2>2 DEF Map!Outcomes
<1>13. CASE UNCHANGED table
  BY <1>13 DEF d, e
<1> QED
  BY <1>12, <1>13

LEMMA StartsAsMap == Invariant => Map!Init
<1> SUFFICES ASSUME Invariant PROVE Map!Init
  OBVIOUS
<1> DEFINE K == KeysIn(table.bucket, Total(table))
           d == ContentsOf(table)
<1>1. Represents(d, table.bucket, Total(table))
  BY ContentsIs DEF Invariant, Sound
<1>2. Contents = d
  BY DEF Contents, ContentsOf
<1> HIDE DEF d
<1>3. d \in [K -> Values] /\ K \in SUBSET Keys
  BY <1>1 DEF Represents
<1> HIDE DEF K
<1>4. d \in UNION {[S -> Values] : S \in SUBSET Keys}
  BY <1>3
<1> QED
  BY <1>2, <1>4 DEF Map!Init, Map!Maps

\* The table implements a finite map.
THEOREM ImplementsMap == Spec => IsMap
<1>1. Init => Map!Init
  BY InitSound, StartsAsMap
<1>2. Invariant /\ [Next]_table => [Map!Next]_Contents
  BY StepIsMapStep
<1>3. IsMap <=> Map!Init /\ [][Map!Next]_Contents
  BY DEF IsMap, Map!Spec
<1> QED
  BY <1>1, <1>2, <1>3, AlwaysSound, PTL DEF Spec

===============================================================================
