---------------------------- MODULE SequenceFacts ----------------------------
(***************************************************************************)
(* Facts about sequences: Front, Last, Append and the replacement of the   *)
(* last element, for those that are used as stacks; the removal and the    *)
(* insertion of an element; the least element of a set of naturals; and    *)
(* recursion and induction over the natural numbers.                       *)
(***************************************************************************)
EXTENDS SequencesExt, Integers, SequenceTheorems, WellFoundedInduction, TLAPS

\* Front(s) is s without its last element.
LEMMA FrontFacts ==
  ASSUME NEW S, NEW s \in Seq(S), s # <<>>
  PROVE  /\ Len(s) \in Nat \ {0}
         /\ Front(s) \in Seq(S)
         /\ Len(Front(s)) = Len(s) - 1
         /\ \A i \in 1..(Len(s) - 1) : Front(s)[i] = s[i]
         /\ Last(s) = s[Len(s)]
         /\ Last(s) \in S
<1>1. Len(s) \in Nat \ {0}
  BY EmptySeq
<1>2. \A i \in 1..Len(s) : s[i] \in S
  BY <1>1, ElementOfSeq
<1> DEFINE m == Len(s) - 1
<1>3. m \in Nat
  BY <1>1
<1>4. \A i \in 1..m : s[i] \in S
  BY <1>1, <1>2
<1> HIDE DEF m
<1>5. /\ SubSeq(s, 1, m) \in Seq(S)
      /\ Len(SubSeq(s, 1, m)) = IF 1 <= m THEN m - 1 + 1 ELSE 0
      /\ \A i \in 1..(m - 1 + 1) : SubSeq(s, 1, m)[i] = s[1 + i - 1]
  <2>1. 1 \in Int /\ m \in Int
    BY <1>3
  <2> QED BY <2>1, <1>4, SubSeqProperties
<1>6. Front(s) = SubSeq(s, 1, m)
  BY DEF Front, m
<1>7. m - 1 + 1 = m /\ (1 <= m \/ m = 0) /\ \A i \in 1..m : 1 + i - 1 = i
  BY <1>3
<1>8. /\ Front(s) \in Seq(S)
      /\ Len(Front(s)) = m
      /\ \A i \in 1..m : Front(s)[i] = s[i]
  BY <1>3, <1>5, <1>6, <1>7
<1>9. Last(s) = s[Len(s)] /\ Last(s) \in S
  BY <1>1, <1>2 DEF Last
<1> QED BY <1>1, <1>8, <1>9 DEF m

\* Removing what was appended gives back the sequence.
LEMMA FrontAppend ==
  ASSUME NEW S, NEW s \in Seq(S), NEW x \in S
  PROVE  Front(Append(s, x)) = s
<1> DEFINE t == Append(s, x)
<1>1. t \in Seq(S) /\ t # <<>> /\ Len(t) = Len(s) + 1 /\ \A i \in 1..Len(s) : t[i] = s[i]
  BY AppendProperties
<1>2. Len(s) \in Nat
  BY LenProperties
<1> HIDE DEF t
<1>3. /\ Front(t) \in Seq(S) /\ Len(Front(t)) = Len(t) - 1
      /\ \A i \in 1..(Len(t) - 1) : Front(t)[i] = t[i]
  BY <1>1, FrontFacts
<1>4. Len(Front(t)) = Len(s) /\ \A i \in 1..Len(s) : Front(t)[i] = s[i]
  BY <1>1, <1>2, <1>3
<1>5. Front(t) = s
  BY <1>3, <1>4, SeqEqual
<1> QED BY <1>5 DEF t

\* Replacing the last element leaves the others alone.
LEMMA ReplaceLast ==
  ASSUME NEW S, NEW s \in Seq(S), s # <<>>, NEW x \in S
  PROVE  LET t == [s EXCEPT ![Len(s)] = x] IN
         /\ t \in Seq(S) /\ t # <<>>
         /\ Len(t) = Len(s)
         /\ Last(t) = x
         /\ t[Len(s)] = x
         /\ \A i \in 1..(Len(s) - 1) : t[i] = s[i]
<1> DEFINE t == [s EXCEPT ![Len(s)] = x]
<1>1. Len(s) \in Nat \ {0}
  BY EmptySeq
<1>2. /\ t \in Seq(S) /\ Len(t) = Len(s)
      /\ \A j \in 1..Len(s) : t[j] = IF j = Len(s) THEN x ELSE s[j]
  BY <1>1, ExceptSeq
<1> HIDE DEF t
<1>3. t # <<>>
  BY <1>1, <1>2, EmptySeq
<1>4. t[Len(s)] = x /\ \A i \in 1..(Len(s) - 1) : t[i] = s[i]
  BY <1>1, <1>2
<1>5. Last(t) = x
  BY <1>2, <1>4 DEF Last
<1>6. /\ t \in Seq(S) /\ t # <<>> /\ Len(t) = Len(s) /\ Last(t) = x
      /\ t[Len(s)] = x /\ \A i \in 1..(Len(s) - 1) : t[i] = s[i]
  BY <1>2, <1>3, <1>4, <1>5
<1> QED BY <1>6 DEF t

\* A set of naturals has a least element.
LEMMA NatMin ==
  ASSUME NEW T, T \subseteq Nat, T # {}
  PROVE  \E n \in T : \A m \in T : n <= m
<1> DEFINE R == OpToRel(<, Nat)
<1>1. IsWellFoundedOn(R, Nat)
  BY NatLessThanWellFounded
<1>2. \A x, y \in Nat : <<y, x>> \in R <=> y < x
  BY DEF OpToRel
<1> HIDE DEF R
<1>3. PICK x \in T : \A y \in T : ~(<<y, x>> \in R)
  BY <1>1, WFMin
<1>4. \A m \in T : ~(m < x)
  BY <1>2, <1>3, Zenon
<1>5. x \in Nat /\ \A m \in T : m \in Nat
  OBVIOUS
<1>6. \A m \in T : x <= m
  BY <1>4, <1>5
<1> QED BY <1>6

\* A sequence without its element at i.
LEMMA RemoveAtFacts ==
  ASSUME NEW S, NEW s \in Seq(S), NEW i \in 1 .. Len(s)
  PROVE  /\ RemoveAt(s, i) \in Seq(S)
         /\ Len(RemoveAt(s, i)) = Len(s) - 1
         /\ \A j \in 1 .. Len(s) - 1 : RemoveAt(s, i)[j] = IF j < i THEN s[j] ELSE s[j + 1]
<1> DEFINE n == Len(s)
           p == SubSeq(s, 1, i - 1)
           q == SubSeq(s, i + 1, n)
<1>1. n \in Nat /\ i \in Nat \ {0} /\ i <= n /\ \A j \in 1 .. n : s[j] \in S
  BY LenProperties, ElementOfSeq
<1>2. /\ p \in Seq(S) /\ Len(p) = i - 1 /\ \A j \in 1 .. i - 1 : p[j] = s[j]
  <2>1. 1 \in Int /\ i - 1 \in Int /\ \A j \in 1 .. i - 1 : s[j] \in S
    BY <1>1
  <2>2. /\ p \in Seq(S) /\ Len(p) = IF 1 <= i - 1 THEN (i - 1) - 1 + 1 ELSE 0
        /\ \A j \in 1 .. (i - 1) - 1 + 1 : p[j] = s[1 + j - 1]
    BY <2>1, SubSeqProperties
  <2> HIDE DEF p
  <2> QED BY <1>1, <2>2
<1>3. /\ q \in Seq(S) /\ Len(q) = n - i /\ \A j \in 1 .. n - i : q[j] = s[i + j]
  <2>1. i + 1 \in Int /\ n \in Int /\ \A j \in i + 1 .. n : s[j] \in S
    BY <1>1
  <2>2. /\ q \in Seq(S) /\ Len(q) = IF i + 1 <= n THEN n - (i + 1) + 1 ELSE 0
        /\ \A j \in 1 .. n - (i + 1) + 1 : q[j] = s[(i + 1) + j - 1]
    BY <2>1, SubSeqProperties
  <2> HIDE DEF q
  <2>3. n - (i + 1) + 1 = n - i /\ \A j \in 1 .. n - i : (i + 1) + j - 1 = i + j
    BY <1>1
  <2>4. n - i \in Nat /\ (i + 1 <= n \/ n - i = 0)
    BY <1>1
  <2> HIDE DEF n
  <2>5. \A j \in 1 .. n - i : q[j] = s[i + j]
    BY <2>2, <2>3
  <2>6. Len(q) = n - i
    BY <2>2, <2>3, <2>4
  <2> QED BY <2>2, <2>5, <2>6
<1>4. RemoveAt(s, i) = p \o q
  BY DEF RemoveAt
<1> HIDE DEF p, q
<1>5. /\ p \o q \in Seq(S) /\ Len(p \o q) = Len(p) + Len(q)
      /\ \A j \in 1 .. Len(p) + Len(q) : (p \o q)[j] = IF j <= Len(p) THEN p[j] ELSE q[j - Len(p)]
  BY <1>2, <1>3, ConcatProperties
<1> HIDE DEF n
<1>6. /\ Len(p) + Len(q) = n - 1
  BY <1>1, <1>2, <1>3
<1>7. \A j \in 1 .. n - 1 : (p \o q)[j] = IF j < i THEN s[j] ELSE s[j + 1]
  <2> TAKE j \in 1 .. n - 1
  <2>1. CASE j < i
    BY <1>1, <1>2, <1>5, <1>6, <2>1
  <2>2. CASE ~(j < i)
    <3>1. j - (i - 1) \in 1 .. n - i /\ i + (j - (i - 1)) = j + 1 /\ ~(j <= i - 1)
      BY <1>1, <2>2
    <3> QED BY <1>2, <1>3, <1>5, <1>6, <2>2, <3>1
  <2> QED BY <2>1, <2>2
<1> QED BY <1>4, <1>5, <1>6, <1>7 DEF n

\* A sequence with e put before its element at i.
LEMMA InsertAtFacts ==
  ASSUME NEW S, NEW s \in Seq(S), NEW i \in 1 .. Len(s) + 1, NEW e \in S
  PROVE  /\ InsertAt(s, i, e) \in Seq(S)
         /\ Len(InsertAt(s, i, e)) = Len(s) + 1
         /\ \A j \in 1 .. Len(s) + 1 :
              InsertAt(s, i, e)[j] = IF j < i THEN s[j] ELSE IF j = i THEN e ELSE s[j - 1]
<1> DEFINE n == Len(s)
           p == SubSeq(s, 1, i - 1)
           q == SubSeq(s, i, n)
           r == p \o <<e>>
<1>1. n \in Nat /\ i \in Nat \ {0} /\ i <= n + 1 /\ \A j \in 1 .. n : s[j] \in S
  BY LenProperties, ElementOfSeq
<1>2. /\ p \in Seq(S) /\ Len(p) = i - 1 /\ \A j \in 1 .. i - 1 : p[j] = s[j]
  <2>1. 1 \in Int /\ i - 1 \in Int /\ \A j \in 1 .. i - 1 : s[j] \in S
    BY <1>1
  <2>2. /\ p \in Seq(S) /\ Len(p) = IF 1 <= i - 1 THEN (i - 1) - 1 + 1 ELSE 0
        /\ \A j \in 1 .. (i - 1) - 1 + 1 : p[j] = s[1 + j - 1]
    BY <2>1, SubSeqProperties
  <2> HIDE DEF p
  <2> QED BY <1>1, <2>2
<1>3. /\ q \in Seq(S) /\ Len(q) = n - i + 1 /\ \A j \in 1 .. n - i + 1 : q[j] = s[i + j - 1]
  <2>1. i \in Int /\ n \in Int /\ \A j \in i .. n : s[j] \in S
    BY <1>1
  <2>2. /\ q \in Seq(S) /\ Len(q) = IF i <= n THEN n - i + 1 ELSE 0
        /\ \A j \in 1 .. n - i + 1 : q[j] = s[i + j - 1]
    BY <2>1, SubSeqProperties
  <2> HIDE DEF q
  <2>3. i <= n \/ n - i + 1 = 0
    BY <1>1
  <2> QED BY <2>2, <2>3
<1>4. InsertAt(s, i, e) = r \o q
  BY DEF InsertAt
<1>5. /\ r \in Seq(S) /\ Len(r) = i
      /\ \A j \in 1 .. i : r[j] = IF j < i THEN s[j] ELSE e
  <2>1. <<e>> \in Seq(S) /\ Len(<<e>>) = 1 /\ <<e>>[1] = e
    OBVIOUS
  <2> HIDE DEF p
  <2>2. /\ p \o <<e>> \in Seq(S) /\ Len(p \o <<e>>) = Len(p) + 1
        /\ \A j \in 1 .. Len(p) + 1 :
             (p \o <<e>>)[j] = IF j <= Len(p) THEN p[j] ELSE <<e>>[j - Len(p)]
    BY <1>2, <2>1, ConcatProperties
  <2> HIDE DEF r
  <2>3. r \in Seq(S) /\ Len(r) = i
    BY <1>1, <1>2, <2>2 DEF r
  <2>4. ASSUME NEW j \in 1 .. i PROVE r[j] = IF j < i THEN s[j] ELSE e
    <3>1. j \in 1 .. Len(p) + 1 /\ (j < i => j <= Len(p) /\ j \in 1 .. i - 1)
          /\ (~(j < i) => ~(j <= Len(p)) /\ j - Len(p) = 1)
      BY <1>1, <1>2
    <3> QED BY <1>2, <2>1, <2>2, <3>1 DEF r
  <2> QED BY <2>3, <2>4
<1> HIDE DEF p, q, r
<1>6. /\ r \o q \in Seq(S) /\ Len(r \o q) = Len(r) + Len(q)
      /\ \A j \in 1 .. Len(r) + Len(q) : (r \o q)[j] = IF j <= Len(r) THEN r[j] ELSE q[j - Len(r)]
  BY <1>3, <1>5, ConcatProperties
<1> HIDE DEF n
<1>7. Len(r) + Len(q) = n + 1
  BY <1>1, <1>3, <1>5
<1>8. \A j \in 1 .. n + 1 : (r \o q)[j] = IF j < i THEN s[j] ELSE IF j = i THEN e ELSE s[j - 1]
  <2> TAKE j \in 1 .. n + 1
  <2>1. CASE j <= i
    <3>1. j \in 1 .. i /\ (j < i \/ j = i)
      BY <1>1, <2>1
    <3> QED BY <1>1, <1>5, <1>6, <1>7, <2>1, <3>1
  <2>2. CASE ~(j <= i)
    <3>1. j - i \in 1 .. n - i + 1 /\ i + (j - i) - 1 = j - 1 /\ ~(j < i) /\ j # i
      BY <1>1, <2>2
    <3> QED BY <1>3, <1>5, <1>6, <1>7, <2>2, <3>1
  <2> QED BY <2>1, <2>2
<1> QED BY <1>4, <1>6, <1>7, <1>8 DEF n


-------------------------------------------------------------------------------
(* Recursion over the natural numbers.  A step is given as a function, since a *)
(* lemma that takes an operator cannot be used.                                *)

StepsFrom(V, base, step) ==
  \E f \in [Nat -> V] : f[0] = base /\ \A n \in Nat : f[n + 1] = step[f[n]]

\* A function can be defined by its first value and by how each value gives the next.
LEMMA PrimitiveRecursion ==
  ASSUME NEW V, NEW base \in V, NEW step \in [V -> V]
  PROVE  StepsFrom(V, base, step)
<1> DEFINE Begins(n, g) == g \in [0 .. n -> V] /\ g[0] = base /\ \A i \in 0 .. n - 1 : g[i + 1] = step[g[i]]
<1>1. \A n \in Nat : \E g : Begins(n, g)
  <2> DEFINE T == {n \in Nat : ~ \E g : Begins(n, g)}
  <2> SUFFICES ASSUME T # {} PROVE FALSE
    OBVIOUS
  <2>1. PICK n \in T : \A k \in T : n <= k
    <3> HIDE DEF T
    <3>1. T \subseteq Nat
      BY DEF T
    <3> QED
      BY <3>1, NatMin
  <2>2. CASE n = 0
    <3> DEFINE g == [i \in 0 .. 0 |-> base]
    <3>1. Begins(0, g)
      OBVIOUS
    <3> QED
      BY <3>1, <2>1, <2>2
  <2>3. CASE n # 0
    <3>1. n - 1 \in Nat /\ n - 1 \notin T
      BY <2>1, <2>3
    <3>2. PICK g : Begins(n - 1, g)
      BY <3>1
    <3> DEFINE h == [i \in 0 .. n |-> IF i = n THEN step[g[n - 1]] ELSE g[i]]
    <3>3. g[n - 1] \in V /\ step[g[n - 1]] \in V
      BY <3>1, <3>2
    <3>4. h \in [0 .. n -> V]
      BY <3>1, <3>2, <3>3
    <3>5. h[0] = base
      BY <3>2, <2>3, <2>1
    <3>6. ASSUME NEW i \in 0 .. n - 1 PROVE h[i + 1] = step[h[i]]
      <4>1. h[i] = g[i]
        BY <2>1
      <4>2. CASE i = n - 1
        BY <4>1, <4>2, <2>1
      <4>3. CASE i # n - 1
        BY <4>1, <4>3, <3>2, <2>1
      <4> QED
        BY <4>2, <4>3
    <3> QED
      BY <3>4, <3>5, <3>6, <2>1
  <2> QED
    BY <2>2, <2>3
<1>2. ASSUME NEW n \in Nat, NEW g, Begins(n, g), NEW m \in Nat, NEW h, Begins(m, h), n <= m
      PROVE  \A i \in 0 .. n : g[i] = h[i]
  <2> DEFINE T == {i \in 0 .. n : g[i] # h[i]}
  <2> SUFFICES ASSUME T # {} PROVE FALSE
    OBVIOUS
  <2>1. PICK i \in T : \A k \in T : i <= k
    <3> HIDE DEF T
    <3>1. T \subseteq Nat
      BY DEF T
    <3> QED
      BY <3>1, NatMin
  <2>2. i # 0
    BY <2>1, <1>2
  <2>3. i - 1 \in 0 .. n - 1 /\ i - 1 \in 0 .. m - 1 /\ i - 1 \notin T
    BY <2>1, <2>2, <1>2
  <2>4. g[(i - 1) + 1] = step[g[i - 1]] /\ h[(i - 1) + 1] = step[h[i - 1]]
    BY <2>3, <1>2
  <2>5. g[i - 1] = h[i - 1] /\ (i - 1) + 1 = i
    BY <2>1, <2>3
  <2> QED
    BY <2>1, <2>4, <2>5
<1> DEFINE G(n) == CHOOSE g : Begins(n, g)
           f == [n \in Nat |-> G(n)[n]]
<1>3. \A n \in Nat : Begins(n, G(n))
  BY <1>1
<1> HIDE DEF Begins, G
<1>4. \A n \in Nat : G(n) \in [0 .. n -> V] /\ G(n)[n] \in V
  BY <1>3 DEF Begins
<1>5. f \in [Nat -> V]
  BY <1>4
<1>6. f[0] = base
  BY <1>3 DEF Begins
<1>7. ASSUME NEW n \in Nat PROVE f[n + 1] = step[f[n]]
  <2>1. n + 1 \in Nat /\ n \in 0 .. n /\ n \in 0 .. (n + 1) - 1 /\ n <= n + 1
    OBVIOUS
  <2>2. G(n + 1)[n + 1] = step[G(n + 1)[n]]
    BY <2>1, <1>3 DEF Begins
  <2>3. G(n)[n] = G(n + 1)[n]
    BY <2>1, <1>2, <1>3
  <2> QED
    BY <2>1, <2>2, <2>3
<1> QED
  BY <1>5, <1>6, <1>7 DEF StepsFrom


\* Induction, for a property that is given as the set of the numbers that have it.
LEMMA SetInduction ==
  ASSUME NEW T, 0 \in T, \A n \in Nat : n \in T => n + 1 \in T
  PROVE  Nat \subseteq T
<1> DEFINE U == Nat \ T
<1> SUFFICES ASSUME U # {} PROVE FALSE
  OBVIOUS
<1>1. PICK n \in U : \A k \in U : n <= k
  <2> HIDE DEF U
  <2>1. U \subseteq Nat
    BY DEF U
  <2> QED
    BY <2>1, NatMin
<1>2. n # 0 /\ n - 1 \in Nat /\ n - 1 \notin U /\ (n - 1) + 1 = n
  BY <1>1
<1>3. n \in T
  BY <1>2
<1> QED
  BY <1>1, <1>3

StepsUpTo(N, V, base, step) ==
  \E f \in [0 .. N -> V] : f = [n \in 0 .. N |-> IF n = 0 THEN base ELSE step[n][f[n - 1]]]

\* The same with steps that differ, as far as some number.
LEMMA BoundedRecursion ==
  ASSUME NEW N \in Nat, NEW V, NEW base \in V, NEW step \in [1 .. N -> [V -> V]]
  PROVE  StepsUpTo(N, V, base, step)
<1> DEFINE W == V \X Nat
           go == [p \in W |-> <<IF p[2] < N THEN step[p[2] + 1][p[1]] ELSE p[1], p[2] + 1>>]
           from == <<base, 0>>
<1>1. from \in W
  OBVIOUS
<1>2. go \in [W -> W]
  <2>1. ASSUME NEW x \in V, NEW n \in Nat PROVE go[<<x, n>>] \in W /\ <<x, n>> \in W
    <3>1. CASE n < N
      <4>1. n + 1 \in 1 .. N
        BY <3>1
      <4> QED
        BY <3>1, <4>1
    <3>2. CASE ~(n < N)
      BY <3>2
    <3> QED
      BY <3>1, <3>2
  <2>2. \A p \in W : p = <<p[1], p[2]>> /\ p[1] \in V /\ p[2] \in Nat
    OBVIOUS
  <2> HIDE DEF W
  <2> QED
    BY <2>1, <2>2
<1> HIDE DEF W
<1>3. \A p \in W : /\ go[p][1] = IF p[2] < N THEN step[p[2] + 1][p[1]] ELSE p[1]
                 /\ go[p][2] = p[2] + 1
  OBVIOUS
<1>4. from[1] = base /\ from[2] = 0
  OBVIOUS
<1> HIDE DEF go, from
<1>5. PICK g \in [Nat -> W] : g[0] = from /\ \A n \in Nat : g[n + 1] = go[g[n]]
  <2>1. StepsFrom(W, from, go)
    BY <1>1, <1>2, PrimitiveRecursion
  <2> QED
    BY <2>1 DEF StepsFrom
<1>6. \A n \in Nat : g[n] \in W /\ g[n][1] \in V
  BY <1>5 DEF W
<1> DEFINE T == {n \in Nat : g[n][2] = n}
<1>7. Nat \subseteq T
  <2>1. 0 \in T
    BY <1>5, <1>4
  <2>2. ASSUME NEW n \in Nat, n \in T PROVE n + 1 \in T
    <3>1. g[n] \in W /\ g[n + 1] = go[g[n]] /\ g[n][2] = n
      BY <1>5, <1>6, <2>2
    <3>2. go[g[n]][2] = n + 1
      BY <1>3, <3>1
    <3> QED
      BY <3>1, <3>2
  <2> HIDE DEF T
  <2> QED
    BY <2>1, <2>2, SetInduction
<1> DEFINE f == [n \in 0 .. N |-> g[n][1]]
<1>8. f \in [0 .. N -> V]
  BY <1>6
<1>9. ASSUME NEW n \in 0 .. N PROVE f[n] = IF n = 0 THEN base ELSE step[n][f[n - 1]]
  <2>1. CASE n = 0
    BY <1>5, <1>4, <2>1
  <2>2. CASE n # 0
    <3>1. n - 1 \in 0 .. N /\ n - 1 \in Nat /\ (n - 1) + 1 = n /\ n - 1 < N
      BY <2>2
    <3>2. g[n] = go[g[n - 1]] /\ g[n - 1][2] = n - 1
      BY <1>5, <1>7, <3>1
    <3>3. g[n][1] = step[n][g[n - 1][1]]
      BY <1>6, <1>3, <3>1, <3>2
    <3> QED
      BY <2>2, <3>1, <3>3
  <2> QED
    BY <2>1, <2>2
<1>10. f = [n \in 0 .. N |-> IF n = 0 THEN base ELSE step[n][f[n - 1]]]
  <2> HIDE DEF f
  <2>1. f = [n \in 0 .. N |-> f[n]]
    BY <1>8
  <2> QED
    BY <1>9, <2>1
<1> QED
  BY <1>8, <1>10 DEF StepsUpTo

\* Induction as far as some number.
LEMMA BoundedInduction ==
  ASSUME NEW N \in Nat, NEW T, 0 \in T, \A n \in 1 .. N : n - 1 \in T => n \in T
  PROVE  0 .. N \subseteq T
<1> DEFINE U == {n \in Nat : n <= N => n \in T}
<1>1. 0 \in U
  OBVIOUS
<1>2. ASSUME NEW n \in Nat, n \in U PROVE n + 1 \in U
  <2>1. n + 1 <= N => n + 1 \in 1 .. N /\ (n + 1) - 1 = n /\ n <= N
    OBVIOUS
  <2> QED
    BY <1>2, <2>1
<1> HIDE DEF U
<1>3. Nat \subseteq U
  BY <1>1, <1>2, SetInduction
<1> QED
  BY <1>3 DEF U

-------------------------------------------------------------------------------
(* Numbers in positional notation: `first' is what comes before the digits, the *)
(* digits follow from the most significant one, and r[n] has n of them.         *)

Positional(r, N, b, first, digits) ==
  r = [n \in 0 .. N |-> IF n = 0 THEN first ELSE b * r[n - 1] + digits[n]]

\* There is such a number, and it is a natural number.
LEMMA PositionalExists ==
  ASSUME NEW N \in Nat, NEW b \in Nat, NEW first \in Nat, NEW digits \in [1 .. N -> Nat]
  PROVE  \E r \in [0 .. N -> Nat] : Positional(r, N, b, first, digits)
<1> DEFINE step == [n \in 1 .. N |-> [x \in Nat |-> b * x + digits[n]]]
<1>1. step \in [1 .. N -> [Nat -> Nat]]
  <2>1. ASSUME NEW n \in 1 .. N, NEW x \in Nat PROVE b * x + digits[n] \in Nat
    <3>1. digits[n] \in Nat /\ b * x \in Nat
      OBVIOUS
    <3> QED
      BY <3>1
  <2> QED
    BY <2>1
<1>2. \A n \in 1 .. N, x \in Nat : step[n][x] = b * x + digits[n]
  OBVIOUS
<1> HIDE DEF step
<1>3. PICK r \in [0 .. N -> Nat] : r = [n \in 0 .. N |-> IF n = 0 THEN first ELSE step[n][r[n - 1]]]
  <2>1. StepsUpTo(N, Nat, first, step)
    BY <1>1, BoundedRecursion
  <2> QED
    BY <2>1 DEF StepsUpTo
<1>4. ASSUME NEW n \in 0 .. N
      PROVE  r[n] = IF n = 0 THEN first ELSE b * r[n - 1] + digits[n]
  <2>1. n # 0 => n \in 1 .. N /\ n - 1 \in 0 .. N /\ r[n - 1] \in Nat
    OBVIOUS
  <2>2. r[n] = IF n = 0 THEN first ELSE step[n][r[n - 1]]
    BY <1>3
  <2> QED
    BY <1>2, <2>1, <2>2
<1>5. r = [n \in 0 .. N |-> r[n]]
  OBVIOUS
<1> QED
  BY <1>4, <1>5 DEF Positional

\* r and q are such numbers, with digits less than b, and r is less in what they differ first:
\* in what comes before the digits, or in the digit j.
DiffersFirst(r, q, N, b, first, other, digits, others, j) ==
  /\ digits \in [1 .. N -> Nat] /\ others \in [1 .. N -> Nat]
  /\ \A n \in 1 .. N : digits[n] < b /\ others[n] < b
  /\ r \in [0 .. N -> Nat] /\ Positional(r, N, b, first, digits)
  /\ q \in [0 .. N -> Nat] /\ Positional(q, N, b, other, others)
  /\ j \in 0 .. N /\ \A n \in 1 .. N : n < j => digits[n] = others[n]
  /\ IF j = 0 THEN first < other ELSE first = other /\ digits[j] < others[j]

\* Of two numbers, the one whose first different digit is less is less.
LEMMA PositionalLess ==
  ASSUME NEW N \in Nat, NEW b \in Nat, NEW first \in Nat, NEW other \in Nat,
         NEW r, NEW q, NEW digits, NEW others, NEW j,
         DiffersFirst(r, q, N, b, first, other, digits, others, j)
  PROVE  r[N] < q[N]
<1>0. /\ digits \in [1 .. N -> Nat] /\ others \in [1 .. N -> Nat]
      /\ \A n \in 1 .. N : digits[n] < b /\ others[n] < b
      /\ r \in [0 .. N -> Nat] /\ q \in [0 .. N -> Nat]
      /\ j \in 0 .. N /\ \A n \in 1 .. N : n < j => digits[n] = others[n]
      /\ IF j = 0 THEN first < other ELSE first = other /\ digits[j] < others[j]
  BY DEF DiffersFirst
<1> DEFINE T == {n \in 0 .. N : IF n < j THEN r[n] = q[n] ELSE r[n] < q[n]}
<1>1. /\ r[0] = first /\ q[0] = other
      /\ \A n \in 1 .. N : r[n] = b * r[n - 1] + digits[n] /\ q[n] = b * q[n - 1] + others[n]
  <2>0. 0 \in 0 .. N /\ \A n \in 1 .. N : n \in 0 .. N /\ n # 0
    OBVIOUS
  <2>1. r[0] = first /\ \A n \in 1 .. N : r[n] = b * r[n - 1] + digits[n]
    <3>1. \A n \in 0 .. N : r[n] = IF n = 0 THEN first ELSE b * r[n - 1] + digits[n]
      BY Zenon DEF Positional, DiffersFirst
    <3> QED
      BY <2>0, <3>1, Zenon
  <2>2. q[0] = other /\ \A n \in 1 .. N : q[n] = b * q[n - 1] + others[n]
    <3>1. \A n \in 0 .. N : q[n] = IF n = 0 THEN other ELSE b * q[n - 1] + others[n]
      BY Zenon DEF Positional, DiffersFirst
    <3> QED
      BY <2>0, <3>1, Zenon
  <2> QED
    BY <2>1, <2>2
<1>2. 0 \in T
  BY <1>0, <1>1
<1>3. ASSUME NEW n \in 1 .. N, n - 1 \in T PROVE n \in T
  <2>1. /\ n - 1 \in 0 .. N /\ n \in 0 .. N
        /\ digits[n] \in Nat /\ others[n] \in Nat /\ digits[n] < b /\ others[n] < b
        /\ r[n - 1] \in Nat /\ q[n - 1] \in Nat
    BY <1>0, SMTT(30)
  <2>2. r[n] = b * r[n - 1] + digits[n] /\ q[n] = b * q[n - 1] + others[n]
    BY <1>1
  <2>3. IF n - 1 < j THEN r[n - 1] = q[n - 1] ELSE r[n - 1] < q[n - 1]
    BY <1>3
  <2>4. CASE n < j
    <3>1. n - 1 < j /\ n \in 1 .. N
      BY <1>0, <2>4
    <3> QED
      BY <1>0, <2>1, <2>2, <2>3, <2>4, <3>1
  <2>5. CASE n = j
    <3>1. n - 1 < j /\ digits[n] < others[n]
      BY <1>0, <2>5
    <3>2. r[n - 1] = q[n - 1]
      BY <2>3, <3>1
    <3> DEFINE x == r[n - 1]
    <3>3. r[n] = b * x + digits[n] /\ q[n] = b * x + others[n] /\ x \in Nat
      BY <2>1, <2>2, <3>2
    <3> HIDE DEF x
    <3>4. b * x \in Nat
      BY <3>3
    <3> QED
      BY <2>1, <2>5, <3>1, <3>3, <3>4
  <2>6. CASE n > j
    <3>1. r[n - 1] < q[n - 1]
      BY <1>0, <2>3, <2>6
    <3> DEFINE x == r[n - 1]
               y == q[n - 1]
    <3>2. x \in Nat /\ y \in Nat /\ x + 1 <= y
      BY <2>1, <3>1
    <3> HIDE DEF x, y
    <3>3. b * (x + 1) <= b * y
      BY <3>2
    <3>4. b * (x + 1) = b * x + b /\ b * x \in Nat /\ b * y \in Nat
      BY <3>2
    <3>5. r[n] = b * x + digits[n] /\ q[n] = b * y + others[n]
      BY <2>2 DEF x, y
    <3> DEFINE d == digits[n]
               e == others[n]
    <3>6. d \in Nat /\ e \in Nat /\ d < b /\ e < b
      BY <2>1
    <3> HIDE DEF d, e
    <3>7. b * x + d < b * y + e
      BY <3>3, <3>4, <3>6
    <3> QED
      BY <1>0, <2>1, <2>6, <3>5, <3>7 DEF d, e
  <2> QED
    BY <1>0, <2>4, <2>5, <2>6
<1>4. 0 .. N \subseteq T
  <2> HIDE DEF T
  <2> QED
    BY <1>2, <1>3, BoundedInduction
<1>5. N \in T /\ ~(N < j)
  BY <1>0, <1>4
<1> QED
  BY <1>5

=============================================================================
