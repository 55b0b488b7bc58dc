----------------------------- MODULE TableProofs -----------------------------
(***************************************************************************)
(* Proofs about Table, for every set of indices and values and every       *)
(* length: whatever talloc(), /table/insert and /table/remove move between *)
(* the array and the hash table, an index reads what it should, and a      *)
(* for-each loop visits every entry once.                                  *)
(***************************************************************************)
EXTENDS Table, SequenceFacts, FiniteSetTheorems

\* What TypeOK says of an array and a hash table, and that the latter is finite.
Typed(a, h) ==
  /\ a \in Seq(Contents)
  /\ h \in [DOMAIN h -> Contents]
  /\ DOMAIN h \subseteq Indices
  /\ IsFiniteSet(DOMAIN h)

\* The search for the first index that is neither in the array nor behind it ends.
LEMMA GapFacts ==
  ASSUME NEW a, NEW h, Typed(a, h)
  PROVE  /\ FirstGap(a, h) \in Nat /\ FirstGap(a, h) >= Len(a)
         /\ FirstGap(a, h) \in Len(a) .. Len(a) + Cardinality(DOMAIN h)
         /\ FirstGap(a, h) \notin DOMAIN h
         /\ \A m \in Len(a) .. FirstGap(a, h) - 1 : m \in DOMAIN h
<1> DEFINE l == Len(a)
           c == Cardinality(DOMAIN h)
           T == (l .. l + c) \ DOMAIN h
<1>1. l \in Nat /\ c \in Nat
  BY LenProperties, FS_CardinalityType DEF Typed
<1> HIDE DEF l, c
<1>2. T # {}
  <2>1. SUFFICES ASSUME l .. l + c \subseteq DOMAIN h PROVE FALSE
    OBVIOUS
  <2>2. Cardinality(l .. l + c) <= c
    BY <2>1, FS_Subset DEF Typed, c
  <2>3. Cardinality(l .. l + c) = c + 1
    <3> DEFINE u == l + c
    <3>1. l \in Int /\ u \in Int /\ ~(l > u) /\ u - l + 1 = c + 1
      BY <1>1
    <3> HIDE DEF u
    <3>2. Cardinality(l .. u) = IF l > u THEN 0 ELSE u - l + 1
      BY <3>1, FS_Interval
    <3> QED BY <3>1, <3>2 DEF u
  <2> QED BY <1>1, <2>2, <2>3
<1>3. T \subseteq Nat
  BY <1>1
<1> DEFINE Gap(n) == n \notin DOMAIN h /\ \A m \in l .. n - 1 : m \in DOMAIN h
<1>4. \E n \in l .. l + c : Gap(n)
  <2>1. PICK n \in T : \A m \in T : n <= m
    BY <1>2, <1>3, NatMin
  <2>2. n \in l .. l + c /\ n \notin DOMAIN h
    OBVIOUS
  <2>3. ASSUME NEW m \in l .. n - 1 PROVE m \in DOMAIN h
    <3>1. m \in l .. l + c /\ ~(n <= m)
      BY <1>1, <2>2
    <3> QED BY <2>1, <3>1
  <2> QED BY <2>2, <2>3
<1>5. FirstGap(a, h) = CHOOSE n \in l .. l + c : Gap(n)
  BY DEF FirstGap, Length, l, c
<1> HIDE DEF T
<1>6. FirstGap(a, h) \in l .. l + c /\ Gap(FirstGap(a, h))
  <2> HIDE DEF Gap
  <2> QED BY <1>4, <1>5
<1> QED BY <1>1, <1>6 DEF l, c

\* Moving a stretch of the hash table to the array changes no entry.
LEMMA MovedFacts ==
  ASSUME NEW a, NEW h, Typed(a, h), NEW n \in Nat, n >= Len(a),
         \A m \in Len(a) .. n - 1 : m \in DOMAIN h
  PROVE  LET t == Moved(a, h, n) IN
         /\ Typed(t.array, t.hash)
         /\ Len(t.array) = n
         /\ \A j \in 1 .. n : t.array[j] = IF j <= Len(a) THEN a[j] ELSE h[j - 1]
         /\ DOMAIN t.hash = DOMAIN h \ (Len(a) .. n - 1)
         /\ \A k \in DOMAIN t.hash : t.hash[k] = h[k]
<1> DEFINE l == Len(a)
           tail == [i \in 1 .. n - l |-> h[l + i - 1]]
           t == Moved(a, h, n)
<1>1. a \in Seq(Contents) /\ l \in Nat /\ h \in [DOMAIN h -> Contents] /\ DOMAIN h \subseteq Indices
      /\ IsFiniteSet(DOMAIN h)
  BY LenProperties DEF Typed
<1>2. t.array = a \o tail /\ t.hash = [x \in DOMAIN h \ (l .. n - 1) |-> h[x]]
  BY DEF Moved, Without, Restrict, Length
<1> HIDE DEF l, t
<1>3. n - l \in Nat /\ \A i \in 1 .. n - l : l + i - 1 \in l .. n - 1
  BY <1>1 DEF l
<1>4. \A i \in 1 .. n - l : h[l + i - 1] \in Contents
  BY <1>1, <1>3 DEF l
<1>5. tail \in Seq(Contents) /\ Len(tail) = n - l /\ \A i \in 1 .. n - l : tail[i] = h[l + i - 1]
  BY <1>3, <1>4
<1> HIDE DEF tail
<1>6. /\ a \o tail \in Seq(Contents) /\ Len(a \o tail) = l + Len(tail)
      /\ \A j \in 1 .. l + Len(tail) : (a \o tail)[j] = IF j <= l THEN a[j] ELSE tail[j - l]
  BY <1>1, <1>5, ConcatProperties DEF l
<1>7. Len(t.array) = n /\ t.array \in Seq(Contents)
  BY <1>1, <1>2, <1>3, <1>5, <1>6
<1>8. ASSUME NEW j \in 1 .. n PROVE t.array[j] = IF j <= l THEN a[j] ELSE h[j - 1]
  <2>1. l + Len(tail) = n
    BY <1>1, <1>3, <1>5
  <2>2. CASE j <= l
    BY <1>2, <1>6, <2>1, <2>2
  <2>3. CASE ~(j <= l)
    <3>1. j - l \in 1 .. n - l /\ l + (j - l) - 1 = j - 1
      BY <1>1, <2>3
    <3> QED BY <1>2, <1>5, <1>6, <2>1, <2>3, <3>1
  <2> QED BY <2>2, <2>3
<1>9. /\ DOMAIN t.hash = DOMAIN h \ (l .. n - 1)
      /\ \A k \in DOMAIN t.hash : t.hash[k] = h[k]
      /\ t.hash \in [DOMAIN t.hash -> Contents]
      /\ DOMAIN t.hash \subseteq Indices
  BY <1>1, <1>2
<1>10. IsFiniteSet(DOMAIN t.hash)
  BY <1>1, <1>9, FS_Subset
<1>11. Typed(t.array, t.hash)
  BY <1>7, <1>9, <1>10 DEF Typed
<1> QED BY <1>7, <1>8, <1>9, <1>11 DEF l, t

\* what reading an index yields, by where it is kept
LEMMA AtArray ==
  ASSUME NEW a, NEW h, NEW j \in Nat, j < Len(a)
  PROVE  At(a, h, j) = a[j + 1]
BY DEF At, InArray, Get, Length

LEMMA AtHash ==
  ASSUME NEW a, NEW h, NEW j, ~InArray(a, j)
  PROVE  At(a, h, j) = IF j \in DOMAIN h THEN h[j] ELSE Null
BY DEF At

\* Reading notices nothing of a move.
LEMMA MovedReads ==
  ASSUME NEW a, NEW h, Typed(a, h), NEW n \in Nat, n >= Len(a),
         \A m \in Len(a) .. n - 1 : m \in DOMAIN h,
         NEW j
  PROVE  At(Moved(a, h, n).array, Moved(a, h, n).hash, j) = At(a, h, j)
<1> DEFINE l == Len(a)
           t == Moved(a, h, n)
<1>1. l \in Nat /\ n >= l /\ \A m \in l .. n - 1 : m \in DOMAIN h
  BY LenProperties DEF Typed
<1>2. /\ Len(t.array) = n
      /\ \A i \in 1 .. n : t.array[i] = IF i <= l THEN a[i] ELSE h[i - 1]
      /\ DOMAIN t.hash = DOMAIN h \ (l .. n - 1)
      /\ \A k \in DOMAIN t.hash : t.hash[k] = h[k]
  BY MovedFacts
<1> SUFFICES At(t.array, t.hash, j) = At(a, h, j)
  BY DEF t
<1> HIDE DEF t
<1>3. CASE InArray(t.array, j)
  <2>1. j \in Nat /\ j < n /\ j + 1 \in 1 .. n /\ j + 1 - 1 = j
    BY <1>1, <1>2, <1>3 DEF InArray, Length
  <2>2. At(t.array, t.hash, j) = t.array[j + 1]
    BY <1>2, <2>1, AtArray
  <2>3. CASE j < l
    <3>1. At(a, h, j) = a[j + 1]
      BY <2>1, <2>3, AtArray DEF l
    <3>2. j + 1 <= l
      BY <1>1, <2>1, <2>3
    <3> QED BY <1>2, <2>1, <2>2, <3>1, <3>2
  <2>4. CASE ~(j < l)
    <3>1. j \in l .. n - 1 /\ ~(j + 1 <= l)
      BY <1>1, <2>1, <2>4
    <3>2. ~InArray(a, j) /\ j \in DOMAIN h
      BY <1>1, <2>4, <3>1 DEF InArray, Length, l
    <3>3. At(a, h, j) = h[j]
      BY <3>2, AtHash
    <3> QED BY <1>2, <2>1, <2>2, <3>1, <3>3
  <2> QED BY <2>3, <2>4
<1>4. CASE ~InArray(t.array, j)
  <2>1. At(t.array, t.hash, j) = IF j \in DOMAIN t.hash THEN t.hash[j] ELSE Null
    BY <1>4, AtHash
  <2>2. ~InArray(a, j) /\ j \notin l .. n - 1
    BY <1>1, <1>2, <1>4 DEF InArray, Length, l
  <2>3. At(a, h, j) = IF j \in DOMAIN h THEN h[j] ELSE Null
    BY <2>2, AtHash
  <2> QED BY <1>2, <2>1, <2>2, <2>3
<1> QED BY <1>3, <1>4

\* Storing at an index that is not in the array: the hash table.
LEMMA PutFacts ==
  ASSUME NEW a, NEW h, Typed(a, h), NEW i \in Indices, ~InArray(a, i), NEW v \in Contents
  PROVE  /\ Typed(a, Put(h, i, v))
         /\ DOMAIN Put(h, i, v) = DOMAIN h \cup {i}
         /\ At(a, Put(h, i, v), i) = v
         /\ \A j : j # i => At(a, Put(h, i, v), j) = At(a, h, j)
<1> DEFINE p == Put(h, i, v)
<1>1. DOMAIN p = DOMAIN h \cup {i} /\ p[i] = v /\ \A j \in DOMAIN h : j # i => p[j] = h[j]
  BY DEF Put
<1>2. p \in [DOMAIN p -> Contents]
  BY DEF Put, Typed
<1>3. IsFiniteSet(DOMAIN p)
  BY <1>1, FS_AddElement DEF Typed
<1> HIDE DEF p
<1>4. Typed(a, p)
  BY <1>1, <1>2, <1>3 DEF Typed
<1>5. At(a, p, i) = v
  BY <1>1 DEF At
<1>6. \A j : j # i => At(a, p, j) = At(a, h, j)
  BY <1>1 DEF At
<1> QED BY <1>1, <1>4, <1>5, <1>6 DEF p

\* Storing at an index of the array.
LEMMA ReplaceFacts ==
  ASSUME NEW a, NEW h, Typed(a, h), NEW i \in Nat, i < Len(a), NEW v \in Contents,
         NEW b \in Seq(Contents), Len(b) = Len(a),
         \A j \in 1 .. Len(a) : b[j] = IF j = i + 1 THEN v ELSE a[j]
  PROVE  /\ Typed(b, h)
         /\ At(b, h, i) = v
         /\ \A j : j # i => At(b, h, j) = At(a, h, j)
<1>1. a \in Seq(Contents) /\ Len(a) \in Nat /\ i \in Nat /\ i < Len(a) /\ i + 1 \in 1 .. Len(a)
  BY LenProperties DEF Typed
<1>2. /\ b \in Seq(Contents) /\ Len(b) = Len(a)
      /\ \A j \in 1 .. Len(a) : b[j] = IF j = i + 1 THEN v ELSE a[j]
  OBVIOUS
<1>3. Typed(b, h)
  BY <1>2 DEF Typed
<1>4. At(b, h, i) = v
  BY <1>1, <1>2, AtArray
<1>5. ASSUME NEW j, j # i PROVE At(b, h, j) = At(a, h, j)
  <2>1. CASE InArray(a, j)
    <3>1. j \in Nat /\ j < Len(a) /\ j + 1 \in 1 .. Len(a) /\ j + 1 # i + 1
      BY <1>1, <1>5, <2>1 DEF InArray, Length
    <3> QED BY <1>2, <3>1, AtArray
  <2>2. CASE ~InArray(a, j)
    BY <1>2, <2>2 DEF At, InArray, Length
  <2> QED BY <2>1, <2>2
<1> QED BY <1>2, <1>3, <1>4, <1>5

\* Storing at the end of the array.
LEMMA AppendFacts ==
  ASSUME NEW a, NEW h, Typed(a, h), NEW v \in Contents
  PROVE  LET b == Append(a, v) IN
         /\ Typed(b, h)
         /\ Len(b) = Len(a) + 1
         /\ At(b, h, Len(a)) = v
         /\ \A j : j # Len(a) => At(b, h, j) = At(a, h, j)
<1> DEFINE b == Append(a, v)
<1>1. a \in Seq(Contents) /\ Len(a) \in Nat
  BY LenProperties DEF Typed
<1>2. /\ b \in Seq(Contents) /\ Len(b) = Len(a) + 1
      /\ \A j \in 1 .. Len(a) : b[j] = a[j]
      /\ b[Len(a) + 1] = v
  BY <1>1, AppendProperties
<1> HIDE DEF b
<1>3. Typed(b, h)
  BY <1>2 DEF Typed
<1>4. At(b, h, Len(a)) = v
  BY <1>1, <1>2, AtArray
<1>5. ASSUME NEW j, j # Len(a) PROVE At(b, h, j) = At(a, h, j)
  <2>1. CASE InArray(a, j)
    <3>1. j \in Nat /\ j < Len(a) /\ j < Len(b) /\ j + 1 \in 1 .. Len(a)
      BY <1>1, <1>2, <2>1 DEF InArray, Length
    <3> QED BY <1>2, <3>1, AtArray
  <2>2. CASE ~InArray(a, j)
    <3>1. ~InArray(b, j)
      BY <1>1, <1>2, <1>5, <2>2 DEF InArray, Length
    <3> QED BY <2>2, <3>1 DEF At
  <2> QED BY <2>1, <2>2
<1> QED BY <1>2, <1>3, <1>4, <1>5 DEF b

\* Removing an element of the array.
LEMMA RemoveReads ==
  ASSUME NEW a, NEW h, Typed(a, h), NEW i, InArray(a, i)
  PROVE  LET b == RemoveAt(a, i + 1) IN
         /\ Typed(b, h)
         /\ Len(b) = Len(a) - 1
         /\ \A j : ~InArray(a, j) => At(b, h, j) = At(a, h, j)
         /\ \A j : InArray(a, j) /\ j < i => At(b, h, j) = At(a, h, j)
         /\ \A j : InArray(a, j + 1) /\ j \in Int /\ i <= j => At(b, h, j) = At(a, h, j + 1)
         /\ Len(a) - 1 \notin DOMAIN h => At(b, h, Len(a) - 1) = Null
<1> DEFINE n == Len(a)
           b == RemoveAt(a, i + 1)
<1>1. a \in Seq(Contents) /\ n \in Nat /\ i \in Nat /\ i < n /\ i + 1 \in 1 .. n
  BY LenProperties DEF Typed, InArray, Length
<1>2. /\ b \in Seq(Contents) /\ Len(b) = n - 1
      /\ \A j \in 1 .. n - 1 : b[j] = IF j < i + 1 THEN a[j] ELSE a[j + 1]
  BY <1>1, RemoveAtFacts
<1> HIDE DEF b
<1>3. Typed(b, h)
  BY <1>2 DEF Typed
<1>4. ASSUME NEW j, ~InArray(a, j) PROVE At(b, h, j) = At(a, h, j)
  <2>1. ~InArray(b, j)
    BY <1>1, <1>2, <1>4 DEF InArray, Length
  <2> QED BY <1>4, <2>1 DEF At
<1>5. ASSUME NEW j, InArray(a, j), j < i PROVE At(b, h, j) = At(a, h, j)
  <2>1. j \in Nat /\ j < n - 1 /\ j < n /\ j + 1 \in 1 .. n - 1 /\ j + 1 < i + 1
    BY <1>1, <1>5 DEF InArray, Length
  <2>2. At(b, h, j) = b[j + 1] /\ At(a, h, j) = a[j + 1]
    BY <1>2, <2>1, AtArray
  <2> QED BY <1>2, <2>1, <2>2
<1>6. ASSUME NEW j, InArray(a, j + 1), j \in Int, i <= j PROVE At(b, h, j) = At(a, h, j + 1)
  <2>1. j \in Nat /\ j < n - 1 /\ j + 1 \in Nat /\ j + 1 < n /\ j + 1 \in 1 .. n - 1 /\ ~(j + 1 < i + 1)
    BY <1>1, <1>6 DEF InArray, Length
  <2>2. At(b, h, j) = b[j + 1] /\ At(a, h, j + 1) = a[j + 1 + 1]
    BY <1>2, <2>1, AtArray
  <2> QED BY <1>2, <2>1, <2>2
<1>7. n - 1 \notin DOMAIN h => At(b, h, n - 1) = Null
  BY <1>1, <1>2 DEF At, InArray, Length
<1> QED BY <1>2, <1>3, <1>4, <1>5, <1>6, <1>7 DEF b

\* Inserting an element into the array.
LEMMA InsertReads ==
  ASSUME NEW a, NEW h, Typed(a, h), NEW i, InArray(a, i), NEW v \in Contents
  PROVE  LET b == InsertAt(a, i + 1, v) IN
         /\ Typed(b, h)
         /\ Len(b) = Len(a) + 1
         /\ At(b, h, i) = v
         /\ \A j : ~InArray(a, j) /\ j # Len(a) => At(b, h, j) = At(a, h, j)
         /\ \A j : InArray(a, j) /\ j < i => At(b, h, j) = At(a, h, j)
         /\ \A j : j \in Int /\ i < j /\ j <= Len(a) => At(b, h, j) = At(a, h, j - 1)
<1> DEFINE n == Len(a)
           b == InsertAt(a, i + 1, v)
<1>1. a \in Seq(Contents) /\ n \in Nat /\ i \in Nat /\ i < n /\ i + 1 \in 1 .. n + 1
  BY LenProperties DEF Typed, InArray, Length
<1>2. /\ b \in Seq(Contents) /\ Len(b) = n + 1
      /\ \A j \in 1 .. n + 1 :
           b[j] = IF j < i + 1 THEN a[j] ELSE IF j = i + 1 THEN v ELSE a[j - 1]
  BY <1>1, InsertAtFacts
<1> HIDE DEF b
<1>3. Typed(b, h)
  BY <1>2 DEF Typed
<1>4. At(b, h, i) = v
  <2>1. At(b, h, i) = b[i + 1]
    BY <1>1, <1>2, AtArray
  <2> QED BY <1>1, <1>2, <2>1
<1>5. ASSUME NEW j, ~InArray(a, j), j # n PROVE At(b, h, j) = At(a, h, j)
  <2>1. ~InArray(b, j)
    BY <1>1, <1>2, <1>5 DEF InArray, Length
  <2> QED BY <1>5, <2>1 DEF At
<1>6. ASSUME NEW j, InArray(a, j), j < i PROVE At(b, h, j) = At(a, h, j)
  <2>1. j \in Nat /\ j < n + 1 /\ j < n /\ j + 1 \in 1 .. n + 1 /\ j + 1 < i + 1
    BY <1>1, <1>6 DEF InArray, Length
  <2>2. At(b, h, j) = b[j + 1] /\ At(a, h, j) = a[j + 1]
    BY <1>2, <2>1, AtArray
  <2> QED BY <1>2, <2>1, <2>2
<1>7. ASSUME NEW j, j \in Int, i < j, j <= n PROVE At(b, h, j) = At(a, h, j - 1)
  <2>1. /\ j \in Nat /\ j < n + 1 /\ j - 1 \in Nat /\ j - 1 < n /\ j + 1 \in 1 .. n + 1
        /\ ~(j + 1 < i + 1) /\ j + 1 # i + 1 /\ j + 1 - 1 = j - 1 + 1
    BY <1>1, <1>7
  <2>2. At(b, h, j) = b[j + 1] /\ At(a, h, j - 1) = a[j - 1 + 1]
    BY <1>2, <2>1, AtArray
  <2> QED BY <1>2, <2>1, <2>2
<1> QED BY <1>2, <1>3, <1>4, <1>5, <1>6, <1>7 DEF b

-----------------------------------------------------------------------------
\* the hash entries that the array hides
Hidden(a, h) == {k \in DOMAIN h : InArray(a, k)}

\* talloc() of an index that reads as absent: only that index changes, and
\* nothing becomes hidden.
LEMMA TallocFacts ==
  ASSUME NEW a, NEW h, Typed(a, h), NEW i \in Indices, NEW v \in Contents,
         NEW t \in Talloc(a, h, i, v)
  PROVE  /\ Typed(t.array, t.hash)
         /\ At(t.array, t.hash, i) = v
         /\ \A j : j # i => At(t.array, t.hash, j) = At(a, h, j)
         /\ Hidden(a, h) = {} /\ Hidden(t.array, t.hash) # {} => i = Len(a) /\ i \in DOMAIN h
<1> DEFINE Good == /\ Typed(t.array, t.hash)
                   /\ At(t.array, t.hash, i) = v
                   /\ \A j : j # i => At(t.array, t.hash, j) = At(a, h, j)
                   /\ Hidden(a, h) = {} /\ Hidden(t.array, t.hash) # {} => i = Len(a) /\ i \in DOMAIN h
<1>1. a \in Seq(Contents) /\ Len(a) \in Nat
  BY LenProperties DEF Typed
<1>2. ASSUME ~InArray(a, i), t = [array |-> a, hash |-> Put(h, i, v)] PROVE Good
  <2> DEFINE p == Put(h, i, v)
  <2>1. t.array = a /\ t.hash = p
    BY <1>2
  <2>2. /\ Typed(a, p) /\ DOMAIN p = DOMAIN h \cup {i} /\ At(a, p, i) = v
        /\ \A j : j # i => At(a, p, j) = At(a, h, j)
    BY <1>2, PutFacts
  <2> HIDE DEF p
  <2>3. Hidden(a, p) = Hidden(a, h)
    BY <1>2, <2>2 DEF Hidden
  <2> QED BY <2>1, <2>2, <2>3
<1>3. CASE i \in Strings \/ i < 0
  <2>1. t = [array |-> a, hash |-> Put(h, i, v)]
    BY <1>3 DEF Talloc
  <2>2. ~InArray(a, i)
    BY <1>3, IndicesAssumption DEF InArray
  <2> QED BY <1>2, <2>1, <2>2
<1>4. ASSUME i \notin Strings, ~(i < 0) PROVE i \in Nat
  <2>1. i \in Int
    BY <1>4, IndicesAssumption DEF Indices
  <2> QED BY <1>4, <2>1
<1>5. CASE i \notin Strings /\ ~(i < 0) /\ i = Len(a)
  <2>1. t.array = Append(a, v) /\ t.hash = h
    BY <1>5 DEF Talloc, Length
  <2>2. Typed(t.array, t.hash) /\ Len(t.array) = Len(a) + 1 /\ At(t.array, t.hash, i) = v
        /\ \A j : j # i => At(t.array, t.hash, j) = At(a, h, j)
    BY <1>5, <2>1, AppendFacts
  <2>3. Hidden(a, h) = {} /\ Hidden(t.array, t.hash) # {} => i \in DOMAIN h
    BY <1>1, <1>5, <2>1, <2>2 DEF Hidden, InArray, Length
  <2> QED BY <1>5, <2>2, <2>3
<1>6. CASE i \notin Strings /\ ~(i < 0) /\ i < Len(a)
  <2>1. t.array = [a EXCEPT ![i + 1] = v] /\ t.hash = h
    BY <1>1, <1>4, <1>6 DEF Talloc, Length
  <2>2. PICK k \in Nat : k = i
    BY <1>4, <1>6
  <2> DEFINE p == k + 1
             b == [a EXCEPT ![p] = v]
  <2>3. t.array = b
    BY <2>1, <2>2, Zenon
  <2>4. k < Len(a) /\ p \in 1 .. Len(a)
    BY <1>1, <1>6, <2>2
  <2> HIDE DEF p
  <2>5. /\ b \in Seq(Contents) /\ Len(b) = Len(a)
        /\ \A j \in 1 .. Len(a) : b[j] = IF j = p THEN v ELSE a[j]
    BY <1>1, <2>4, ExceptSeq
  <2> HIDE DEF b
  <2>6. /\ Typed(b, h) /\ At(b, h, k) = v
        /\ \A j : j # k => At(b, h, j) = At(a, h, j)
    BY <2>4, <2>5, ReplaceFacts DEF p
  <2>7. Hidden(b, h) = Hidden(a, h)
    BY <2>5 DEF Hidden, InArray, Length
  <2> QED BY <2>1, <2>2, <2>3, <2>6, <2>7
<1>7. CASE i \notin Strings /\ ~(i < 0) /\ i # Len(a) /\ ~(i < Len(a))
  <2>1. i \in Nat /\ i > Len(a) /\ ~InArray(a, i)
    BY <1>1, <1>4, <1>7 DEF InArray, Length
  <2>2. CASE t = [array |-> a, hash |-> Put(h, i, v)]
    BY <1>2, <2>1, <2>2
  <2>3. CASE t # [array |-> a, hash |-> Put(h, i, v)]
    <3> DEFINE m == Moved(a, h, i)
    <3>1. /\ i \notin DOMAIN h /\ ~(FirstGap(a, h) < i)
          /\ t.array = Append(m.array, v) /\ t.hash = m.hash
      BY <1>7, <2>3 DEF Talloc, Length, Moved
    <3>2. \A k \in Len(a) .. i - 1 : k \in DOMAIN h
      <4>1. Len(a) .. i - 1 \subseteq Len(a) .. FirstGap(a, h) - 1
        BY <1>1, <2>1, <3>1, GapFacts
      <4> QED BY <4>1, GapFacts
    <3>3. /\ Typed(m.array, m.hash) /\ Len(m.array) = i
          /\ DOMAIN m.hash = DOMAIN h \ (Len(a) .. i - 1)
      BY <1>1, <2>1, <3>2, MovedFacts
    <3>4. \A j : At(m.array, m.hash, j) = At(a, h, j)
      BY <1>1, <2>1, <3>2, MovedReads
    <3> HIDE DEF m
    <3>5. /\ Typed(t.array, t.hash) /\ Len(t.array) = i + 1 /\ At(t.array, t.hash, i) = v
          /\ \A j : j # i => At(t.array, t.hash, j) = At(m.array, m.hash, j)
      BY <3>1, <3>3, AppendFacts
    <3>6. Hidden(a, h) = {} => Hidden(t.array, t.hash) = {}
      BY <1>1, <2>1, <3>1, <3>3, <3>5 DEF Hidden, InArray, Length
    <3> QED BY <3>4, <3>5, <3>6
  <2> QED BY <2>2, <2>3
<1> QED BY <1>3, <1>5, <1>6, <1>7

-----------------------------------------------------------------------------
(* The steps.                                                              *)

TInv == Typed(t_array, t_hash)

\* What an assignment does.
LEMMA AssignStep ==
  ASSUME TInv, NEW i \in Indices, NEW v \in Contents, Assign(i, v)
  PROVE  /\ TInv'
         /\ At(t_array', t_hash', i) = v
         /\ \A j : j # i => At(t_array', t_hash', j) = At(t_array, t_hash, j)
         /\ Hidden(t_array, t_hash) = {} => Hidden(t_array', t_hash') = {}
<1>1. t_array \in Seq(Contents) /\ Len(t_array) \in Nat
  BY LenProperties DEF TInv, Typed
<1>2. CASE InArray(t_array, i)
  <2>1. i \in Nat /\ i < Len(t_array) /\ i \notin Strings
    BY <1>2, IndicesAssumption DEF InArray, Length
  <2>2. /\ Talloc(t_array, t_hash, i, v) = {[array |-> [t_array EXCEPT ![i + 1] = v], hash |-> t_hash]}
        /\ t_array' = [t_array EXCEPT ![i + 1] = v] /\ t_hash' = t_hash
    <3>1. ~(i < 0) /\ i # Len(t_array)
      BY <1>1, <2>1
    <3>2. Talloc(t_array, t_hash, i, v) = {[array |-> [t_array EXCEPT ![i + 1] = v], hash |-> t_hash]}
      BY <2>1, <3>1, Zenon DEF Talloc, Length
    <3>3. t_array' = [t_array EXCEPT ![i + 1] = v] /\ t_hash' = t_hash
      BY <1>2 DEF Assign, Becomes
    <3> QED BY <3>2, <3>3
  <2>3. PICK t \in Talloc(t_array, t_hash, i, v) : t_array' = t.array /\ t_hash' = t.hash
    BY <2>2
  <2>4. i # Len(t_array)
    BY <1>1, <2>1
  <2> QED BY <2>3, <2>4, TallocFacts DEF TInv
<1>3. CASE ~InArray(t_array, i) /\ i \in DOMAIN t_hash
  <2> DEFINE p == Put(t_hash, i, v)
  <2>1. t_array' = t_array /\ t_hash' = p
    BY <1>3 DEF Assign, Becomes
  <2>2. /\ Typed(t_array, p) /\ DOMAIN p = DOMAIN t_hash \cup {i} /\ At(t_array, p, i) = v
        /\ \A j : j # i => At(t_array, p, j) = At(t_array, t_hash, j)
    BY <1>3, PutFacts DEF TInv
  <2> HIDE DEF p
  <2>3. Hidden(t_array, p) = Hidden(t_array, t_hash)
    BY <1>3, <2>2 DEF Hidden
  <2> QED BY <2>1, <2>2, <2>3 DEF TInv
<1>4. CASE ~InArray(t_array, i) /\ i \notin DOMAIN t_hash
  <2>1. PICK t \in Talloc(t_array, t_hash, i, v) : t_array' = t.array /\ t_hash' = t.hash
    BY <1>4 DEF Assign, Becomes
  <2> QED BY <1>4, <2>1, TallocFacts DEF TInv
<1> QED BY <1>2, <1>3, <1>4

\* The stretch of elements after it has moved to the array as a whole.
LEMMA StretchMoved ==
  ASSUME TInv
  PROVE  LET m == Moved(t_array, t_hash, Stretch) IN
         /\ Stretch \in Nat /\ Len(t_array) \in Nat /\ Len(t_array) <= Stretch
         /\ Typed(m.array, m.hash)
         /\ Len(m.array) = Stretch
         /\ \A j : At(m.array, m.hash, j) = At(t_array, t_hash, j)
         /\ Hidden(t_array, t_hash) = {} => \A k \in DOMAIN m.hash : k \in Int => k < 0 \/ k > Stretch
<1> DEFINE m == Moved(t_array, t_hash, Stretch)
<1>1. t_array \in Seq(Contents) /\ Len(t_array) \in Nat
  BY LenProperties DEF TInv, Typed
<1>2. /\ Stretch \in Nat /\ Stretch >= Len(t_array) /\ Stretch \notin DOMAIN t_hash
      /\ \A k \in Len(t_array) .. Stretch - 1 : k \in DOMAIN t_hash
  BY GapFacts DEF TInv, Stretch
<1>3. /\ Typed(m.array, m.hash) /\ Len(m.array) = Stretch
      /\ DOMAIN m.hash = DOMAIN t_hash \ (Len(t_array) .. Stretch - 1)
  BY <1>2, MovedFacts DEF TInv
<1>4. \A j : At(m.array, m.hash, j) = At(t_array, t_hash, j)
  BY <1>2, MovedReads DEF TInv
<1> HIDE DEF m
<1>5. ASSUME Hidden(t_array, t_hash) = {}, NEW k \in DOMAIN m.hash, k \in Int
      PROVE  k < 0 \/ k > Stretch
  <2>1. k \in DOMAIN t_hash /\ k \notin Len(t_array) .. Stretch - 1 /\ k # Stretch
    BY <1>2, <1>3
  <2>2. k < 0 \/ ~(k < Len(t_array))
    BY <1>5, <2>1 DEF Hidden, InArray, Length
  <2> QED BY <1>1, <1>2, <1>5, <2>1, <2>2
<1> QED BY <1>1, <1>2, <1>3, <1>4, <1>5 DEF m

\* What inserting into the array does.
LEMMA InsertStep ==
  ASSUME TInv, NEW i \in Indices, NEW v \in Contents, Insert(i, v),
         i \notin Strings, Position(i) < Length(t_array)
  PROVE  /\ TInv'
         /\ At(t_array', t_hash', Position(i)) = v
         /\ \A j : j \notin Int \/ j < Position(i) \/ j > Stretch =>
              At(t_array', t_hash', j) = At(t_array, t_hash, j)
         /\ \A j : j \in Int /\ Position(i) < j /\ j <= Stretch =>
              At(t_array', t_hash', j) = At(t_array, t_hash, j - 1)
         /\ Hidden(t_array, t_hash) = {} => Hidden(t_array', t_hash') = {}
<1> DEFINE m == Moved(t_array, t_hash, Stretch)
           q == Position(i)
           b == InsertAt(m.array, q + 1, v)
<1>1. /\ Stretch \in Nat /\ Len(t_array) \in Nat /\ Len(t_array) <= Stretch
      /\ Typed(m.array, m.hash) /\ Len(m.array) = Stretch
      /\ \A j : At(m.array, m.hash, j) = At(t_array, t_hash, j)
      /\ Hidden(t_array, t_hash) = {} => \A k \in DOMAIN m.hash : k \in Int => k < 0 \/ k > Stretch
  BY StretchMoved
<1>2. t_array' = b /\ t_hash' = m.hash
  BY DEF Insert, Becomes, Moved, Stretch
<1>3. q \in Nat /\ q < Len(t_array)
  BY DEF Position, Length
<1> HIDE DEF m, q
<1>4. InArray(m.array, q)
  BY <1>1, <1>3 DEF InArray, Length
<1>5. /\ Typed(b, m.hash) /\ Len(b) = Stretch + 1
      /\ At(b, m.hash, q) = v
      /\ \A j : ~InArray(m.array, j) /\ j # Stretch => At(b, m.hash, j) = At(m.array, m.hash, j)
      /\ \A j : InArray(m.array, j) /\ j < q => At(b, m.hash, j) = At(m.array, m.hash, j)
      /\ \A j : j \in Int /\ q < j /\ j <= Stretch => At(b, m.hash, j) = At(m.array, m.hash, j - 1)
  BY <1>1, <1>4, InsertReads
<1> HIDE DEF b
<1>6. ASSUME NEW j, j \notin Int \/ j < q \/ j > Stretch
      PROVE  At(b, m.hash, j) = At(t_array, t_hash, j)
  <2>1. \/ InArray(m.array, j) /\ j < q
        \/ ~InArray(m.array, j) /\ j # Stretch
    BY <1>1, <1>3, <1>6 DEF InArray, Length
  <2> QED BY <1>1, <1>5, <2>1
<1>7. ASSUME NEW j, j \in Int, q < j, j <= Stretch
      PROVE  At(b, m.hash, j) = At(t_array, t_hash, j - 1)
  BY <1>1, <1>5, <1>7
<1>8. Hidden(t_array, t_hash) = {} => Hidden(b, m.hash) = {}
  BY <1>1, <1>5 DEF Hidden, InArray, Length
<1> QED BY <1>2, <1>5, <1>6, <1>7, <1>8 DEF q, TInv

\* What removing an element of the array does.
LEMMA FreeStep ==
  ASSUME TInv, NEW i \in Indices, Free(i), InArray(t_array, i)
  PROVE  /\ TInv'
         /\ \A j : j \notin Int \/ j < i \/ j >= Stretch =>
              At(t_array', t_hash', j) = At(t_array, t_hash, j)
         /\ \A j : j \in Int /\ i <= j /\ j < Stretch - 1 =>
              At(t_array', t_hash', j) = At(t_array, t_hash, j + 1)
         /\ Hidden(t_array, t_hash) = {} =>
              At(t_array', t_hash', Stretch - 1) = Null /\ Hidden(t_array', t_hash') = {}
<1> DEFINE m == Moved(t_array, t_hash, Stretch)
           b == RemoveAt(m.array, i + 1)
<1>1. /\ Stretch \in Nat /\ Len(t_array) \in Nat /\ Len(t_array) <= Stretch
      /\ Typed(m.array, m.hash) /\ Len(m.array) = Stretch
      /\ \A j : At(m.array, m.hash, j) = At(t_array, t_hash, j)
      /\ Hidden(t_array, t_hash) = {} => \A k \in DOMAIN m.hash : k \in Int => k < 0 \/ k > Stretch
  BY StretchMoved
<1>2. t_array' = b /\ t_hash' = m.hash
  BY DEF Free, Becomes, Moved, Stretch
<1>3. i \in Nat /\ i < Len(t_array)
  BY DEF InArray, Length
<1> HIDE DEF m
<1>4. InArray(m.array, i)
  BY <1>1, <1>3 DEF InArray, Length
<1>5. /\ Typed(b, m.hash) /\ Len(b) = Stretch - 1
      /\ \A j : ~InArray(m.array, j) => At(b, m.hash, j) = At(m.array, m.hash, j)
      /\ \A j : InArray(m.array, j) /\ j < i => At(b, m.hash, j) = At(m.array, m.hash, j)
      /\ \A j : InArray(m.array, j + 1) /\ j \in Int /\ i <= j =>
           At(b, m.hash, j) = At(m.array, m.hash, j + 1)
      /\ Stretch - 1 \notin DOMAIN m.hash => At(b, m.hash, Stretch - 1) = Null
  BY <1>1, <1>4, RemoveReads
<1> HIDE DEF b
<1>6. ASSUME NEW j, j \notin Int \/ j < i \/ j >= Stretch
      PROVE  At(b, m.hash, j) = At(t_array, t_hash, j)
  <2>1. (InArray(m.array, j) /\ j < i) \/ ~InArray(m.array, j)
    BY <1>1, <1>3, <1>6 DEF InArray, Length
  <2> QED BY <1>1, <1>5, <2>1
<1>7. ASSUME NEW j, j \in Int, i <= j, j < Stretch - 1
      PROVE  At(b, m.hash, j) = At(t_array, t_hash, j + 1)
  <2>1. InArray(m.array, j + 1)
    BY <1>1, <1>3, <1>7 DEF InArray, Length
  <2> QED BY <1>1, <1>5, <1>7, <2>1
<1>8. ASSUME Hidden(t_array, t_hash) = {}
      PROVE  At(b, m.hash, Stretch - 1) = Null /\ Hidden(b, m.hash) = {}
  <2>1. Stretch - 1 \in Int /\ ~(Stretch - 1 < 0) /\ ~(Stretch - 1 > Stretch)
    BY <1>1, <1>3
  <2>2. Stretch - 1 \notin DOMAIN m.hash
    BY <1>1, <1>8, <2>1
  <2>3. Hidden(b, m.hash) = {}
    BY <1>1, <1>5, <1>8 DEF Hidden, InArray, Length
  <2> QED BY <1>5, <2>2, <2>3
<1> QED BY <1>2, <1>5, <1>6, <1>7, <1>8 DEF TInv

\* What removing any other index does.
LEMMA EraseStep ==
  ASSUME TInv, NEW i \in Indices, Free(i), ~InArray(t_array, i)
  PROVE  /\ TInv'
         /\ At(t_array', t_hash', i) = Null
         /\ \A j : j # i => At(t_array', t_hash', j) = At(t_array, t_hash, j)
         /\ Hidden(t_array, t_hash) = {} => Hidden(t_array', t_hash') = {}
<1> DEFINE w == Without(t_hash, {i})
<1>1. t_array' = t_array /\ t_hash' = w
  BY DEF Free, Becomes
<1>2. DOMAIN w = DOMAIN t_hash \ {i} /\ \A k \in DOMAIN w : w[k] = t_hash[k]
  BY DEF Without, Restrict
<1>3. w \in [DOMAIN w -> Contents]
  BY DEF Without, Restrict, TInv, Typed
<1>4. IsFiniteSet(DOMAIN w)
  BY <1>2, FS_RemoveElement DEF TInv, Typed
<1> HIDE DEF w
<1>5. Typed(t_array, w)
  BY <1>2, <1>3, <1>4 DEF TInv, Typed
<1>6. At(t_array, w, i) = Null /\ \A j : j # i => At(t_array, w, j) = At(t_array, t_hash, j)
  BY <1>2 DEF At
<1>7. Hidden(t_array, t_hash) = {} => Hidden(t_array, w) = {}
  BY <1>2 DEF Hidden
<1> QED BY <1>1, <1>5, <1>6, <1>7 DEF TInv

\* What /table/insert does where it does not shift.
LEMMA InsertTalloc ==
  ASSUME TInv, NEW i \in Indices, NEW v \in Contents, Insert(i, v),
         ~(i \notin Strings /\ Position(i) < Length(t_array))
  PROVE  /\ TInv'
         /\ Hidden(t_array, t_hash) = {} /\ Hidden(t_array', t_hash') # {} =>
              i = Len(t_array) /\ i \in DOMAIN t_hash
<1>1. PICK t \in Talloc(t_array, t_hash, i, v) : t_array' = t.array /\ t_hash' = t.hash
  BY DEF Insert, Becomes
<1> QED BY <1>1, TallocFacts DEF TInv

-----------------------------------------------------------------------------
(* The theorems.                                                           *)

\* The invariant holds at first, and every step keeps it.
LEMMA InitTyped == Init => TInv
<1> SUFFICES ASSUME Init PROVE TInv
  OBVIOUS
<1>1. t_array \in Seq(Contents)
  <2>1. PICK m \in 0 .. 2 : t_array \in [1 .. m -> Values]
    BY DEF Init, BoundedSeq, SeqOf
  <2>2. m \in Nat
    BY <2>1
  <2>3. t_array \in Seq(Values)
    BY <2>1, <2>2
  <2> QED BY <2>3, SeqMonotonic DEF Contents
<1>2. PICK S \in SUBSET Strings : t_hash \in [S -> Values]
  BY DEF Init
<1>3. DOMAIN t_hash = S /\ t_hash \in [DOMAIN t_hash -> Contents] /\ DOMAIN t_hash \subseteq Indices
  BY <1>2 DEF Contents, Indices
<1>4. IsFiniteSet(DOMAIN t_hash)
  BY <1>3, IndicesAssumption, FS_Subset
<1> QED BY <1>1, <1>3, <1>4 DEF TInv, Typed

LEMMA NextTyped == TInv /\ [Next]_vars => TInv'
<1> SUFFICES ASSUME TInv, [Next]_vars PROVE TInv'
  OBVIOUS
<1>1. ASSUME NEW i \in Indices, NEW v \in Contents, Assign(i, v) PROVE TInv'
  BY <1>1, AssignStep
<1>2. ASSUME NEW i \in Indices, NEW v \in Contents, Insert(i, v) PROVE TInv'
  <2>1. CASE i \notin Strings /\ Position(i) < Length(t_array)
    BY <1>2, <2>1, InsertStep
  <2>2. CASE ~(i \notin Strings /\ Position(i) < Length(t_array))
    BY <1>2, <2>2, InsertTalloc
  <2> QED BY <2>1, <2>2
<1>3. ASSUME NEW i \in Indices, Free(i) PROVE TInv'
  BY <1>3, FreeStep, EraseStep
<1>4. CASE UNCHANGED vars
  BY <1>4 DEF vars, TInv
<1> QED BY <1>1, <1>2, <1>3, <1>4 DEF Next

\* The hash table stays finite, and both parts keep their types.
THEOREM Invariant == Spec => []TInv
BY InitTyped, NextTyped, PTL DEF Spec

\* Both parts of a table keep their types, for every number of operations.
THEOREM TypeCorrect == Spec => []TypeOK
<1>1. TInv => TypeOK
  BY DEF TInv, Typed, TypeOK
<1> QED BY <1>1, Invariant, PTL

\* An assignment changes what its index reads and nothing else, wherever the
\* entries are kept and however many of them talloc() moves.
THEOREM AssignmentsExact == Spec => AssignExact
<1> DEFINE A == \A i \in Indices, v \in Contents : Assign(i, v) =>
                  /\ Lookup(i)' = v
                  /\ \A j \in Indices \ {i} : Lookup(j)' = Lookup(j)
<1>1. TInv => A
  BY AssignStep DEF Lookup
<1>2. AssignExact <=> [][A]_vars
  BY DEF AssignExact
<1> HIDE DEF A
<1> QED BY <1>1, <1>2, Invariant, PTL

\* /table/remove: removing an element closes the gap over the border of array and
\* hash table, and any other index touches nothing else, while none is shadowed.
THEOREM RemovalsExact == Spec => FreeExact
<1> DEFINE A == \A i \in Indices : (Free(i) /\ Shadowed = {}) =>
                  \A j \in Indices : Lookup(j)' = AfterFree(i, j)
<1>1. ASSUME TInv PROVE A
  <2> TAKE i \in Indices
  <2> HAVE Free(i) /\ Shadowed = {}
  <2> TAKE j \in Indices
  <2>1. Hidden(t_array, t_hash) = {}
    BY DEF Hidden, Shadowed
  <2>2. CASE ~InArray(t_array, i)
    <3>1. /\ At(t_array', t_hash', i) = Null
          /\ \A k : k # i => At(t_array', t_hash', k) = At(t_array, t_hash, k)
      BY <1>1, <2>2, EraseStep
    <3> QED BY <2>2, <3>1 DEF AfterFree, Lookup
  <2>3. CASE InArray(t_array, i)
    <3>1. /\ \A k : k \notin Int \/ k < i \/ k >= Stretch =>
               At(t_array', t_hash', k) = At(t_array, t_hash, k)
          /\ \A k : k \in Int /\ i <= k /\ k < Stretch - 1 =>
               At(t_array', t_hash', k) = At(t_array, t_hash, k + 1)
          /\ At(t_array', t_hash', Stretch - 1) = Null
      BY <1>1, <2>1, <2>3, FreeStep
    <3>2. i \in Int /\ Stretch \in Nat
      BY <1>1, <2>3, StretchMoved DEF InArray
    <3>3. j \in Strings => j \notin Int
      BY IndicesAssumption
    <3>4. j \notin Strings => j \in Int
      BY IndicesAssumption DEF Indices
    <3>5. CASE j \in Strings \/ j < i \/ j >= Stretch
      BY <2>3, <3>1, <3>3, <3>5 DEF AfterFree, Lookup
    <3>6. CASE ~(j \in Strings \/ j < i \/ j >= Stretch)
      <4>1. j \in Int /\ i <= j /\ (j = Stretch - 1 \/ j < Stretch - 1)
        BY <3>2, <3>4, <3>6
      <4>2. Lookup(j)' = IF j = Stretch - 1 THEN Null ELSE Lookup(j + 1)
        BY <3>1, <4>1 DEF Lookup
      <4> QED BY <2>3, <3>6, <4>2 DEF AfterFree
    <3> QED BY <3>5, <3>6
  <2> QED BY <2>2, <2>3
<1>2. FreeExact <=> [][A]_vars
  BY DEF FreeExact
<1> HIDE DEF A
<1> QED BY <1>1, <1>2, Invariant, PTL

\* Inserting before the first or the second element moves those behind it up by
\* one, the ones in the hash table included, while no entry is shadowed.
THEOREM InsertionsShift == Spec => InsertShifts
<1> DEFINE A == \A i \in Numbers \cap {0, 1}, v \in Contents :
                  (Insert(i, v) /\ i < Length(t_array) /\ Shadowed = {}) =>
                    /\ Lookup(i)' = v
                    /\ \A j \in Indices :
                         /\ (j \in Strings \/ j < i \/ j > Stretch) => Lookup(j)' = Lookup(j)
                         /\ (j \notin Strings /\ i < j /\ j <= Stretch) => Lookup(j)' = Lookup(j - 1)
<1>1. ASSUME TInv PROVE A
  <2> TAKE i \in Numbers \cap {0, 1}, v \in Contents
  <2> HAVE Insert(i, v) /\ i < Length(t_array) /\ Shadowed = {}
  <2>1. i \in Indices /\ i \notin Strings /\ i \in Int /\ Position(i) = i
    BY IndicesAssumption DEF Indices, Position
  <2>2. /\ At(t_array', t_hash', i) = v
        /\ \A j : j \notin Int \/ j < i \/ j > Stretch =>
             At(t_array', t_hash', j) = At(t_array, t_hash, j)
        /\ \A j : j \in Int /\ i < j /\ j <= Stretch =>
             At(t_array', t_hash', j) = At(t_array, t_hash, j - 1)
    BY <1>1, <2>1, InsertStep
  <2>3. \A j \in Indices : j \in Strings <=> j \notin Int
    BY IndicesAssumption DEF Indices
  <2> QED BY <2>2, <2>3 DEF Lookup
<1>2. InsertShifts <=> [][A]_vars
  BY DEF InsertShifts
<1> HIDE DEF A
<1> QED BY <1>1, <1>2, Invariant, PTL

\* Only /table/insert at the end of the array hides an entry.
THEOREM ShadowsByInsert == Spec => ShadowedByInsert
<1> DEFINE A == (Shadowed = {} /\ Shadowed' # {}) =>
                  /\ Length(t_array) \in DOMAIN t_hash
                  /\ \E v \in Contents : Insert(Length(t_array), v)
<1>1. ASSUME TInv, [Next]_vars PROVE A
  <2> SUFFICES ASSUME Hidden(t_array, t_hash) = {}, Hidden(t_array', t_hash') # {}
               PROVE  /\ Length(t_array) \in DOMAIN t_hash
                      /\ \E v \in Contents : Insert(Length(t_array), v)
    BY DEF Hidden, Shadowed
  <2>1. ASSUME NEW i \in Indices, NEW v \in Contents, Assign(i, v) PROVE FALSE
    BY <1>1, <2>1, AssignStep
  <2>2. ASSUME NEW i \in Indices, Free(i) PROVE FALSE
    BY <1>1, <2>2, FreeStep, EraseStep
  <2>3. ASSUME NEW i \in Indices, NEW v \in Contents, Insert(i, v)
        PROVE  i = Length(t_array) /\ i \in DOMAIN t_hash
    <3>1. CASE i \notin Strings /\ Position(i) < Length(t_array)
      BY <1>1, <2>3, <3>1, InsertStep
    <3>2. CASE ~(i \notin Strings /\ Position(i) < Length(t_array))
      BY <1>1, <2>3, <3>2, InsertTalloc DEF Length
    <3> QED BY <3>1, <3>2
  <2>4. CASE UNCHANGED vars
    BY <2>4 DEF vars
  <2>5. CASE Next
    <3>1. PICK i \in Indices : \/ \E v \in Contents : Assign(i, v) \/ Insert(i, v)
                               \/ Free(i)
      BY <2>5 DEF Next
    <3>2. PICK v \in Contents : Insert(i, v)
      BY <2>1, <2>2, <3>1
    <3>3. i = Length(t_array) /\ i \in DOMAIN t_hash
      BY <2>3, <3>2
    <3> QED BY <3>2, <3>3
  <2> QED BY <1>1, <2>4, <2>5
<1>2. ShadowedByInsert <=> [][A]_vars
  BY DEF ShadowedByInsert
<1> HIDE DEF A
<1>3. TInv /\ [Next]_vars => A
  BY <1>1
<1> QED BY <1>2, <1>3, Invariant, PTL DEF Spec

\* The array part of a for-each loop ends at the first index without a value.
LEMMA ReachedFacts ==
  ASSUME TInv
  PROVE  Reached \in Nat /\ Len(t_array) \in Nat /\ Reached >= Len(t_array)
<1> DEFINE l == Len(t_array)
           u == l + Cardinality(DOMAIN t_hash)
           T == {n \in l .. u : Lookup(n) = Null}
           First(n) == Lookup(n) = Null /\ \A m \in l .. n - 1 : Lookup(m) # Null
<1>1. l \in Nat /\ Cardinality(DOMAIN t_hash) \in Nat
  BY LenProperties, FS_CardinalityType DEF TInv, Typed
<1>2. u \in Nat
  BY <1>1
<1>3. FirstGap(t_array, t_hash) \in l .. u /\ FirstGap(t_array, t_hash) \notin DOMAIN t_hash
  BY GapFacts DEF TInv
<1> HIDE DEF l, u
<1>4. Lookup(FirstGap(t_array, t_hash)) = Null
  BY <1>1, <1>2, <1>3 DEF Lookup, At, InArray, Length, l
<1>5. T # {} /\ T \subseteq Nat
  BY <1>1, <1>2, <1>3, <1>4
<1>6. \E n \in l .. u : First(n)
  <2>1. PICK n \in T : \A m \in T : n <= m
    BY <1>5, NatMin
  <2>2. n \in l .. u /\ Lookup(n) = Null
    OBVIOUS
  <2>3. ASSUME NEW m \in l .. n - 1 PROVE Lookup(m) # Null
    <3>1. m \in l .. u /\ ~(n <= m)
      BY <1>1, <1>2, <2>2
    <3> QED BY <2>1, <3>1
  <2> QED BY <2>2, <2>3
<1>7. Reached = CHOOSE n \in l .. u : First(n)
  BY DEF Reached, Length, l, u
<1> HIDE DEF First, T
<1>8. Reached \in l .. u
  BY <1>6, <1>7
<1> QED BY <1>1, <1>2, <1>8 DEF l

\* A for-each loop over a table that does not change meanwhile visits every
\* entry once, negative Integers apart, with the value that indexing reads.
THEOREM ForEachesExact == Spec => []ForEachExact
<1>1. ASSUME TInv PROVE ForEachExact
  <2> SUFFICES ASSUME NEW k \in (0 .. Length(t_array) - 1) \cup DOMAIN t_hash, k \in Strings \/ k >= 0
               PROVE  {v \in Visits : v[2] = k} \in {{<<w, k, Lookup(k)>>} : w \in {"array", "hash"}}
    BY DEF ForEachExact
  <2> DEFINE InFront == {<<"array", n, Lookup(n)>> : n \in 0 .. Reached - 1}
             Later == {x \in DOMAIN t_hash : x \in Strings \/ x >= Reached}
             Behind == {<<"hash", x, t_hash[x]>> : x \in Later}
  <2>1. Reached \in Nat /\ Len(t_array) \in Nat /\ Reached >= Len(t_array)
    BY <1>1, ReachedFacts
  <2>2. Visits = InFront \cup Behind
    BY DEF Visits
  <2>3. DOMAIN t_hash \subseteq Strings \cup Int /\ Strings \cap Int = {}
    BY <1>1, IndicesAssumption DEF TInv, Typed, Indices
  <2>4. CASE k \in 0 .. Reached - 1
    <3>1. k \notin Later
      BY <2>1, <2>3, <2>4
    <3> HIDE DEF Later
    <3>2. {v \in InFront \cup Behind : v[2] = k} = {<<"array", k, Lookup(k)>>}
      BY <2>4, <3>1
    <3> QED BY <2>2, <3>2
  <2>5. CASE k \notin 0 .. Reached - 1
    <3>1. k \in Later /\ ~InArray(t_array, k)
      BY <2>1, <2>3, <2>5 DEF InArray, Length
    <3>2. Lookup(k) = t_hash[k]
      BY <3>1 DEF Lookup, At
    <3> HIDE DEF Later
    <3>3. {v \in InFront \cup Behind : v[2] = k} = {<<"hash", k, Lookup(k)>>}
      BY <2>5, <3>1, <3>2
    <3> QED BY <2>2, <3>3
  <2> QED BY <2>4, <2>5
<1> QED BY <1>1, Invariant, PTL

=============================================================================
