-------------------------- MODULE WorldSocketProofs --------------------------
(***************************************************************************)
(* Proofs about WorldSocket, for any number of packets and blocked writes.  *)
(***************************************************************************)
EXTENDS WorldSocket, FiniteSetTheorems, SequenceTheorems,
        NaturalsInduction, TLAPS

-----------------------------------------------------------------------------
(***************************************************************************)
(* Lists in parts and lists of lists, such as a queue of buffers, with an   *)
(* induction over lists whose hypothesis is a set.                          *)
(***************************************************************************)

\* A set of natural numbers that is not empty has a least element.
LEMMA LeastNat ==
    ASSUME NEW T \in SUBSET Nat, T # {}
    PROVE  \E n \in T : \A m \in T : n <= m
<1>1. PICK n \in T : \A m \in T : ~(<<m, n>> \in OpToRel(<, Nat))
  BY NatLessThanWellFounded, WFMin
<1>2. \A m \in T : ~(m < n)
  BY <1>1 DEF OpToRel
<1> QED BY <1>2

\* The elements of a list.
LEMMA Elements ==
    ASSUME NEW S, NEW q \in Seq(S)
    PROVE  /\ ToSet(q) = {q[i] : i \in 1..Len(q)}
           /\ ToSet(q) \subseteq S
           /\ Len(q) \in Nat
           /\ ToSet(q) = {} <=> q = <<>>
<1>1. Len(q) \in Nat /\ DOMAIN q = 1..Len(q) /\ \A i \in 1..Len(q) : q[i] \in S
  BY LenProperties, ElementOfSeq
<1>2. ToSet(q) = {q[i] : i \in 1..Len(q)}
  BY <1>1 DEF ToSet
<1>3. q # <<>> => q[1] \in ToSet(q)
  BY <1>1, <1>2, EmptySeq
<1>4. q = <<>> => ToSet(q) = {}
  BY <1>2
<1> QED BY <1>1, <1>2, <1>3, <1>4

\* The elements of a list made of two.
LEMMA ConcatSet ==
    ASSUME NEW S, NEW q \in Seq(S), NEW r \in Seq(S)
    PROVE  q \o r \in Seq(S) /\ ToSet(q \o r) = ToSet(q) \cup ToSet(r)
<1> DEFINE t == q \o r
           m == Len(q)
           n == Len(r)
<1>1. /\ t \in Seq(S) /\ Len(t) = m + n /\ m \in Nat /\ n \in Nat
      /\ \A i \in 1..(m + n) : t[i] = IF i <= m THEN q[i] ELSE r[i - m]
  BY ConcatProperties, LenProperties
<1>2. /\ ToSet(q) = {q[i] : i \in 1..m} /\ ToSet(r) = {r[i] : i \in 1..n}
      /\ ToSet(t) = {t[i] : i \in 1..Len(t)}
  BY <1>1, Elements
<1> HIDE DEF t, m, n
<1>3. ASSUME NEW i \in 1..(m + n) PROVE t[i] \in ToSet(q) \cup ToSet(r)
  <2>1. CASE i <= m
    BY <1>1, <1>2, <2>1
  <2>2. CASE ~(i <= m)
    <3>1. i - m \in 1..n
      BY <1>1, <2>2
    <3> QED BY <1>1, <1>2, <2>2, <3>1
  <2> QED BY <2>1, <2>2
<1>4. ASSUME NEW i \in 1..m PROVE q[i] \in ToSet(t)
  <2>1. i \in 1..(m + n) /\ t[i] = q[i]
    BY <1>1
  <2> QED BY <1>1, <1>2, <2>1
<1>5. ASSUME NEW i \in 1..n PROVE r[i] \in ToSet(t)
  <2>1. (i + m) \in 1..(m + n) /\ t[i + m] = r[i]
    BY <1>1
  <2> QED BY <1>1, <1>2, <2>1
<1>6. ToSet(t) = ToSet(q) \cup ToSet(r)
  BY <1>1, <1>2, <1>3, <1>4, <1>5
<1> QED BY <1>1, <1>6 DEF t

\* A part of a list.
LEMMA PartSet ==
    ASSUME NEW S, NEW q \in Seq(S), NEW a \in Nat \ {0}, NEW b \in 0..Len(q)
    PROVE  SubSeq(q, a, b) \in Seq(S) /\ ToSet(SubSeq(q, a, b)) \subseteq ToSet(q)
<1> DEFINE t == SubSeq(q, a, b)
<1>0. Len(q) \in Nat /\ \A i \in 1..Len(q) : q[i] \in S
  BY LenProperties, ElementOfSeq
<1>1. t = [i \in 1..(b - a + 1) |-> q[i + a - 1]]
  OBVIOUS
<1>2. \A i \in 1..(b - a + 1) : (i + a - 1) \in 1..Len(q)
  BY <1>0
<1>3. \A i \in 1..(b - a + 1) : t[i] = q[i + a - 1] /\ t[i] \in S
  BY <1>0, <1>1, <1>2
<1>4. t \in Seq(S) /\ Len(t) = IF a <= b THEN b - a + 1 ELSE 0
  BY <1>0, SubSeqProperties
<1>5. ToSet(t) = {t[i] : i \in 1..Len(t)} /\ ToSet(q) = {q[i] : i \in 1..Len(q)}
  BY <1>4, Elements
<1> HIDE DEF t
<1>6. ASSUME NEW i \in 1..Len(t) PROVE t[i] \in ToSet(q)
  <2>1. i \in 1..(b - a + 1)
    BY <1>0, <1>4
  <2> QED BY <1>2, <1>3, <1>5, <2>1
<1> QED BY <1>4, <1>5, <1>6 DEF t

\* A list with one more element.
LEMMA AppendSet ==
    ASSUME NEW S, NEW q \in Seq(S), NEW x \in S
    PROVE  Append(q, x) \in Seq(S) /\ ToSet(Append(q, x)) = ToSet(q) \cup {x}
           /\ Append(q, x) # <<>>
<1> DEFINE t == Append(q, x)
           n == Len(q)
<1>1. /\ t \in Seq(S) /\ Len(t) = n + 1 /\ n \in Nat
      /\ \A i \in 1..n : t[i] = q[i]
      /\ t[n + 1] = x
  BY AppendProperties, LenProperties
<1>2. ToSet(q) = {q[i] : i \in 1..n} /\ ToSet(t) = {t[i] : i \in 1..Len(t)}
  BY <1>1, Elements
<1>3. t # <<>>
  BY <1>1, EmptySeq
<1> HIDE DEF t, n
<1>4. 1..(n + 1) = (1..n) \cup {n + 1}
  BY <1>1
<1>5. ToSet(t) = ToSet(q) \cup {x}
  BY <1>1, <1>2, <1>4
<1> QED BY <1>1, <1>3, <1>5 DEF t

\* A list without its first element.
LEMMA TailSet ==
    ASSUME NEW S, NEW q \in Seq(S), q # <<>>
    PROVE  /\ Tail(q) \in Seq(S) /\ ToSet(Tail(q)) \subseteq ToSet(q)
           /\ Head(q) \in ToSet(q) /\ Head(q) \in S
<1> DEFINE t == Tail(q)
           n == Len(q)
<1>1. /\ t \in Seq(S) /\ Len(t) = n - 1 /\ n \in Nat /\ n > 0
      /\ \A i \in 1..(n - 1) : t[i] = q[i + 1]
      /\ Head(q) = q[1] /\ Head(q) \in S
  BY HeadTailProperties, EmptySeq, Elements
<1>2. ToSet(q) = {q[i] : i \in 1..n} /\ ToSet(t) = {t[i] : i \in 1..Len(t)}
  BY <1>1, Elements
<1> HIDE DEF t, n
<1>3. ASSUME NEW i \in 1..(n - 1) PROVE t[i] \in ToSet(q)
  <2>1. (i + 1) \in 1..n /\ t[i] = q[i + 1]
    BY <1>1
  <2> QED BY <1>2, <2>1
<1>4. Head(q) \in ToSet(q)
  <2>1. 1 \in 1..n
    BY <1>1
  <2> QED BY <1>1, <1>2, <2>1
<1> QED BY <1>1, <1>2, <1>3, <1>4 DEF t

\* A list of one element.
LEMMA OneSet ==
    ASSUME NEW x
    PROVE  /\ ToSet(<<x>>) = {x} /\ Len(<<x>>) = 1 /\ Head(<<x>>) = x
           /\ Tail(<<x>>) = <<>> /\ <<x>> # <<>>
           /\ Append(<<>>, x) = <<x>>
           /\ SubSeq(<<x>>, 1, 1) = <<x>> /\ SubSeq(<<x>>, 1, 0) = <<>>
           /\ SubSeq(<<x>>, 2, 1) = <<>>
           /\ <<>> \o <<x>> = <<x>> /\ <<x>> \o <<>> = <<x>>
<1>1. ToSet(<<x>>) = {x}
  BY DEF ToSet
<1>2. SubSeq(<<x>>, 1, 1) = <<x>> /\ SubSeq(<<x>>, 1, 0) = <<>> /\ SubSeq(<<x>>, 2, 1) = <<>>
  <2>1. SubSeq(<<x>>, 1, 0) = <<>> /\ SubSeq(<<x>>, 2, 1) = <<>>
    BY SubSeqEmpty
  <2> DEFINE q == <<x>>
             t == SubSeq(q, 1, 1)
  <2>2. q \in Seq({x}) /\ q[1] = x /\ Len(q) = 1
    OBVIOUS
  <2> HIDE DEF q
  <2>3. /\ t \in Seq({x}) /\ Len(t) = IF 1 <= 1 THEN 1 - 1 + 1 ELSE 0
        /\ \A i \in 1..(1 - 1 + 1) : t[i] = q[1 + i - 1]
    <3>1. \A i \in 1..1 : q[i] \in {x}
      BY <2>2
    <3> QED BY <3>1, SubSeqProperties
  <2> HIDE DEF t
  <2>4. Len(t) = 1 /\ t[1] = q[1]
    BY <2>3
  <2>5. t = q
    BY <2>2, <2>3, <2>4, SeqEqual
  <2> QED BY <2>1, <2>5 DEF t, q
<1>3. Append(<<>>, x) = <<x>> /\ Tail(<<x>>) = <<>> /\ Head(<<x>>) = x /\ <<x>> # <<>>
  OBVIOUS
<1>4. <<>> \o <<x>> = <<x>> /\ <<x>> \o <<>> = <<x>>
  <2>1. <<x>> \in Seq({x})
    OBVIOUS
  <2> QED BY <2>1, ConcatEmptySeq
<1> QED BY <1>1, <1>2, <1>3, <1>4

-----------------------------------------------------------------------------
(***************************************************************************)
(* Lists in parts, induction over lists, and what FlattenSeq computes       *)
(***************************************************************************)

\* A sequence in two parts.
LEMMA SplitSeq ==
    ASSUME NEW S, NEW s \in Seq(S), NEW n \in 0..Len(s)
    PROVE  /\ SubSeq(s, 1, n) \in Seq(S) /\ SubSeq(s, n + 1, Len(s)) \in Seq(S)
           /\ SubSeq(s, 1, n) \o SubSeq(s, n + 1, Len(s)) = s
<1>1. PICK m : m = Len(s)
  OBVIOUS
<1>2. m \in Nat /\ \A i \in 1..m : s[i] \in S
  BY <1>1, LenProperties, ElementOfSeq
<1>3. n \in 0..m
  BY <1>1
<1>4. PICK k : k = n + 1
  OBVIOUS
<1>5. /\ k \in Int /\ m \in Int /\ n \in Int /\ 1 \in Int
      /\ \A i \in 1..n : s[i] \in S
      /\ \A i \in k..m : s[i] \in S
  BY <1>2, <1>3, <1>4
<1>6. SubSeq(s, 1, n) \in Seq(S) /\ SubSeq(s, k, m) \in Seq(S)
  BY ONLY <1>5, SubSeqProperties
<1>7. SubSeq(s, 1, n) \o SubSeq(s, n + 1, m) = SubSeq(s, 1, m)
  <2>1. 1 \in 1..Len(s) + 1 /\ n \in (1 - 1)..Len(s) /\ m \in n..Len(s)
    BY <1>1, <1>2, <1>3
  <2> QED BY <2>1, ConcatAdjacentSubSeq
<1>8. SubSeq(s, 1, m) = s
  BY <1>1, SubSeqFull
<1> QED BY <1>1, <1>4, <1>6, <1>7, <1>8

\* What a sequence begins with.
LEMMA PrefixOfConcat ==
    ASSUME NEW S, NEW s \in Seq(S), NEW r \in Seq(S)
    PROVE  IsPrefix(s, s \o r)
<1>1. PICK v, n : v = s \o r /\ n = Len(s)
  OBVIOUS
<1>2. /\ n \in Nat /\ Len(r) \in Nat /\ v \in Seq(S) /\ Len(v) = n + Len(r)
      /\ \A i \in 1..n : v[i] = s[i]
  BY <1>1, LenProperties, ConcatProperties
<1>3. n <= Len(v) /\ \A i \in 1..n : v[i] \in S
  BY <1>1, <1>2, ElementOfSeq
<1>4. SubSeq(s, 1, n) = s
  BY <1>1, SubSeqFull
<1>5. /\ SubSeq(v, 1, n) \in Seq(S)
      /\ Len(SubSeq(v, 1, n)) = IF 1 <= n THEN n - 1 + 1 ELSE 0
      /\ \A i \in 1..(n - 1 + 1) : SubSeq(v, 1, n)[i] = v[1 + i - 1]
  BY <1>2, <1>3, SubSeqProperties
<1>6. PICK u : u = SubSeq(v, 1, n)
  OBVIOUS
<1>7. u \in Seq(S) /\ Len(u) = Len(s) /\ \A i \in 1..Len(u) : u[i] = s[i]
  BY <1>1, <1>2, <1>5, <1>6
<1>8. u = s
  BY <1>7, SeqEqual
<1> QED BY <1>1, <1>3, <1>4, <1>6, <1>8 DEF IsPrefix

\* Append to the second of two lists.
LEMMA ConcatAppend ==
    ASSUME NEW S, NEW s \in Seq(S), NEW t \in Seq(S), NEW e \in S
    PROVE  s \o Append(t, e) = Append(s \o t, e)
<1>1. PICK u : u = <<e>>
  OBVIOUS
<1>2. u \in Seq(S)
  BY <1>1
<1>3. (s \o t) \o u = s \o (t \o u)
  BY <1>2, ConcatAssociative
<1>4. Append(t, e) = t \o u /\ Append(s \o t, e) = (s \o t) \o u
  BY <1>1, AppendIsConcat, ConcatProperties
<1> QED BY <1>3, <1>4

\* c is a followed by b.
Joins(a, b, c) == c = a \o b

\* Joining three sequences.
LEMMA JoinsThree ==
    ASSUME NEW S, NEW a \in Seq(S), NEW b \in Seq(S), NEW c \in Seq(S),
           NEW x, NEW y, NEW z, Joins(a, b, x), Joins(x, c, y), Joins(b, c, z)
    PROVE  Joins(a, z, y)
<1>1. a \in Seq(S) /\ b \in Seq(S) /\ c \in Seq(S)
  OBVIOUS
<1>2. (a \o b) \o c = a \o (b \o c)
  BY ONLY <1>1, ConcatAssociative
<1> QED BY <1>2 DEF Joins

\* The border between two queues moves.
LEMMA Regroup ==
    ASSUME NEW S, NEW h \in Seq(S), NEW u \in Seq(S), NEW r \in Seq(S), NEW w \in Seq(S),
           NEW b, NEW c, NEW o, NEW k, NEW z,
           Joins(u, r, b), Joins(b, w, c), Joins(h, c, o), Joins(h, u, k), Joins(r, w, z)
    PROVE  Joins(k, z, o)
<1>1. Joins(u, z, c)
  BY JoinsThree
<1>2. z \in Seq(S)
  BY ConcatProperties DEF Joins
<1>3. PICK y : Joins(k, z, y)
  BY DEF Joins
<1>4. Joins(h, c, y)
  BY <1>1, <1>2, <1>3, JoinsThree
<1>5. y = o
  BY <1>4 DEF Joins
<1> QED BY <1>3, <1>5

\* A longer second part.
LEMMA JoinsAppend ==
    ASSUME NEW S, NEW a \in Seq(S), NEW b \in Seq(S), NEW e \in S, NEW c, Joins(a, b, c)
    PROVE  Joins(a, Append(b, e), Append(c, e))
<1>1. a \in Seq(S) /\ b \in Seq(S) /\ e \in S
  OBVIOUS
<1>2. a \o Append(b, e) = Append(a \o b, e)
  BY ONLY <1>1, ConcatAppend
<1> QED BY <1>2 DEF Joins

\* What flatten holds for the first n buffers.
Flattened(q, n, f) ==
    f = [i \in 1..n |-> IF i = 1 THEN q[i] ELSE f[i - 1] \o q[i]]

\* There is such a function, so the CHOOSE of a recursive function finds it.
LEMMA FlattenedExists ==
    ASSUME NEW q, NEW n \in Nat
    PROVE  \E f : Flattened(q, n, f)
<1> DEFINE Bad == {m \in Nat : ~ \E f : Flattened(q, m, f)}
<1>1. SUFFICES ASSUME Bad # {} PROVE FALSE
  OBVIOUS
<1>2. PICK m \in Bad : \A k \in Bad : m <= k
  BY <1>1, LeastNat
<1>3. m \in Nat /\ ~ \E f : Flattened(q, m, f)
  OBVIOUS
<1>4. CASE m = 0
  <2> DEFINE f == [i \in 1..0 |-> 0]
  <2>1. Flattened(q, 0, f)
    BY DEF Flattened
  <2> QED BY <1>3, <1>4, <2>1
<1>5. CASE m # 0
  <2>1. m - 1 \in Nat /\ m - 1 \notin Bad
    BY <1>2, <1>3, <1>5
  <2>2. PICK g : Flattened(q, m - 1, g)
    BY <2>1
  <2> DEFINE f == [i \in 1..m |-> IF i = m THEN IF m = 1 THEN q[m] ELSE g[m - 1] \o q[m]
                                           ELSE g[i]]
  <2>3. ASSUME NEW i \in 1..m
        PROVE  f[i] = IF i = 1 THEN q[i] ELSE f[i - 1] \o q[i]
    <3>1. CASE i = m
      <4>1. m # 1 => m - 1 \in 1..m /\ m - 1 # m
        BY <1>3, <1>5
      <4>2. m # 1 => f[m - 1] = g[m - 1]
        BY <4>1
      <4> QED BY <3>1, <4>2
    <3>2. CASE i # m
      <4>1. i \in 1..(m - 1)
        BY <3>2, <1>3
      <4>2. g[i] = IF i = 1 THEN q[i] ELSE g[i - 1] \o q[i]
        BY <2>2, <4>1 DEF Flattened
      <4>3. i # 1 => i - 1 \in 1..m /\ i - 1 # m
        BY <4>1, <1>3
      <4>4. i # 1 => f[i - 1] = g[i - 1]
        BY <4>3
      <4> QED BY <3>2, <4>2, <4>4
    <3> QED BY <3>1, <3>2
  <2>4. f = [i \in 1..m |-> IF i = 1 THEN q[i] ELSE f[i - 1] \o q[i]]
    BY <2>3
  <2> HIDE DEF f
  <2>5. Flattened(q, m, f)
    BY <2>4 DEF Flattened
  <2> QED BY <1>3, <2>5
<1> QED BY <1>4, <1>5

\* The recursion equation.
LEMMA FlattenedAt ==
    ASSUME NEW q, NEW n, NEW f, Flattened(q, n, f), NEW i \in 1..n
    PROVE  f[i] = IF i = 1 THEN q[i] ELSE f[i - 1] \o q[i]
BY DEF Flattened

\* q and r begin with the same n elements.
Same(q, r, n) == \A i \in 1..n : q[i] = r[i]

\* Two such functions agree where the sequences do.
LEMMA FlattenedUnique ==
    ASSUME NEW q, NEW r, NEW n \in Nat, NEW m \in Nat, NEW f, NEW g,
           Flattened(q, n, f), Flattened(r, m, g), n <= m,
           Same(q, r, n)
    PROVE  Same(f, g, n)
<1> DEFINE Bad == {k \in 1..n : f[k] # g[k]}
<1>1. SUFFICES ASSUME Bad # {} PROVE FALSE
  BY DEF Same
<1>2. PICK k \in Bad : \A j \in Bad : k <= j
  <2>1. Bad \in SUBSET Nat
    OBVIOUS
  <2> QED BY <1>1, <2>1, LeastNat
<1>3. k \in 1..n /\ k \in 1..m /\ f[k] # g[k]
  OBVIOUS
<1>4. /\ f[k] = IF k = 1 THEN q[k] ELSE f[k - 1] \o q[k]
      /\ g[k] = IF k = 1 THEN r[k] ELSE g[k - 1] \o r[k]
  BY <1>3, FlattenedAt
<1>5. k # 1 => k - 1 \in 1..n /\ k - 1 \notin Bad
  BY <1>2, <1>3
<1>6. k # 1 => f[k - 1] = g[k - 1]
  BY <1>5
<1> QED BY <1>3, <1>4, <1>6 DEF Same

\* The last value of flatten.
LEMMA FlattenIs ==
    ASSUME NEW S, NEW q \in Seq(S), Len(q) # 0
    PROVE  \E f : Flattened(q, Len(q), f) /\ FlattenSeq(q) = f[Len(q)]
<1> DEFINE f == CHOOSE f : f = [i \in 1..Len(q) |-> IF i = 1 THEN q[i] ELSE f[i - 1] \o q[i]]
<1>1. Len(q) \in Nat
  BY LenProperties
<1>2. \E g : g = [i \in 1..Len(q) |-> IF i = 1 THEN q[i] ELSE g[i - 1] \o q[i]]
  BY <1>1, FlattenedExists DEF Flattened
<1>3. f = [i \in 1..Len(q) |-> IF i = 1 THEN q[i] ELSE f[i - 1] \o q[i]]
  BY <1>2
<1>4. FlattenSeq(q) = f[Len(q)]
  BY DEF FlattenSeq
<1> QED BY <1>3, <1>4 DEF Flattened

\* FlattenSeq, one buffer at a time.
LEMMA FlattenAppend ==
    ASSUME NEW S, NEW q \in Seq(Seq(S)), NEW b \in Seq(S)
    PROVE  FlattenSeq(Append(q, b)) = FlattenSeq(q) \o b
<1> DEFINE r == Append(q, b)
           n == Len(q)
<1>1. /\ n \in Nat /\ r \in Seq(Seq(S)) /\ Len(r) = n + 1 /\ r[n + 1] = b
      /\ \A i \in 1..n : r[i] = q[i]
  BY LenProperties, AppendProperties
<1>2. Len(r) # 0
  BY <1>1
<1>a. n = Len(q) /\ Len(r) \in Nat
  BY <1>1
<1> HIDE DEF r, n
<1>3. PICK g : Flattened(r, n + 1, g) /\ FlattenSeq(r) = g[n + 1]
  <2>1. \E f : Flattened(r, Len(r), f) /\ FlattenSeq(r) = f[Len(r)]
    BY <1>1, <1>2, FlattenIs, Zenon
  <2> QED BY <1>1, <2>1
<1>4. g[n + 1] = IF n + 1 = 1 THEN r[n + 1] ELSE g[(n + 1) - 1] \o r[n + 1]
  <2>1. PICK m : m = n + 1
    OBVIOUS
  <2>2. m \in 1..m /\ Flattened(r, m, g)
    BY <1>1, <1>3, <2>1
  <2> QED BY <2>1, <2>2, FlattenedAt
<1>5. CASE n = 0
  <2>1. FlattenSeq(q) = q /\ q = <<>>
    BY <1>5, <1>a, EmptySeq DEF FlattenSeq
  <2>2. <<>> \o b = b
    BY ConcatEmptySeq
  <2> QED BY <1>1, <1>3, <1>4, <1>5, <2>1, <2>2 DEF r
<1>6. CASE n # 0
  <2>1. PICK f : Flattened(q, n, f) /\ FlattenSeq(q) = f[n]
    BY <1>6, <1>a, FlattenIs
  <2>2. Same(f, g, n)
    <3>1. PICK m : m = n + 1
      OBVIOUS
    <3>2. PICK p : p = q
      OBVIOUS
    <3>3. n \in Nat /\ m \in Nat /\ n <= m
      BY <1>1, <3>1
    <3>4. Flattened(p, n, f) /\ Flattened(r, m, g)
      BY <1>3, <2>1, <3>1, <3>2
    <3>5. Same(p, r, n)
      BY <1>1, <3>2 DEF Same
    <3> HIDE <3>2
    <3> QED BY <3>3, <3>4, <3>5, FlattenedUnique
  <2>3. f[n] = g[(n + 1) - 1]
    BY <1>1, <1>6, <2>2 DEF Same
  <2> QED BY <1>1, <1>3, <1>4, <1>6, <2>1, <2>3 DEF r
<1> QED BY <1>5, <1>6

\* No buffers, no bytes.
LEMMA FlattenEmpty == FlattenSeq(<<>>) = <<>>
BY DEF FlattenSeq

\* Induction over sequences: a set of sequences that holds the empty one and is
\* closed under Append holds them all.
LEMMA SeqInduction ==
    ASSUME NEW S, NEW G, <<>> \in G,
           \A s \in Seq(S), e \in S : s \in G => Append(s, e) \in G
    PROVE  Seq(S) \subseteq G
<1> DEFINE Bad == {Len(s) : s \in Seq(S) \ G}
<1>1. SUFFICES ASSUME Bad # {} PROVE FALSE
  OBVIOUS
<1>2. Bad \in SUBSET Nat
  BY LenProperties
<1>3. PICK m \in Bad : \A k \in Bad : m <= k
  BY <1>1, <1>2, LeastNat
<1>4. PICK s \in Seq(S) \ G : m = Len(s)
  OBVIOUS
<1>5. s # <<>>
  OBVIOUS
<1>6. PICK r \in Seq(S), e \in S : s = Append(r, e)
  BY <1>5, SequenceEmptyOrAppend
<1>7. Len(r) \in Nat /\ Len(s) = Len(r) + 1
  BY <1>6, LenProperties, AppendProperties
<1>8. r \notin G
  BY <1>6
<1> QED BY <1>3, <1>4, <1>7, <1>8

\* The flattened queue is a sequence of packets.
LEMMA FlattenType ==
    ASSUME NEW S, NEW q \in Seq(Seq(S))
    PROVE  FlattenSeq(q) \in Seq(S)
<1> DEFINE G == {r \in Seq(Seq(S)) : FlattenSeq(r) \in Seq(S)}
<1>1. <<>> \in G
  BY FlattenEmpty, EmptySeq
<1>2. ASSUME NEW r \in Seq(Seq(S)), NEW b \in Seq(S), r \in G
      PROVE  Append(r, b) \in G
  <2>1. Append(r, b) \in Seq(Seq(S))
    BY AppendProperties
  <2>2. FlattenSeq(r) \o b \in Seq(S)
    BY <1>2, ConcatProperties
  <2> QED BY <2>1, <2>2, FlattenAppend
<1> HIDE DEF G
<1>3. Seq(Seq(S)) \subseteq G
  BY <1>1, <1>2, SeqInduction
<1> QED BY <1>3 DEF G

\* The buffers of two queues.
LEMMA FlattenConcat ==
    ASSUME NEW S, NEW q \in Seq(Seq(S)), NEW r \in Seq(Seq(S))
    PROVE  FlattenSeq(q \o r) = FlattenSeq(q) \o FlattenSeq(r)
<1> DEFINE G == {u \in Seq(Seq(S)) : FlattenSeq(q \o u) = FlattenSeq(q) \o FlattenSeq(u)}
<1>0. FlattenSeq(q) \in Seq(S)
  BY FlattenType
<1>1. <<>> \in G
  <2>1. q \o <<>> = q /\ FlattenSeq(q) \o <<>> = FlattenSeq(q)
    BY <1>0, ConcatEmptySeq
  <2> QED BY <2>1, FlattenEmpty, EmptySeq
<1>2. ASSUME NEW u \in Seq(Seq(S)), NEW b \in Seq(S), u \in G
      PROVE  Append(u, b) \in G
  <2>1. Append(u, b) \in Seq(Seq(S)) /\ q \o u \in Seq(Seq(S)) /\ FlattenSeq(u) \in Seq(S)
    BY AppendProperties, ConcatProperties, FlattenType
  <2>2. q \o Append(u, b) = Append(q \o u, b)
    BY ConcatAppend
  <2>3. FlattenSeq(q \o Append(u, b)) = FlattenSeq(q \o u) \o b
    BY <2>1, <2>2, FlattenAppend
  <2>4. FlattenSeq(q \o u) = FlattenSeq(q) \o FlattenSeq(u)
    BY <1>2
  <2>5. (FlattenSeq(q) \o FlattenSeq(u)) \o b = FlattenSeq(q) \o (FlattenSeq(u) \o b)
    <3>1. b \in Seq(S) /\ FlattenSeq(q) \in Seq(S) /\ FlattenSeq(u) \in Seq(S)
      BY <1>0, <2>1
    <3> QED BY ONLY <3>1, ConcatAssociative
  <2>6. FlattenSeq(Append(u, b)) = FlattenSeq(u) \o b
    BY FlattenAppend
  <2> QED BY <2>1, <2>3, <2>4, <2>5, <2>6
<1> HIDE DEF G
<1>3. Seq(Seq(S)) \subseteq G
  BY <1>1, <1>2, SeqInduction
<1> QED BY <1>3 DEF G

\* One buffer in front.
LEMMA FlattenFirst ==
    ASSUME NEW S, NEW q \in Seq(Seq(S)), NEW b \in Seq(S)
    PROVE  FlattenSeq(<<b>> \o q) = b \o FlattenSeq(q)
<1>1. PICK c : c = <<b>>
  OBVIOUS
<1>2. c = Append(<<>>, b) /\ <<>> \in Seq(Seq(S))
  BY <1>1, EmptySeq
<1>3. c \in Seq(Seq(S))
  BY <1>2, AppendProperties
<1>4. FlattenSeq(c) = <<>> \o b
  BY <1>2, FlattenAppend, FlattenEmpty
<1>5. FlattenSeq(c) = b
  BY <1>4, ConcatEmptySeq
<1>6. FlattenSeq(c \o q) = FlattenSeq(c) \o FlattenSeq(q)
  BY <1>3, FlattenConcat
<1> QED BY <1>1, <1>5, <1>6

\* The head of the queue and the rest.
LEMMA FlattenHead ==
    ASSUME NEW S, NEW q \in Seq(Seq(S)), q # <<>>
    PROVE  FlattenSeq(q) = Head(q) \o FlattenSeq(Tail(q))
<1>1. Head(q) \in Seq(S) /\ Tail(q) \in Seq(Seq(S))
  BY HeadTailProperties
<1>2. q = <<Head(q)>> \o Tail(q)
  OBVIOUS
<1> QED BY <1>1, <1>2, FlattenFirst

\* A prefix, one element longer.
LEMMA PrefixAppend ==
    ASSUME NEW S, NEW s \in Seq(S), NEW k \in 1..Len(s)
    PROVE  /\ SubSeq(s, 1, k - 1) \in Seq(S) /\ s[k] \in S
           /\ SubSeq(s, 1, k) = Append(SubSeq(s, 1, k - 1), s[k])
<1>1. Len(s) \in Nat /\ \A i \in 1..Len(s) : s[i] \in S
  BY LenProperties, ElementOfSeq
<1>2. PICK j : j = k - 1
  OBVIOUS
<1>3. j \in Int /\ 1 \in Int /\ \A i \in 1..j : s[i] \in S
  BY <1>1, <1>2
<1>4. SubSeq(s, 1, j) \in Seq(S)
  BY <1>3, SubSeqProperties
<1>5. 1 \in 1..Len(s) /\ k \in 1..Len(s)
  BY <1>1
<1>6. SubSeq(s, 1, k) = SubSeq(s, 1, k - 1) \o <<s[k]>>
  BY <1>5, SubSeqRecursiveSecond
<1>7. s[k] \in S
  BY <1>1
<1> QED BY <1>2, <1>4, <1>6, <1>7, AppendIsConcat

\* A function on 1..m is a sequence of length m.
LEMMA FunctionIsSeq ==
    ASSUME NEW T, NEW m \in Nat, NEW e \in [1..m -> T]
    PROVE  e \in Seq(T) /\ Len(e) = m
<1>1. e \in Seq(T)
  OBVIOUS
<1>2. Len(e) \in Nat /\ DOMAIN e = 1..Len(e) /\ DOMAIN e = 1..m
  BY <1>1, LenProperties
<1> DEFINE l == Len(e)
<1>3. l \in Nat /\ 1..l = 1..m
  BY <1>2
<1> HIDE DEF l
<1>4. l = m
  <2>1. l > 0 => l \in 1..m
    BY <1>3
  <2>2. m > 0 => m \in 1..l
    BY <1>3
  <2> QED BY <1>3, <2>1, <2>2
<1> QED BY <1>1, <1>4 DEF l

-----------------------------------------------------------------------------
(***************************************************************************)
(* The inductive invariant of the socket                                    *)
(***************************************************************************)

\* The packets a client may send: what they are, and which of them.
Input == {"auth", "data", "ping", "alive"} \X Nat

\* The types the other parts need.
Types ==
    /\ gone \in BOOLEAN /\ closed \in BOOLEAN /\ closing \in BOOLEAN
    /\ authed \in BOOLEAN /\ worldSession \in BOOLEAN
    /\ out \in Seq(Input) /\ wire \in Seq(Input) /\ readBuffer \in Seq(Input)
    /\ sent \in Seq(Answers)

\* The session: who clears _worldSession when the socket is closed, and that a
\* session that is gone is not reachable but for a close under way.
Session ==
    /\ worldSession /\ closed => npc = "onclose" \/ wpc # "idle"
    /\ worldSession /\ sess # "alive" => npc = "onclose"
    /\ sess # "none" /\ ~worldSession => closed
    /\ npc = "onclose" => closed
    /\ wpc # "idle" => closed /\ sess = "alive"
    /\ authed <=> sess # "none"
    /\ query # "none" => sess = "none"
    /\ closing => query = "none" /\ sess = "none"
    /\ npc \in {"queries", "flush"} /\ closed => sess # "none"

\* The network thread while it reads.
Reading ==
    /\ npc \in {"read", "dump", "packet", "session", "nosession"} => ~closing
    /\ npc \in {"dump", "packet", "session", "nosession"} => readBuffer # <<>>
    /\ npc \in {"session", "nosession"} => NextPacket[1] # "auth"
    /\ npc = "session" => worldSession
    /\ npc = "nosession" => ~worldSession
    /\ lock = "net" <=> npc \in {"session", "nosession"}
    /\ \A p \in ToSet(wire) \cup ToSet(readBuffer) : p[1] # "auth" => sess # "none"
    /\ out = <<>> => wire = <<>> /\ readBuffer = <<>>

\* Before there is a session at most one packet is on its way to the client.
Empty == bufferQueue = <<>> /\ writeQueue = <<>>
Queued(x) == bufferQueue = <<x>> /\ writeQueue = <<>>
Written(x) == bufferQueue = <<>> /\ writeQueue = <<<<x>>>>

\* The queues of a socket without a session, and what the client has by then.
Handshake ==
    sess = "none" =>
        /\ Empty \/ \E x \in {"chal", "err"} : Queued(x) \/ Written(x)
        /\ query # "none" => Empty
        /\ query \in {"ip", "ip!"} => rcvd = <<>> /\ out = <<>>
        /\ ~closing /\ (out # <<>> \/ rcvd # <<>>) => Empty
        /\ rcvd \in Seq(Answers) /\ "ok" \notin ToSet(rcvd)

\* A refusal is sent once, and is on its way or received.
Refused ==
    "err" \in ToSet(sent) =>
        /\ closing
        /\ ~gone => "err" \in ToSet(rcvd) \/ (~closed /\ (Queued("err") \/ Written("err")))

\* The invariant.
SocketInv == Types /\ Session /\ Reading /\ Handshake /\ Refused
-----------------------------------------------------------------------------
(***************************************************************************)
(* The invariant is inductive: steps that put nothing on the wire           *)
(***************************************************************************)

\* The invariant holds for a new socket.
LEMMA SocketInit == Init => SocketInv
<1> SUFFICES ASSUME Init PROVE SocketInv
  OBVIOUS
<1>1. ToSet(<<>>) = {} /\ <<>> \in Seq(Input) /\ <<>> \in Seq(Answers)
  BY DEF ToSet
<1>2. Types /\ Session
  BY <1>1 DEF Init, Types, Session
<1>3. Reading
  BY <1>1 DEF Init, Reading
<1>4. Handshake /\ Refused
  BY <1>1 DEF Init, Handshake, Refused, Empty
<1> QED BY <1>2, <1>3, <1>4 DEF SocketInv

\* What is on its way to the client, and what it received.
delivery == <<out, rcvd, writeQueue, bufferQueue, sent>>

\* A step that leaves the way to the client alone.
LEMMA QuietStep ==
    ASSUME SocketInv, UNCHANGED <<delivery, closing>>,
           sess' = "none" => sess = "none",
           gone => gone', closing /\ ~gone' => closed' = closed,
           \/ query' \in {query, "none"}
           \/ query = "ip" /\ query' = "ip!"
           \/ query = "auth" /\ query' = "auth!"
           \/ query' = "auth" /\ (sess' = "none" => Empty)
    PROVE  Handshake' /\ Refused'
<1>1. /\ out' = out /\ rcvd' = rcvd /\ writeQueue' = writeQueue
      /\ bufferQueue' = bufferQueue /\ sent' = sent /\ closing' = closing
  BY DEF delivery
<1>2. /\ Empty' <=> Empty
      /\ \A x \in {"chal", "err"} : (Queued(x)' <=> Queued(x)) /\ (Written(x)' <=> Written(x))
  BY <1>1 DEF Empty, Queued, Written
<1>3. Handshake /\ Refused /\ gone \in BOOLEAN
  BY DEF SocketInv, Types
<1>4. Handshake'
  BY <1>1, <1>2, <1>3 DEF Handshake
<1>5. "err" \in {"chal", "err"}
  OBVIOUS
<1>6. Queued("err")' = Queued("err") /\ Written("err")' = Written("err")
  BY <1>1 DEF Queued, Written
<1>7. Refused'
  <2> SUFFICES ASSUME "err" \in ToSet(sent')
               PROVE  /\ closing'
                      /\ ~gone' => \/ "err" \in ToSet(rcvd')
                                   \/ ~closed' /\ (Queued("err")' \/ Written("err")')
    BY DEF Refused
  <2>1. /\ closing
        /\ ~gone => "err" \in ToSet(rcvd) \/ (~closed /\ (Queued("err") \/ Written("err")))
    BY <1>1, <1>3 DEF Refused
  <2> QED BY <1>1, <1>3, <1>6, <2>1
<1> QED BY <1>4, <1>7

\* A step of the network thread, or of the client, that also leaves alone what
\* was read and the session.
LEMMA ControlStep ==
    ASSUME SocketInv,
           UNCHANGED <<delivery, wire, readBuffer, stateVars, lock, sessionVars,
                       worldVars, query>>,
           gone' \in BOOLEAN, gone => gone',
           \/ npc' = npc
           \/ /\ npc \notin {"onclose", "session", "nosession"}
              /\ npc' \in {"idle", "write", "rearm"}
           \/ npc = "flush" /\ npc' = "queries"
           \/ npc \in {"read", "dump"} /\ npc' \in {"dump", "packet"} /\ readBuffer # <<>>
    PROVE  SocketInv'
<1>1. /\ out' = out /\ sent' = sent /\ closed' = closed /\ closing' = closing
      /\ worldSession' = worldSession /\ authed' = authed /\ wpc' = wpc /\ sess' = sess
  BY DEF delivery, stateVars, sessionVars, worldVars
<1>2. Types'
  BY <1>1 DEF SocketInv, Types
<1>3. Session'
  BY <1>1 DEF SocketInv, Session
<1>4. Reading'
  BY <1>1 DEF SocketInv, Reading, NextPacket
<1>5. Handshake' /\ Refused'
  BY <1>1, QuietStep
<1> QED BY <1>2, <1>3, <1>4, <1>5 DEF SocketInv

\* The client leaves or reads, or nothing changes.
LEMMA ClientSteps ==
    ASSUME SocketInv, ClientLeave \/ ClientReads \/ UNCHANGED vars
    PROVE  SocketInv'
<1>1. /\ UNCHANGED <<delivery, wire, readBuffer, stateVars, lock, sessionVars,
                     worldVars, query>>
      /\ npc' = npc /\ gone' \in {gone, TRUE}
  BY DEF ClientLeave, ClientReads, vars, delivery, clientVars, wireVars, readVars,
         writeVars, stateVars, sessionVars, worldVars
<1>2. gone' \in BOOLEAN /\ (gone => gone')
  BY <1>1 DEF SocketInv, Types
<1> QED BY <1>1, <1>2, ControlStep

\* Steps that move only the control of the network thread.
LEMMA PlainSteps ==
    ASSUME SocketInv,
           \/ NoQueryReady \/ AsyncRead \/ ReadDone \/ LogPacket \/ DumpPacket
           \/ WriteHandler \/ NetRemove \/ HandleEmptyQueue
    PROVE  SocketInv'
<1>1. /\ UNCHANGED <<delivery, wire, readBuffer, stateVars, lock, sessionVars,
                     worldVars, query>>
      /\ gone' = gone
  BY DEF NoQueryReady, AsyncRead, ReadDone, LogPacket, DumpPacket, WriteHandler, NetRemove,
         HandleEmptyQueue, delivery, clientVars, wireVars, readVars, writeVars, stateVars,
         sessionVars, worldVars
<1>2. npc = "dump" => readBuffer # <<>>
  BY DEF SocketInv, Reading
<1>3. \/ npc' = npc
      \/ /\ npc \notin {"onclose", "session", "nosession"}
         /\ npc' \in {"idle", "write", "rearm"}
      \/ npc = "flush" /\ npc' = "queries"
      \/ npc \in {"read", "dump"} /\ npc' \in {"dump", "packet"} /\ readBuffer # <<>>
  BY <1>2 DEF NoQueryReady, AsyncRead, ReadDone, LogPacket, DumpPacket, WriteHandler,
              NetRemove, HandleEmptyQueue, AfterHandleQueue
<1>4. gone \in BOOLEAN
  BY DEF SocketInv, Types
<1> QED BY <1>1, <1>3, <1>4, ControlStep

\* The database answers.
LEMMA QueryAnsweredStep ==
    ASSUME SocketInv, QueryAnswered
    PROVE  SocketInv'
<1>1. /\ query \in {"ip", "auth"}
      /\ query' = IF query = "ip" THEN "ip!" ELSE "auth!"
      /\ UNCHANGED <<clientVars, wireVars, npc, where, readVars, writeVars,
                     bufferQueue, sent, stateVars, lock, sessionVars, worldVars>>
  BY DEF QueryAnswered
<1>2. Types' /\ Session'
  BY <1>1 DEF SocketInv, Types, Session, clientVars, readVars, stateVars, sessionVars,
              worldVars
<1>3. Reading'
  BY <1>1 DEF SocketInv, Reading, NextPacket, clientVars, readVars, stateVars,
              sessionVars, worldVars
<1>4. UNCHANGED <<delivery, closing, closed, gone, sess>>
  BY <1>1 DEF delivery, clientVars, wireVars, writeVars, stateVars, worldVars
<1>5. Handshake' /\ Refused'
  BY <1>1, <1>4, QuietStep
<1> QED BY <1>2, <1>3, <1>5 DEF SocketInv

\* HandleAuthSessionCallback makes the session.
LEMMA AcceptStep ==
    ASSUME SocketInv, Accept
    PROVE  SocketInv'
<1>1. /\ npc = "queries" /\ query = "auth!" /\ query' = "none"
      /\ authed' = TRUE /\ worldSession' = TRUE /\ sess' = "alive" /\ npc' = "rearm"
      /\ UNCHANGED <<clientVars, wireVars, readVars, writeVars,
                     bufferQueue, sent, stateVars, lock, wpc>>
  BY DEF Accept
<1>2. sess = "none" /\ ~closed /\ ~closing /\ wpc = "idle"
  BY <1>1 DEF SocketInv, Session
<1>3. Types' /\ Session'
  BY <1>1, <1>2 DEF SocketInv, Types, Session, clientVars, readVars, stateVars
<1>4. Reading'
  BY <1>1 DEF SocketInv, Reading, clientVars, readVars, stateVars
<1>5. UNCHANGED <<delivery, closing, closed, gone>>
  BY <1>1 DEF delivery, clientVars, wireVars, writeVars, stateVars
<1>6. Handshake' /\ Refused'
  BY <1>1, <1>5, QuietStep
<1> QED BY <1>3, <1>4, <1>6 DEF SocketInv

\* OnClose in the network thread.
LEMMA NetOnCloseStep ==
    ASSUME SocketInv, NetOnClose
    PROVE  SocketInv'
<1>1. /\ npc = "onclose" /\ lock = "free" /\ worldSession' = FALSE /\ npc' = "idle"
      /\ UNCHANGED <<clientVars, wireVars, query, readVars, writeVars,
                     bufferQueue, sent, stateVars, lock, authed, worldVars>>
  BY DEF NetOnClose
<1>2. Types' /\ Reading'
  BY <1>1 DEF SocketInv, Types, Reading, clientVars, readVars, stateVars, worldVars
<1>3. Session'
  BY <1>1 DEF SocketInv, Session, stateVars, worldVars
<1>4. UNCHANGED <<delivery, closing, closed, gone, sess, query>>
  BY <1>1 DEF delivery, clientVars, wireVars, writeVars, stateVars, worldVars
<1>5. Handshake' /\ Refused'
  BY <1>4, QuietStep
<1> QED BY <1>2, <1>3, <1>5 DEF SocketInv

-----------------------------------------------------------------------------
(***************************************************************************)
(* The invariant is inductive: closing, and the world thread                *)
(***************************************************************************)

\* The first half of CloseSocket in the network thread.
LEMMA CloseStep ==
    ASSUME SocketInv, NetClose, npc # "onclose",
           UNCHANGED <<closing, sessionVars, worldVars, query>>
    PROVE  /\ Session' /\ closed' = TRUE
           /\ npc' \notin {"read", "dump", "packet", "session", "nosession"}
<1>1. /\ closed' = TRUE /\ npc' = (IF closed THEN "idle" ELSE "onclose")
      /\ closing' = closing /\ worldSession' = worldSession /\ authed' = authed
      /\ wpc' = wpc /\ sess' = sess /\ query' = query
  BY DEF NetClose, sessionVars, worldVars
<1>2. Session /\ closed \in BOOLEAN
  BY DEF SocketInv, Types
<1> QED BY <1>1, <1>2 DEF Session

\* The world thread closes the socket.
LEMMA WorldKickStep ==
    ASSUME SocketInv, WorldKick
    PROVE  SocketInv'
<1>1. /\ sess = "alive" /\ wpc = "idle" /\ ~closed /\ closed' = TRUE /\ wpc' = "close"
      /\ UNCHANGED <<clientVars, wireVars, npc, query, readVars, writeVars,
                     bufferQueue, sent, closing, lock, sessionVars, sess>>
  BY DEF WorldKick
<1>2. Types' /\ Session'
  BY <1>1 DEF SocketInv, Types, Session, clientVars, readVars, sessionVars
<1>3. Reading'
  BY <1>1 DEF SocketInv, Reading, NextPacket, clientVars, readVars, sessionVars
<1>4. UNCHANGED <<delivery, closing, gone, sess, query>> /\ ~closing
  BY <1>1 DEF delivery, clientVars, wireVars, writeVars, SocketInv, Session
<1>5. Handshake' /\ Refused'
  BY <1>4, QuietStep
<1> QED BY <1>2, <1>3, <1>5 DEF SocketInv

\* The world thread finds the socket closed and deletes the session.
LEMMA WorldDropStep ==
    ASSUME SocketInv, WorldDrop
    PROVE  SocketInv'
<1>1. /\ sess = "alive" /\ wpc = "idle" /\ (closed \/ closing) /\ sess' = "deleted"
      /\ UNCHANGED <<clientVars, wireVars, npc, query, readVars, writeVars,
                     bufferQueue, sent, stateVars, lock, sessionVars, wpc>>
  BY DEF WorldDrop, IsOpen
<1>2. Types' /\ Session'
  BY <1>1 DEF SocketInv, Types, Session, clientVars, readVars, stateVars, sessionVars
<1>3. Reading'
  BY <1>1 DEF SocketInv, Reading, NextPacket, clientVars, readVars, stateVars, sessionVars
<1>4. UNCHANGED <<delivery, closing, closed, gone, query>>
  BY <1>1 DEF delivery, clientVars, wireVars, writeVars, stateVars
<1>5. Handshake' /\ Refused'
  BY <1>1, <1>4, QuietStep
<1> QED BY <1>2, <1>3, <1>5 DEF SocketInv

\* The world thread deletes a session it refuses or replaces.
LEMMA WorldDeleteStep ==
    ASSUME SocketInv, WorldDelete
    PROVE  SocketInv'
<1>1. /\ sess = "alive" /\ wpc = "idle" /\ closed' = TRUE
      /\ \/ closed /\ sess' = "deleted" /\ wpc' = wpc
         \/ ~closed /\ sess' = sess /\ wpc' = "delete"
      /\ UNCHANGED <<clientVars, wireVars, npc, query, readVars, writeVars,
                     bufferQueue, sent, closing, lock, sessionVars>>
  BY DEF WorldDelete
<1>2. Types' /\ Session'
  BY <1>1 DEF SocketInv, Types, Session, clientVars, readVars, sessionVars
<1>3. Reading'
  BY <1>1 DEF SocketInv, Reading, NextPacket, clientVars, readVars, sessionVars
<1>4. UNCHANGED <<delivery, closing, gone, query>> /\ ~closing
  BY <1>1 DEF delivery, clientVars, wireVars, writeVars, SocketInv, Session
<1>5. sess' # "none"
  BY <1>1
<1>6. Handshake' /\ Refused'
  BY <1>4, <1>5, QuietStep
<1> QED BY <1>2, <1>3, <1>6 DEF SocketInv

\* OnClose in the world thread.
LEMMA WorldOnCloseStep ==
    ASSUME SocketInv, WorldOnClose
    PROVE  SocketInv'
<1>1. /\ wpc # "idle" /\ lock = "free" /\ worldSession' = FALSE /\ wpc' = "idle"
      /\ sess' \in {"deleted", sess}
      /\ UNCHANGED <<clientVars, wireVars, npc, query, readVars, writeVars,
                     bufferQueue, sent, stateVars, lock, authed>>
  BY DEF WorldOnClose
<1>2. sess = "alive" /\ closed
  BY <1>1 DEF SocketInv, Session
<1>3. Types' /\ Session'
  BY <1>1, <1>2 DEF SocketInv, Types, Session, clientVars, readVars, stateVars
<1>4. Reading'
  BY <1>1, <1>2 DEF SocketInv, Reading, NextPacket, clientVars, readVars, stateVars
<1>5. UNCHANGED <<delivery, closing, closed, gone, query>> /\ sess' # "none"
  BY <1>1, <1>2 DEF delivery, clientVars, wireVars, writeVars, stateVars
<1>6. Handshake' /\ Refused'
  BY <1>5, QuietStep
<1> QED BY <1>3, <1>4, <1>6 DEF SocketInv

\* ReadHandlerInternal meets an error.
LEMMA ReadErrorStep ==
    ASSUME SocketInv, ReadError
    PROVE  SocketInv'
<1>1. /\ npc = "idle" /\ gone /\ NetClose
      /\ UNCHANGED <<clientVars, wireVars, query, readBuffer, writeVars,
                     bufferQueue, sent, closing, lock, sessionVars, worldVars>>
  BY DEF ReadError
<1>2. /\ Session' /\ closed' = TRUE
      /\ npc' \notin {"read", "dump", "packet", "session", "nosession"}
  BY <1>1, CloseStep
<1>3. Types'
  BY <1>1, <1>2 DEF SocketInv, Types, clientVars, sessionVars
<1>4. Reading'
  BY <1>1, <1>2 DEF SocketInv, Reading, clientVars, sessionVars, worldVars
<1>5. UNCHANGED <<delivery, closing, gone, query, sess>> /\ gone'
  BY <1>1 DEF delivery, clientVars, wireVars, writeVars, worldVars
<1>6. Handshake' /\ Refused'
  BY <1>5, QuietStep
<1> QED BY <1>2, <1>3, <1>4, <1>6 DEF SocketInv

-----------------------------------------------------------------------------
(***************************************************************************)
(* The invariant is inductive: reading                                      *)
(***************************************************************************)

\* ReadHandlerInternal moves packets from the wire into the buffer.
LEMMA ReadHandlerStep ==
    ASSUME SocketInv, ReadHandler
    PROVE  SocketInv'
<1>1. /\ npc = "idle" /\ wire # <<>> /\ npc' = (IF IsOpen THEN "read" ELSE "idle")
      /\ UNCHANGED <<gone, out, wireVars, query, writeVars, bufferQueue,
                     sent, stateVars, lock, sessionVars, worldVars>>
  BY DEF ReadHandler
<1>2. PICK n \in 1..Len(wire) :
          /\ readBuffer' = readBuffer \o SubSeq(wire, 1, n)
          /\ wire' = SubSeq(wire, n + 1, Len(wire))
  BY DEF ReadHandler
<1>3. wire \in Seq(Input) /\ readBuffer \in Seq(Input) /\ Len(wire) \in Nat
  BY DEF SocketInv, Types
<1>4. /\ SubSeq(wire, 1, n) \in Seq(Input)
      /\ ToSet(SubSeq(wire, 1, n)) \subseteq ToSet(wire)
  <2>1. n \in 0..Len(wire) /\ 1 \in Nat \ {0}
    BY <1>3
  <2> QED BY <1>3, <2>1, PartSet
<1>5. wire' \in Seq(Input) /\ ToSet(wire') \subseteq ToSet(wire)
  <2>1. Len(wire) \in 0..Len(wire) /\ n + 1 \in Nat \ {0}
    BY <1>3
  <2>2. /\ SubSeq(wire, n + 1, Len(wire)) \in Seq(Input)
        /\ ToSet(SubSeq(wire, n + 1, Len(wire))) \subseteq ToSet(wire)
    BY <1>3, <2>1, PartSet
  <2> QED BY <1>2, <2>2
<1>6. /\ readBuffer' \in Seq(Input)
      /\ ToSet(readBuffer') \subseteq ToSet(wire) \cup ToSet(readBuffer)
  <2> DEFINE s == SubSeq(wire, 1, n)
  <2> HIDE DEF s
  <2>1. s \in Seq(Input) /\ ToSet(s) \subseteq ToSet(wire) /\ readBuffer' = readBuffer \o s
    BY <1>2, <1>4 DEF s
  <2>2. /\ readBuffer \o s \in Seq(Input)
        /\ ToSet(readBuffer \o s) = ToSet(readBuffer) \cup ToSet(s)
    BY <1>3, <2>1, ConcatSet
  <2> QED BY <2>1, <2>2
<1>7. out # <<>>
  BY <1>1 DEF SocketInv, Reading
<1>8. Types' /\ Session'
  BY <1>1, <1>5, <1>6 DEF SocketInv, Types, Session, stateVars, sessionVars, worldVars
<1>9. Reading'
  BY <1>1, <1>5, <1>6, <1>7
     DEF SocketInv, Reading, IsOpen, stateVars, sessionVars, worldVars
<1>10. UNCHANGED <<delivery, closing, closed, gone, query, sess>>
  BY <1>1 DEF delivery, wireVars, writeVars, stateVars, worldVars
<1>11. Handshake' /\ Refused'
  BY <1>10, QuietStep
<1> QED BY <1>8, <1>9, <1>11 DEF SocketInv

\* The next packet leaves the buffer.
LEMMA TakePacket ==
    ASSUME SocketInv, readBuffer # <<>>, readBuffer' = Tail(readBuffer)
    PROVE  /\ readBuffer' \in Seq(Input) /\ ToSet(readBuffer') \subseteq ToSet(readBuffer)
           /\ NextPacket \in ToSet(readBuffer) /\ out # <<>>
<1>1. readBuffer \in Seq(Input) /\ out # <<>>
  BY DEF SocketInv, Types, Reading
<1> QED BY <1>1, TailSet DEF NextPacket

\* What is left of the buffer once a packet is out of it and the thread no
\* longer holds the lock.
LEMMA PacketTaken ==
    ASSUME SocketInv, readBuffer # <<>>, readBuffer' = Tail(readBuffer),
           UNCHANGED <<out, wire, closing, sess>>, lock' # "net",
           npc' \notin {"dump", "packet", "session", "nosession"},
           npc' = "read" => ~closing
    PROVE  Reading'
<1>1. /\ ToSet(readBuffer') \subseteq ToSet(readBuffer) /\ out # <<>>
  BY TakePacket
<1> QED BY <1>1 DEF SocketInv, Reading

\* CMSG_AUTH_SESSION: the query, or the end of a duplicate login.
LEMMA HandleAuthSessionStep ==
    ASSUME SocketInv, HandleAuthSession
    PROVE  SocketInv'
<1>1. /\ AtPacket /\ readBuffer' = Tail(readBuffer)
      /\ \/ authed /\ NetClose /\ query' = query
         \/ ~authed /\ query' = "auth" /\ npc' = "idle" /\ closed' = closed
      /\ UNCHANGED <<clientVars, wireVars, writeVars, bufferQueue, sent, closing, lock,
                     sessionVars, worldVars>>
  BY DEF HandleAuthSession
<1>2. /\ npc \in {"packet", "read"} /\ readBuffer # <<>> /\ ~closing /\ lock # "net"
      /\ authed <=> sess # "none"
  BY <1>1 DEF AtPacket, SocketInv, Reading, Session
<1>3. /\ Session' /\ closed' \in BOOLEAN
      /\ npc' \notin {"read", "dump", "packet", "session", "nosession"}
  <2>1. CASE authed /\ NetClose /\ query' = query
    BY <1>1, <1>2, <2>1, CloseStep
  <2>2. CASE ~authed /\ query' = "auth" /\ npc' = "idle" /\ closed' = closed
    <3>1. worldSession' = worldSession /\ authed' = authed /\ wpc' = wpc /\ sess' = sess
      BY <1>1 DEF sessionVars, worldVars
    <3>2. Session /\ closed \in BOOLEAN /\ closing' = closing /\ sess = "none"
      BY <1>1, <1>2, <2>2 DEF SocketInv, Types
    <3>3. Session'
      BY <1>2, <2>2, <3>1, <3>2 DEF Session
    <3> QED BY <2>2, <3>2, <3>3
  <2> QED BY <1>1, <2>1, <2>2
<1>4. Types'
  <2>1. readBuffer' \in Seq(Input)
    BY <1>1, <1>2, TakePacket
  <2> QED BY <1>1, <1>3, <2>1 DEF SocketInv, Types, clientVars, sessionVars
<1>5. Reading'
  BY <1>1, <1>2, <1>3, PacketTaken DEF clientVars, worldVars
<1>6. UNCHANGED <<delivery, closing, gone, sess>>
  BY <1>1 DEF delivery, clientVars, wireVars, writeVars, worldVars
<1>7. query' = "auth" /\ sess = "none" => Empty
  BY <1>2 DEF SocketInv, Reading, Handshake
<1>8. \/ query' = query
      \/ query' = "auth" /\ (sess' = "none" => Empty)
  BY <1>1, <1>6, <1>7
<1>9. Handshake' /\ Refused'
  BY <1>2, <1>6, <1>8, QuietStep
<1> QED BY <1>3, <1>4, <1>5, <1>9 DEF SocketInv

\* _worldSessionLock is taken.
LEMMA LockSessionStep ==
    ASSUME SocketInv, LockSession
    PROVE  SocketInv'
<1>1. /\ AtPacket /\ NextPacket[1] # "auth" /\ lock = "free" /\ lock' = "net"
      /\ npc' = (IF worldSession THEN "session" ELSE "nosession")
      /\ UNCHANGED <<clientVars, wireVars, query, readVars, writeVars,
                     bufferQueue, sent, stateVars, sessionVars, worldVars>>
  BY DEF LockSession
<1>2. npc \in {"packet", "read"} /\ readBuffer # <<>> /\ ~closing
  BY <1>1 DEF AtPacket, SocketInv, Reading
<1>3. Types' /\ Session'
  BY <1>1, <1>2 DEF SocketInv, Types, Session, clientVars, readVars, stateVars,
                    sessionVars, worldVars
<1>4. Reading'
  BY <1>1, <1>2 DEF SocketInv, Types, Reading, NextPacket, clientVars, readVars, stateVars,
                    sessionVars, worldVars
<1>5. UNCHANGED <<delivery, closing, closed, gone, query, sess>>
  BY <1>1 DEF delivery, clientVars, wireVars, writeVars, stateVars, worldVars
<1>6. Handshake' /\ Refused'
  BY <1>5, QuietStep
<1> QED BY <1>3, <1>4, <1>6 DEF SocketInv

\* HandlePing closes the socket.
LEMMA OverSpeedPingStep ==
    ASSUME SocketInv, OverSpeedPing
    PROVE  SocketInv'
<1>1. /\ npc = "session" /\ lock' = "free" /\ readBuffer' = Tail(readBuffer) /\ NetClose
      /\ UNCHANGED <<clientVars, wireVars, query, writeVars, bufferQueue, sent,
                     closing, sessionVars, worldVars>>
  BY DEF OverSpeedPing
<1>2. readBuffer # <<>> /\ ~closing
  BY <1>1 DEF SocketInv, Reading
<1>3. /\ Session' /\ closed' = TRUE
      /\ npc' \notin {"read", "dump", "packet", "session", "nosession"}
  BY <1>1, CloseStep
<1>4. Types'
  <2>1. readBuffer' \in Seq(Input)
    BY <1>1, <1>2, TakePacket
  <2> QED BY <1>1, <1>3, <2>1 DEF SocketInv, Types, clientVars, sessionVars
<1>5. Reading'
  BY <1>1, <1>2, <1>3, PacketTaken DEF clientVars, worldVars
<1>6. UNCHANGED <<delivery, closing, gone, query, sess>>
  BY <1>1 DEF delivery, clientVars, wireVars, writeVars, worldVars
<1>7. Handshake' /\ Refused'
  BY <1>2, <1>6, QuietStep
<1> QED BY <1>3, <1>4, <1>5, <1>7 DEF SocketInv

\* The client sent the packet after it was let in, so that a session there is
\* not any more means that the socket is closed: OnClose is not reached.
LEMMA NoSessionStep ==
    ASSUME SocketInv, NoSession
    PROVE  SocketInv'
<1>1. /\ npc = "nosession" /\ readBuffer' = Tail(readBuffer)
      /\ \/ lock' = "free" /\ npc' = "read" /\ closed' = closed
         \/ /\ lock' = (IF NextPacket[1] = "ping" \/ closed THEN "free" ELSE "net")
            /\ closed' = TRUE /\ npc' = (IF closed THEN "idle" ELSE "onclose")
      /\ UNCHANGED <<clientVars, wireVars, query, writeVars, bufferQueue, sent,
                     closing, sessionVars, worldVars>>
  BY DEF NoSession, NetClose
<1>2. readBuffer # <<>> /\ ~closing /\ ~worldSession /\ NextPacket[1] # "auth"
  BY <1>1 DEF SocketInv, Reading
<1>3. sess # "none"
  <2>1. NextPacket \in ToSet(readBuffer)
    BY <1>1, <1>2, TakePacket
  <2> QED BY <1>2, <2>1 DEF SocketInv, Reading
<1>4. closed = TRUE
  BY <1>2, <1>3 DEF SocketInv, Session, Types
<1>5. lock' = "free" /\ closed' = closed /\ npc' \in {"read", "idle"}
  BY <1>1, <1>4
<1>6. Types'
  <2>1. readBuffer' \in Seq(Input)
    BY <1>1, <1>2, TakePacket
  <2> QED BY <1>1, <1>5, <2>1 DEF SocketInv, Types, clientVars, sessionVars
<1>7. Session'
  BY <1>1, <1>2, <1>3, <1>4, <1>5 DEF SocketInv, Session, sessionVars, worldVars
<1>8. Reading'
  BY <1>1, <1>2, <1>5, PacketTaken DEF clientVars, worldVars
<1>9. UNCHANGED <<delivery, closing, closed, gone, query, sess>>
  BY <1>1, <1>5 DEF delivery, clientVars, wireVars, writeVars, worldVars
<1>10. Handshake' /\ Refused'
  BY <1>9, QuietStep
<1> QED BY <1>6, <1>7, <1>8, <1>10 DEF SocketInv

-----------------------------------------------------------------------------
(***************************************************************************)
(* The invariant is inductive: sending                                      *)
(***************************************************************************)

\* What is sent to a client with a session is no refusal.
LEMMA SentToSession ==
    ASSUME SocketInv, sess # "none", sess' = sess, closing' = closing,
           NEW x \in {"ok", "msg", "pong"},
           sent' = sent \/ sent' = Append(sent, x)
    PROVE  Handshake' /\ Refused' /\ sent' \in Seq(Answers)
<1>1. sent \in Seq(Answers) /\ x \in Answers /\ x # "err"
  BY DEF SocketInv, Types, Answers
<1>2. "err" \notin ToSet(sent)
  BY DEF SocketInv, Refused, Session
<1>3. sent' \in Seq(Answers) /\ "err" \notin ToSet(sent')
  <2>1. CASE sent' = sent
    BY <1>1, <1>2, <2>1
  <2>2. CASE sent' = Append(sent, x)
    <3>1. Append(sent, x) \in Seq(Answers) /\ ToSet(Append(sent, x)) = ToSet(sent) \cup {x}
      BY <1>1, AppendSet
    <3> QED BY <1>1, <1>2, <2>2, <3>1
  <2> QED BY <2>1, <2>2
<1>4. Handshake'
  BY DEF Handshake
<1>5. Refused'
  BY <1>3 DEF Refused
<1> QED BY <1>3, <1>4, <1>5

\* A packet is handed to the session.
LEMMA UseSessionStep ==
    ASSUME SocketInv, UseSession
    PROVE  SocketInv'
<1>1. /\ npc = "session" /\ lock' = "free" /\ readBuffer' = Tail(readBuffer) /\ npc' = "read"
      /\ sent' = sent \/ sent' = Append(sent, "pong")
      /\ UNCHANGED <<clientVars, wireVars, query, writeVars, stateVars, sessionVars,
                     worldVars>>
  BY DEF UseSession, SendPacket
<1>2. readBuffer # <<>> /\ ~closing /\ worldSession
  BY <1>1 DEF SocketInv, Reading
<1>3. sess = "alive" /\ closing' = closing /\ sess' = sess
  BY <1>1, <1>2 DEF SocketInv, Session, stateVars, worldVars
<1>4. Handshake' /\ Refused' /\ sent' \in Seq(Answers)
  <2>1. "pong" \in {"ok", "msg", "pong"} /\ sess # "none"
    BY <1>3
  <2> QED BY <1>1, <1>3, <2>1, SentToSession
<1>5. Types'
  <2>1. readBuffer' \in Seq(Input)
    BY <1>1, <1>2, TakePacket
  <2> QED BY <1>1, <1>4, <2>1 DEF SocketInv, Types, clientVars, stateVars, sessionVars
<1>6. Session'
  BY <1>1 DEF SocketInv, Session, stateVars, sessionVars, worldVars
<1>7. Reading'
  BY <1>1, <1>2, <1>3, PacketTaken DEF clientVars
<1> QED BY <1>4, <1>5, <1>6, <1>7 DEF SocketInv

\* The world thread sends.
LEMMA WorldSendStep ==
    ASSUME SocketInv, WorldSend
    PROVE  SocketInv'
<1>1. /\ sess = "alive"
      /\ UNCHANGED <<clientVars, wireVars, npc, query, readVars, writeVars, stateVars, lock,
                     sessionVars, worldVars>>
  BY DEF WorldSend
<1>2. PICK x \in {"ok", "msg", "pong"} : sent' = sent \/ sent' = Append(sent, x)
  BY DEF WorldSend, SendPacket
<1>3. closing' = closing /\ sess' = sess /\ sess # "none"
  BY <1>1 DEF stateVars, worldVars
<1>4. Handshake' /\ Refused' /\ sent' \in Seq(Answers)
  BY <1>2, <1>3, SentToSession
<1>5. Types' /\ Session'
  BY <1>1, <1>4 DEF SocketInv, Types, Session, clientVars, readVars, stateVars, sessionVars,
                    worldVars
<1>6. Reading'
  BY <1>1 DEF SocketInv, Reading, NextPacket, clientVars, readVars, stateVars, sessionVars,
              worldVars
<1> QED BY <1>4, <1>5, <1>6 DEF SocketInv

\* The state in which a query is answered.
LEMMA AtQuery ==
    ASSUME SocketInv, npc = "queries", query \in {"ip!", "auth!"}
    PROVE  /\ sess = "none" /\ ~closed /\ ~closing /\ IsOpen /\ Empty
           /\ sent \in Seq(Answers) /\ "err" \notin ToSet(sent)
           /\ rcvd \in Seq(Answers) /\ "ok" \notin ToSet(rcvd)
<1>1. sess = "none" /\ ~closed /\ ~closing
  BY DEF SocketInv, Session
<1>2. Empty /\ rcvd \in Seq(Answers) /\ "ok" \notin ToSet(rcvd)
  BY <1>1 DEF SocketInv, Handshake
<1>3. sent \in Seq(Answers) /\ "err" \notin ToSet(sent)
  BY <1>1 DEF SocketInv, Types, Refused
<1> QED BY <1>1, <1>2, <1>3 DEF IsOpen

\* A client is refused: the response is queued before the mark is set.
LEMMA RefuseStep ==
    ASSUME SocketInv, Refuse
    PROVE  SocketInv'
<1>1. /\ npc = "queries" /\ query \in {"ip!", "auth!"} /\ query' = "none"
      /\ SendPacket("err") /\ closing' = TRUE /\ npc' = "idle"
      /\ UNCHANGED <<clientVars, wireVars, readVars, writeVars, closed, lock, sessionVars,
                     worldVars>>
  BY DEF Refuse
<1>2. /\ sess = "none" /\ ~closed /\ ~closing /\ IsOpen /\ Empty
      /\ sent \in Seq(Answers)
      /\ rcvd \in Seq(Answers) /\ "ok" \notin ToSet(rcvd)
  BY <1>1, AtQuery
<1>3. bufferQueue' = Append(bufferQueue, "err") /\ sent' = Append(sent, "err")
  BY <1>1, <1>2 DEF SendPacket
<1>4. Queued("err")'
  BY <1>1, <1>2, <1>3, OneSet DEF Queued, Empty, writeVars
<1>5. sent' \in Seq(Answers)
  BY <1>2, <1>3, AppendSet DEF Answers
<1>6. Types' /\ Session'
  BY <1>1, <1>2, <1>5 DEF SocketInv, Types, Session, clientVars, readVars, sessionVars,
                          worldVars
<1>7. Reading'
  BY <1>1 DEF SocketInv, Reading, clientVars, readVars, sessionVars, worldVars
<1>8. rcvd' = rcvd /\ closed' = closed
  BY <1>1 DEF wireVars
<1>9. Handshake'
  BY <1>1, <1>2, <1>4, <1>8 DEF Handshake
<1>10. Refused'
  BY <1>1, <1>2, <1>4, <1>8 DEF Refused
<1> QED BY <1>6, <1>7, <1>9, <1>10 DEF SocketInv

\* The challenge is sent.
LEMMA CheckIpStep ==
    ASSUME SocketInv, CheckIp
    PROVE  SocketInv'
<1>1. /\ npc = "queries" /\ query = "ip!" /\ query' = "none"
      /\ SendPacket("chal") /\ npc' = "idle"
      /\ UNCHANGED <<clientVars, wireVars, readBuffer, writeVars, stateVars, lock,
                     sessionVars, worldVars>>
  BY DEF CheckIp
<1>2. /\ sess = "none" /\ ~closed /\ ~closing /\ IsOpen /\ Empty
      /\ sent \in Seq(Answers) /\ "err" \notin ToSet(sent)
      /\ rcvd \in Seq(Answers) /\ "ok" \notin ToSet(rcvd)
  BY <1>1, AtQuery
<1>3. rcvd = <<>> /\ out = <<>>
  BY <1>1, <1>2 DEF SocketInv, Handshake
<1>4. bufferQueue' = Append(bufferQueue, "chal") /\ sent' = Append(sent, "chal")
  BY <1>1, <1>2 DEF SendPacket
<1>5. Queued("chal")'
  BY <1>1, <1>2, <1>4, OneSet DEF Queued, Empty, writeVars
<1>6. sent' \in Seq(Answers) /\ "err" \notin ToSet(sent')
  <2>1. "chal" \in Answers
    BY DEF Answers
  <2>2. Append(sent, "chal") \in Seq(Answers) /\ ToSet(Append(sent, "chal")) = ToSet(sent) \cup {"chal"}
    BY <1>2, <2>1, AppendSet
  <2> QED BY <1>2, <1>4, <2>2
<1>7. Types' /\ Session'
  BY <1>1, <1>2, <1>6 DEF SocketInv, Types, Session, clientVars, stateVars, sessionVars,
                          worldVars
<1>8. Reading'
  BY <1>1 DEF SocketInv, Reading, clientVars, stateVars, sessionVars, worldVars
<1>9. rcvd' = rcvd /\ out' = out
  BY <1>1 DEF wireVars, clientVars
<1>10. Handshake'
  BY <1>1, <1>2, <1>3, <1>5, <1>9 DEF Handshake
<1>11. Refused'
  BY <1>6 DEF Refused
<1> QED BY <1>7, <1>8, <1>10, <1>11 DEF SocketInv

\* The client sends: the packets after the login prove that it was let in.
LEMMA ClientSendStep ==
    ASSUME SocketInv, NEW x \in Inputs \cup {"auth"}, ClientSend(x)
    PROVE  SocketInv'
<1> DEFINE p == IF x = "auth" THEN <<x, 0>> ELSE <<x, Len(out)>>
<1>1. /\ ~gone
      /\ IF x = "auth" THEN "chal" \in ToSet(rcvd) /\ out = <<>>
                       ELSE "ok" \in ToSet(rcvd)
      /\ out' = Append(out, p) /\ wire' = Append(wire, p)
      /\ UNCHANGED <<gone, wireVars, npc, query, readVars, writeVars, bufferQueue, sent,
                     stateVars, lock, sessionVars, worldVars>>
  BY DEF ClientSend
<1>2. out \in Seq(Input) /\ wire \in Seq(Input) /\ Len(out) \in Nat
  BY DEF SocketInv, Types
<1>3. p \in Input /\ (p[1] # "auth" => x # "auth")
  BY <1>2 DEF Input, Inputs
<1>4. x # "auth" => sess # "none"
  BY <1>1 DEF SocketInv, Handshake
<1> HIDE DEF p
<1>5. /\ out' \in Seq(Input) /\ out' # <<>>
      /\ wire' \in Seq(Input) /\ ToSet(wire') = ToSet(wire) \cup {p}
  BY <1>1, <1>2, <1>3, AppendSet
<1>6. Types' /\ Session'
  BY <1>1, <1>5 DEF SocketInv, Types, Session, readVars, stateVars, sessionVars, worldVars
<1>7. Reading'
  BY <1>1, <1>3, <1>4, <1>5
     DEF SocketInv, Reading, NextPacket, readVars, stateVars, sessionVars, worldVars
<1>8. /\ rcvd' = rcvd /\ closed' = closed /\ closing' = closing /\ sess' = sess
      /\ gone' = gone /\ query' = query /\ sent' = sent
      /\ bufferQueue' = bufferQueue /\ writeQueue' = writeQueue
  BY <1>1 DEF wireVars, writeVars, stateVars, worldVars
<1>9. /\ Empty' <=> Empty
      /\ \A y \in {"chal", "err"} : (Queued(y)' <=> Queued(y)) /\ (Written(y)' <=> Written(y))
      /\ Queued("err")' <=> Queued("err")
      /\ Written("err")' <=> Written("err")
  BY <1>8 DEF Empty, Queued, Written
<1>10. sess = "none" => rcvd # <<>>
  <2>1. ToSet(<<>>) = {}
    BY DEF ToSet
  <2> QED BY <1>1, <1>4, <2>1
<1>11. Handshake'
  BY <1>8, <1>9, <1>10 DEF SocketInv, Handshake
<1>12. Refused'
  BY <1>8, <1>9 DEF SocketInv, Refused
<1> QED BY <1>6, <1>7, <1>11, <1>12 DEF SocketInv

-----------------------------------------------------------------------------
(***************************************************************************)
(* The invariant is inductive: writing                                      *)
(***************************************************************************)

\* Without a packet there is no buffer.
LEMMA PackNone ==
    ASSUME NEW d, NEW e \in Ends(0)
    PROVE  Pack(d, e) = <<>>
<1>1. PICK m \in 0..0 : e \in [1..m -> 1..0]
  BY DEF Ends
<1>2. Len(e) = 0
  <2>1. e \in [1..0 -> 1..0]
    BY <1>1
  <2>2. e \in Seq(1..0)
    BY <2>1
  <2>3. DOMAIN e = 1..Len(e) /\ Len(e) \in Nat /\ DOMAIN e = 1..0
    BY <2>1, <2>2
  <2> QED BY <2>3
<1>3. Pack(d, e) = [i \in 1..0 |-> SubSeq(d, IF i = 1 THEN 1 ELSE e[i - 1] + 1, e[i])]
  BY <1>2 DEF Pack
<1> QED BY <1>3

\* One packet is one buffer.
LEMMA PackOne ==
    ASSUME NEW x, NEW e \in Ends(1)
    PROVE  Pack(<<x>>, e) = <<<<x>>>>
<1>1. PICK m \in 0..1 : e \in [1..m -> 1..1]
  BY DEF Ends
<1>2. e # <<>>
  BY DEF Ends
<1>3. Len(e) = m /\ m = 1
  <2>1. e \in Seq(1..1)
    BY <1>1
  <2>2. DOMAIN e = 1..Len(e) /\ Len(e) \in Nat /\ DOMAIN e = 1..m
    BY <1>1, <2>1
  <2>3. Len(e) = m
    <3>1. m \in {0, 1} /\ 1..0 = {} /\ 1..1 = {1}
      OBVIOUS
    <3>2. Len(e) >= 1 => 1 \in 1..Len(e)
      BY <2>2
    <3>3. CASE m = 0
      BY <2>2, <3>1, <3>2, <3>3
    <3>4. CASE m = 1
      <4>1. DOMAIN e = {1}
        <5>1. DOMAIN e = 1..1
          BY <2>2, <3>4
        <5> QED BY <3>1, <5>1
      <4>2. 1..Len(e) = {1}
        BY <2>2, <4>1
      <4>3. 1 \in 1..Len(e) /\ 2 \notin 1..Len(e)
        BY <4>2
      <4>4. Len(e) \in Nat
        BY <2>2
      <4> DEFINE l == Len(e)
      <4>5. l \in Nat /\ 1 \in 1..l /\ 2 \notin 1..l
        BY <4>3, <4>4
      <4> HIDE DEF l
      <4>6. l = 1
        BY <4>5
      <4> QED BY <3>4, <4>6 DEF l
    <3> QED BY <3>1, <3>3, <3>4
  <2>4. m # 0
    BY <1>2, <2>1, <2>3, EmptySeq
  <2> QED BY <2>3, <2>4
<1>4. e[1] = 1
  BY <1>1, <1>3
<1>5. Pack(<<x>>, e) = [i \in 1..1 |-> SubSeq(<<x>>, IF i = 1 THEN 1 ELSE e[i - 1] + 1, e[i])]
  BY <1>3 DEF Pack
<1>6. Pack(<<x>>, e) = [i \in 1..1 |-> <<x>>]
  <2>1. ASSUME NEW i \in 1..1
        PROVE  SubSeq(<<x>>, IF i = 1 THEN 1 ELSE e[i - 1] + 1, e[i]) = <<x>>
    <3>1. i = 1
      OBVIOUS
    <3>2. SubSeq(<<x>>, IF i = 1 THEN 1 ELSE e[i - 1] + 1, e[i]) = SubSeq(<<x>>, 1, 1)
      BY <1>4, <3>1
    <3>3. SubSeq(<<x>>, 1, 1) = <<x>>
      BY OneSet
    <3> QED BY <3>2, <3>3
  <2> QED BY <1>5, <2>1
<1>7. <<<<x>>>> = [i \in 1..1 |-> <<x>>]
  OBVIOUS
<1> QED BY <1>6, <1>7

\* Update takes what it finds into the write queue.
LEMMA NetUpdateStep ==
    ASSUME SocketInv, NetUpdate
    PROVE  SocketInv'
<1>1. /\ npc = "idle" /\ ~closed /\ npc' \in {"queries", "flush"}
      /\ UNCHANGED <<clientVars, wireVars, query, readVars, writing, sent,
                     stateVars, lock, sessionVars, worldVars>>
  BY DEF NetUpdate
<1>a. PICK n \in 0..Len(bufferQueue) : \E e \in Ends(n) :
          /\ writeQueue' = writeQueue \o Pack(SubSeq(bufferQueue, 1, n), e)
          /\ bufferQueue' = SubSeq(bufferQueue, n + 1, Len(bufferQueue))
  BY DEF NetUpdate
<1>2. PICK e \in Ends(n) :
          /\ writeQueue' = writeQueue \o Pack(SubSeq(bufferQueue, 1, n), e)
          /\ bufferQueue' = SubSeq(bufferQueue, n + 1, Len(bufferQueue))
  BY <1>a
<1>3. Types' /\ Session'
  BY <1>1 DEF SocketInv, Types, Session, clientVars, readVars, stateVars, sessionVars, worldVars
<1>4. Reading'
  BY <1>1 DEF SocketInv, Reading, clientVars, readVars, stateVars, sessionVars, worldVars
<1>5. /\ rcvd' = rcvd /\ closed' = closed /\ closing' = closing /\ sess' = sess
      /\ gone' = gone /\ query' = query /\ sent' = sent /\ out' = out
  BY <1>1 DEF clientVars, wireVars, stateVars, worldVars
<1>6. Empty => Empty'
  <2> SUFFICES ASSUME Empty PROVE Empty'
    OBVIOUS
  <2>1. bufferQueue = <<>> /\ writeQueue = <<>> /\ n = 0
    BY DEF Empty
  <2>2. Pack(SubSeq(bufferQueue, 1, n), e) = <<>>
    BY <2>1, PackNone
  <2>3. writeQueue' = <<>>
    BY <1>2, <2>1, <2>2
  <2>4. bufferQueue' = <<>>
    BY <1>2, <2>1
  <2> QED BY <2>3, <2>4 DEF Empty
<1>7. ASSUME NEW x, Written(x) PROVE Written(x)'
  <2>1. bufferQueue = <<>> /\ writeQueue = <<<<x>>>> /\ n = 0
    BY <1>7 DEF Written
  <2>2. Pack(SubSeq(bufferQueue, 1, n), e) = <<>>
    BY <2>1, PackNone
  <2>3. writeQueue' = <<<<x>>>>
    BY <1>2, <2>1, <2>2, OneSet
  <2>4. bufferQueue' = <<>>
    BY <1>2, <2>1
  <2> QED BY <2>3, <2>4 DEF Written
<1>8. ASSUME NEW x, Queued(x) PROVE Queued(x)' \/ Written(x)'
  <2>1. bufferQueue = <<x>> /\ writeQueue = <<>> /\ Len(bufferQueue) = 1
    BY <1>8 DEF Queued
  <2>2. CASE n = 0
    <3>1. Pack(SubSeq(bufferQueue, 1, n), e) = <<>>
      BY <2>2, PackNone
    <3>2. writeQueue' = <<>>
      BY <1>2, <2>1, <3>1
    <3>3. bufferQueue' = SubSeq(<<x>>, 1, 1)
      BY <1>2, <2>1, <2>2
    <3> QED BY <3>2, <3>3, OneSet DEF Queued
  <2>3. CASE n = 1
    <3>1. SubSeq(bufferQueue, 1, n) = <<x>>
      BY <2>1, <2>3, OneSet
    <3>2. Pack(SubSeq(bufferQueue, 1, n), e) = <<<<x>>>>
      BY <2>3, <3>1, PackOne
    <3>3. writeQueue' = <<<<x>>>>
      BY <1>2, <2>1, <3>2, OneSet
    <3>4. bufferQueue' = SubSeq(<<x>>, 2, 1)
      BY <1>2, <2>1, <2>3
    <3> QED BY <3>3, <3>4, OneSet DEF Written
  <2>4. n \in 0..1
    BY <2>1
  <2> QED BY <2>2, <2>3, <2>4
<1>9. Handshake'
  <2> SUFFICES ASSUME sess = "none" PROVE Handshake'
    BY <1>5 DEF Handshake
  <2>1. /\ Empty \/ \E x \in {"chal", "err"} : Queued(x) \/ Written(x)
        /\ query # "none" => Empty
        /\ query \in {"ip", "ip!"} => rcvd = <<>> /\ out = <<>>
        /\ ~closing /\ (out # <<>> \/ rcvd # <<>>) => Empty
        /\ rcvd \in Seq(Answers) /\ "ok" \notin ToSet(rcvd)
    BY DEF SocketInv, Handshake
  <2>2. Empty' \/ \E x \in {"chal", "err"} : Queued(x)' \/ Written(x)'
    BY <1>6, <1>7, <1>8, <2>1
  <2> QED BY <1>5, <1>6, <2>1, <2>2 DEF Handshake
<1>10. Refused'
  <2>1. Queued("err") \/ Written("err") => Queued("err")' \/ Written("err")'
    BY <1>7, <1>8
  <2> QED BY <1>5, <2>1 DEF SocketInv, Refused
<1> QED BY <1>3, <1>4, <1>9, <1>10 DEF SocketInv

\* Before there is a session HandleQueue finds at most one buffer, the first
\* packet.
LEMMA OneBuffer ==
    ASSUME SocketInv, sess = "none", writeQueue # <<>>
    PROVE  /\ \E x \in {"chal", "err"} : Written(x)
           /\ query = "none"
           /\ closing \/ (out = <<>> /\ rcvd = <<>>)
           /\ rcvd \in Seq(Answers) /\ "ok" \notin ToSet(rcvd)
           /\ "err" \in ToSet(sent) /\ ~gone => "err" \in ToSet(rcvd) \/ Written("err")
<1>1. ~Empty /\ \A x \in {"chal", "err"} : ~Queued(x)
  BY DEF Empty, Queued
<1>2. ~Queued("err")
  BY <1>1
<1>3. Handshake /\ Refused
  BY DEF SocketInv
<1> QED BY <1>1, <1>2, <1>3 DEF Handshake, Refused

\* The state after Pop but for the queues and what the client received.
LEMMA PopStep ==
    ASSUME SocketInv, npc \in {"flush", "write"}, NEW r \in BOOLEAN, Pop(r),
           UNCHANGED <<clientVars, query, readVars, sent, closing, lock, sessionVars,
                       worldVars>>
    PROVE  Types' /\ Session' /\ Reading' /\ (closed => closed')
<1>1. \/ NetClose
      \/ npc' \in {"idle", "flush", "queries"} /\ (npc' # "idle" => npc = "flush") /\ closed' = closed
  BY DEF Pop, AfterHandleQueue
<1>2. /\ Session' /\ closed' \in BOOLEAN /\ (closed => closed')
      /\ npc' \notin {"read", "dump", "packet", "session", "nosession"}
  <2>1. CASE NetClose
    BY <2>1, CloseStep
  <2>2. CASE npc' \in {"idle", "flush", "queries"} /\ (npc' # "idle" => npc = "flush") /\ closed' = closed
    <3>1. Session /\ closed \in BOOLEAN
      BY DEF SocketInv, Types
    <3>2. Session'
      BY <2>2, <3>1 DEF Session, sessionVars, worldVars
    <3> QED BY <2>2, <3>1, <3>2
  <2> QED BY <1>1, <2>1, <2>2
<1>3. Types'
  BY <1>2 DEF SocketInv, Types, clientVars, readVars, sessionVars
<1>4. Reading'
  BY <1>2 DEF SocketInv, Reading, clientVars, readVars, sessionVars, worldVars
<1> QED BY <1>2, <1>3, <1>4

\* The buffer is written: if it held a refusal, the client has it before the
\* socket is closed.
LEMMA WriteAllStep ==
    ASSUME SocketInv, WriteAll
    PROVE  SocketInv'
<1>1. /\ npc \in {"flush", "write"} /\ writeQueue # <<>>
      /\ rcvd' = rcvd \o Head(writeQueue) /\ Pop(TRUE)
      /\ UNCHANGED <<clientVars, query, readVars, bufferQueue, sent, closing, lock,
                     sessionVars, worldVars>>
  BY DEF WriteAll
<1>2. Types' /\ Session' /\ Reading'
  <2>1. PICK r \in BOOLEAN : r = TRUE
    OBVIOUS
  <2>2. Pop(r)
    BY <1>1, <2>1
  <2> HIDE <2>1
  <2> QED BY <1>1, <2>2, PopStep
<1>3. /\ writeQueue' = Tail(writeQueue) /\ bufferQueue' = bufferQueue /\ sess' = sess
      /\ sent' = sent /\ closing' = closing /\ out' = out /\ query' = query /\ gone' = gone
  BY <1>1 DEF Pop, clientVars, worldVars
<1>4. CASE sess # "none"
  <2>1. Handshake' /\ "err" \notin ToSet(sent)
    BY <1>3, <1>4 DEF SocketInv, Session, Handshake, Refused
  <2> QED BY <1>2, <1>3, <2>1 DEF SocketInv, Refused
<1>5. CASE sess = "none"
  <2>1. PICK x \in {"chal", "err"} : Written(x)
    BY <1>1, <1>5, OneBuffer
  <2>2. /\ query = "none" /\ rcvd \in Seq(Answers) /\ "ok" \notin ToSet(rcvd)
        /\ "err" \in ToSet(sent) /\ ~gone => "err" \in ToSet(rcvd) \/ Written("err")
    BY <1>1, <1>5, OneBuffer
  <2>3. Head(writeQueue) = <<x>> /\ Tail(writeQueue) = <<>> /\ bufferQueue = <<>>
    BY <2>1, OneSet DEF Written
  <2>4. Empty'
    BY <1>3, <2>3 DEF Empty
  <2>5. <<x>> \in Seq(Answers)
    BY DEF Answers
  <2>6. rcvd' \in Seq(Answers) /\ ToSet(rcvd') = ToSet(rcvd) \cup {x}
    <3>1. rcvd' = rcvd \o <<x>>
      BY <1>1, <2>3
    <3>2. /\ rcvd \o <<x>> \in Seq(Answers)
          /\ ToSet(rcvd \o <<x>>) = ToSet(rcvd) \cup ToSet(<<x>>)
      <4>1. PICK s : s = <<x>>
        OBVIOUS
      <4>2. rcvd \in Seq(Answers) /\ s \in Seq(Answers)
        BY <2>2, <2>5, <4>1
      <4>3. /\ rcvd \o s \in Seq(Answers)
            /\ ToSet(rcvd \o s) = ToSet(rcvd) \cup ToSet(s)
        BY ONLY <4>2, ConcatSet, SMTT(30)
      <4> QED BY <4>1, <4>3
    <3> QED BY <3>1, <3>2, OneSet
  <2>7. Handshake'
    BY <1>3, <2>2, <2>4, <2>6 DEF Handshake
  <2>8. Written("err") => x = "err"
    BY <2>1 DEF Written
  <2>9. "err" \in ToSet(sent) => closing
    BY DEF SocketInv, Refused
  <2>10. Refused'
    BY <1>3, <2>2, <2>6, <2>8, <2>9 DEF Refused
  <2> QED BY <1>2, <2>7, <2>10 DEF SocketInv
<1> QED BY <1>4, <1>5

\* A write fails and the buffer is dropped.
LEMMA WriteFailsStep ==
    ASSUME SocketInv, WriteFails
    PROVE  SocketInv'
<1>1. /\ npc \in {"flush", "write"} /\ writeQueue # <<>> /\ (gone \/ closed)
      /\ UNCHANGED <<clientVars, wireVars, query, readVars, bufferQueue, sent, closing, lock,
                     sessionVars, worldVars>>
  BY DEF WriteFails
<1>2. PICK r \in BOOLEAN : Pop(r)
  BY DEF WriteFails
<1>3. Types' /\ Session' /\ Reading'
  BY <1>1, <1>2, PopStep
<1>4. /\ writeQueue' = Tail(writeQueue) /\ bufferQueue' = bufferQueue /\ sess' = sess
      /\ sent' = sent /\ closing' = closing /\ out' = out /\ query' = query /\ gone' = gone
      /\ rcvd' = rcvd
  BY <1>1, <1>2 DEF Pop, clientVars, wireVars, worldVars
<1>5. Refused'
  BY <1>1, <1>4 DEF SocketInv, Refused
<1>6. Handshake'
  <2>1. CASE sess # "none"
    BY <1>4, <2>1 DEF Handshake
  <2>2. CASE sess = "none"
    <3>1. PICK x \in {"chal", "err"} : Written(x)
      BY <1>1, <2>2, OneBuffer
    <3>2. query = "none" /\ rcvd \in Seq(Answers) /\ "ok" \notin ToSet(rcvd)
      BY <1>1, <2>2, OneBuffer
    <3>3. Tail(writeQueue) = <<>> /\ bufferQueue = <<>>
      BY <3>1, OneSet DEF Written
    <3>4. Empty'
      BY <1>4, <3>3 DEF Empty
    <3> QED BY <1>4, <3>2, <3>4 DEF Handshake
  <2> QED BY <2>1, <2>2
<1> QED BY <1>3, <1>5, <1>6 DEF SocketInv

\* A part of the buffer is written; a buffer with one packet stays as it is.
LEMMA WriteSomeStep ==
    ASSUME SocketInv, WriteSome
    PROVE  SocketInv'
<1>1. /\ npc \in {"flush", "write"} /\ writeQueue # <<>>
      /\ npc' \in {"idle", "queries"} /\ (npc' # "idle" => npc = "flush")
      /\ UNCHANGED <<clientVars, query, readVars, bufferQueue, sent, stateVars, lock,
                     sessionVars, worldVars>>
  BY DEF WriteSome, AfterHandleQueue
<1>2. Types' /\ Session'
  BY <1>1 DEF SocketInv, Types, Session, clientVars, readVars, stateVars, sessionVars, worldVars
<1>3. Reading'
  BY <1>1 DEF SocketInv, Reading, clientVars, readVars, stateVars, sessionVars, worldVars
<1>4. /\ bufferQueue' = bufferQueue /\ sess' = sess /\ closed' = closed
      /\ sent' = sent /\ closing' = closing /\ out' = out /\ query' = query /\ gone' = gone
  BY <1>1 DEF clientVars, stateVars, worldVars
<1>5. CASE sess # "none"
  <2>1. Handshake' /\ "err" \notin ToSet(sent)
    BY <1>4, <1>5 DEF SocketInv, Session, Handshake, Refused
  <2> QED BY <1>2, <1>3, <1>4, <2>1 DEF SocketInv, Refused
<1>6. CASE sess = "none"
  <2>1. PICK x \in {"chal", "err"} : Written(x)
    BY <1>1, <1>6, OneBuffer
  <2>2. rcvd \in Seq(Answers)
    BY <1>1, <1>6, OneBuffer
  <2>3. writeQueue = <<<<x>>>> /\ Head(writeQueue) = <<x>> /\ Tail(writeQueue) = <<>>
    BY <2>1, OneSet DEF Written
  <2>4. PICK k \in 0..Len(Head(writeQueue)) - 1 :
            /\ rcvd' = rcvd \o SubSeq(Head(writeQueue), 1, k)
            /\ writeQueue' = <<SubSeq(Head(writeQueue), k + 1, Len(Head(writeQueue)))>>
                                \o Tail(writeQueue)
    BY DEF WriteSome
  <2>5. Len(<<x>>) = 1
    OBVIOUS
  <2>6. k = 0
    BY <2>3, <2>5
  <2>7. rcvd' = rcvd
    <3>1. rcvd' = rcvd \o <<>>
      BY <2>3, <2>4, <2>6, OneSet
    <3> QED BY <2>2, <3>1, ConcatEmptySeq
  <2>8. writeQueue' = writeQueue
    <3>1. writeQueue' = <<<<x>>>> \o <<>>
      BY <2>3, <2>4, <2>5, <2>6, OneSet
    <3> QED BY <2>3, <3>1, OneSet
  <2>9. UNCHANGED <<delivery, closing>>
    BY <1>4, <2>7, <2>8 DEF delivery
  <2>10. Handshake' /\ Refused'
    BY <1>4, <2>9, QuietStep
  <2> QED BY <1>2, <1>3, <2>10 DEF SocketInv
<1> QED BY <1>5, <1>6

-----------------------------------------------------------------------------
(***************************************************************************)
(* The theorems                                                             *)
(***************************************************************************)

\* Every step keeps the invariant.
LEMMA SocketStep == SocketInv /\ [Next]_vars => SocketInv'
<1> SUFFICES ASSUME SocketInv, [Next]_vars
             PROVE  SocketInv'
  OBVIOUS
<1>1. ASSUME NEW x \in Inputs \cup {"auth"}, ClientSend(x) PROVE SocketInv'
  BY <1>1, ClientSendStep
<1>2. CASE ClientLeave \/ ClientReads \/ Done \/ UNCHANGED vars
  BY <1>2, ClientSteps DEF Done
<1>3. CASE QueryAnswered
  BY <1>3, QueryAnsweredStep
<1>4. CASE \/ NoQueryReady \/ AsyncRead \/ ReadDone \/ LogPacket \/ DumpPacket
           \/ WriteHandler \/ NetRemove \/ HandleEmptyQueue
  BY <1>4, PlainSteps
<1>5. CASE WriteAll \/ WriteSome \/ WriteFails \/ NetUpdate
  BY <1>5, WriteAllStep, WriteSomeStep, WriteFailsStep, NetUpdateStep
<1>6. CASE NetOnClose \/ Refuse \/ CheckIp \/ Accept
  BY <1>6, NetOnCloseStep, RefuseStep, CheckIpStep, AcceptStep
<1>7. CASE ReadHandler \/ ReadError \/ HandleAuthSession \/ LockSession
  BY <1>7, ReadHandlerStep, ReadErrorStep, HandleAuthSessionStep, LockSessionStep
<1>8. CASE UseSession \/ OverSpeedPing \/ NoSession
  BY <1>8, UseSessionStep, OverSpeedPingStep, NoSessionStep
<1>9. CASE World
  BY <1>9, WorldSendStep, WorldKickStep, WorldDropStep, WorldDeleteStep, WorldOnCloseStep
     DEF World
<1> QED
  BY <1>1, <1>2, <1>3, <1>4, <1>5, <1>6, <1>7, <1>8, <1>9
     DEF Next, Handle, HandleQueue, Timer, Reads

\* In every reachable state.
LEMMA SocketAlways == Spec => []SocketInv
<1>1. Init => SocketInv
  BY SocketInit
<1>2. SocketInv /\ [Next]_vars => SocketInv'
  BY SocketStep
<1> QED BY <1>1, <1>2, PTL DEF Spec

\* The raw pointer ReadDataHandler uses under _worldSessionLock points to a
\* session that lives, whatever the world thread does meanwhile.
THEOREM SessionUsedAlive == Spec => []SessionAlive
<1>1. SocketInv => SessionAlive
  BY DEF SocketInv, Session, Reading, SessionAlive
<1> QED BY <1>1, SocketAlways, PTL

\* CloseSocket, called by ReadDataHandler with _worldSessionLock held, never
\* goes on to OnClose, which would lock it again.
THEOREM LockNotRepeated == Spec => []NoRelock
<1>1. SocketInv => NoRelock
  BY DEF SocketInv, Reading, NoRelock
<1> QED BY <1>1, SocketAlways, PTL

\* DelayedCloseSocket: a client that stays has the refusal before the socket is
\* closed, whatever part of it the connection takes at a time.
THEOREM RefusalsDelivered == Spec => []RefusalDelivered
<1>1. SocketInv => RefusalDelivered
  BY DEF SocketInv, Types, Refused, RefusalDelivered
<1> QED BY <1>1, SocketAlways, PTL

-----------------------------------------------------------------------------
(***************************************************************************)
(* The two streams: what Pack and Data compute                              *)
(***************************************************************************)

\* Where the buffers of Update end.
LEMMA EndsAre ==
    ASSUME NEW n \in Nat, NEW e \in Ends(n)
    PROVE  /\ Len(e) \in Nat
           /\ \A i \in 1..Len(e) : e[i] \in 1..n
           /\ \A i \in 2..Len(e) : e[i - 1] < e[i]
           /\ n = 0 => Len(e) = 0
           /\ n > 0 => Len(e) > 0 /\ e[Len(e)] = n
<1>1. PICK m \in 0..n : e \in [1..m -> 1..n]
  BY DEF Ends
<1>2. e \in Seq(1..n) /\ Len(e) = m
  BY <1>1, FunctionIsSeq
<1>3. n > 0 => e # <<>> /\ e[Len(e)] = n
  BY DEF Ends
<1>4. \A i \in 2..Len(e) : e[i - 1] < e[i]
  BY DEF Ends
<1>5. e # <<>> => Len(e) > 0
  BY <1>2, EmptySeq
<1> QED BY <1>1, <1>2, <1>3, <1>4, <1>5

\* The buffers of Update hold what it took from _bufferQueue, in order, and none
\* is empty.
LEMMA PackFlat ==
    ASSUME NEW S, NEW d \in Seq(S), NEW e \in Ends(Len(d))
    PROVE  /\ Pack(d, e) \in Seq(Seq(S) \ {<<>>})
           /\ FlattenSeq(Pack(d, e)) = d
<1> DEFINE P == Pack(d, e)
           n == Len(d)
           l == Len(e)
           End(i) == IF i = 0 THEN 0 ELSE e[i]
<1>1. /\ n \in Nat /\ l \in Nat
      /\ \A i \in 1..l : e[i] \in 1..n
      /\ \A i \in 2..l : e[i - 1] < e[i]
      /\ n = 0 => l = 0
      /\ n > 0 => l > 0 /\ e[l] = n
  BY EndsAre, LenProperties
<1>2. P = [i \in 1..l |-> SubSeq(d, IF i = 1 THEN 1 ELSE e[i - 1] + 1, e[i])]
  BY DEF Pack
<1>3. \A i \in 1..n : d[i] \in S
  BY ElementOfSeq
<1>a. n = Len(d)
  OBVIOUS
<1> HIDE DEF P, n, l
<1>4. ASSUME NEW i \in 1..l
      PROVE  /\ P[i] = SubSeq(d, End(i - 1) + 1, e[i])
             /\ End(i - 1) \in 0..n /\ e[i] \in 1..n /\ End(i - 1) < e[i]
  <2>1. P[i] = SubSeq(d, IF i = 1 THEN 1 ELSE e[i - 1] + 1, e[i])
    BY <1>2
  <2>2. CASE i = 1
    BY <1>1, <2>1, <2>2
  <2>3. CASE i # 1
    <3>1. i \in 2..l /\ i - 1 \in 1..l /\ i - 1 # 0
      BY <1>1, <2>3
    <3>2. e[i - 1] \in 1..n /\ e[i] \in 1..n /\ e[i - 1] < e[i]
      BY <1>1, <3>1
    <3>3. End(i - 1) = e[i - 1]
      BY <3>1
    <3>4. P[i] = SubSeq(d, e[i - 1] + 1, e[i])
      BY <2>1, <2>3
    <3> HIDE DEF End
    <3>5. End(i - 1) \in 0..n /\ End(i - 1) < e[i]
      BY <1>1, <3>2, <3>3
    <3> QED BY <3>2, <3>3, <3>4, <3>5
  <2> QED BY <2>2, <2>3
<1> HIDE DEF End
<1>5. ASSUME NEW i \in 1..l
      PROVE  P[i] \in Seq(S) \ {<<>>}
  <2>1. PICK a, c : a = End(i - 1) + 1 /\ c = e[i]
    OBVIOUS
  <2>2. a \in Int /\ c \in Int /\ a >= 1 /\ c <= n /\ a <= c /\ P[i] = SubSeq(d, a, c)
    <3>1. /\ P[i] = SubSeq(d, End(i - 1) + 1, e[i])
          /\ End(i - 1) \in 0..n /\ e[i] \in 1..n /\ End(i - 1) < e[i]
      BY <1>4
    <3>2. PICK x : x = End(i - 1)
      OBVIOUS
    <3>3. x \in 0..n /\ c \in 1..n /\ x < c /\ a = x + 1
      BY <2>1, <3>1, <3>2
    <3> QED BY <1>1, <2>1, <3>1, <3>3
  <2>3. \A j \in a..c : d[j] \in S
    BY <1>1, <1>3, <2>2
  <2>4. SubSeq(d, a, c) \in Seq(S) /\ Len(SubSeq(d, a, c)) = c - a + 1
    BY <2>2, <2>3, SubSeqProperties
  <2>5. Len(SubSeq(d, a, c)) # 0
    BY <2>2, <2>4
  <2> QED BY <2>2, <2>4, <2>5, EmptySeq
<1>6. P \in [1..l -> Seq(S) \ {<<>>}]
  BY <1>2, <1>5
<1>7. P \in Seq(Seq(S) \ {<<>>}) /\ Len(P) = l
  BY <1>1, <1>6, FunctionIsSeq
<1>8. P \in Seq(Seq(S))
  BY <1>7, SeqMonotonic
<1> DEFINE Bad == {k \in 0..l : FlattenSeq(SubSeq(P, 1, k)) # SubSeq(d, 1, End(k))}
<1>9. Bad = {}
  <2>1. SUFFICES ASSUME Bad # {} PROVE FALSE
    OBVIOUS
  <2>2. PICK k \in Bad : \A j \in Bad : k <= j
    <3>1. Bad \in SUBSET Nat
      BY <1>1
    <3> QED BY <2>1, <3>1, LeastNat
  <2>3. CASE k = 0
    <3>1. SubSeq(P, 1, 0) = <<>> /\ SubSeq(d, 1, 0) = <<>>
      BY SubSeqEmpty
    <3>2. End(0) = 0
      BY DEF End
    <3> QED BY <2>3, <3>1, <3>2, FlattenEmpty
  <2>4. CASE k # 0
    <3>1. k \in 1..l /\ k - 1 \in 0..l
      BY <1>1, <2>4
    <3>2. FlattenSeq(SubSeq(P, 1, k - 1)) = SubSeq(d, 1, End(k - 1))
      <4>1. k - 1 \notin Bad
        BY <2>2, <3>1
      <4> QED BY <3>1, <4>1
    <3>3. SubSeq(P, 1, k) = Append(SubSeq(P, 1, k - 1), P[k])
      BY <1>7, <1>8, <3>1, PrefixAppend
    <3>4. SubSeq(P, 1, k - 1) \in Seq(Seq(S)) /\ P[k] \in Seq(S)
      BY <1>5, <1>7, <1>8, <3>1, PrefixAppend
    <3>5. FlattenSeq(SubSeq(P, 1, k)) = SubSeq(d, 1, End(k - 1)) \o P[k]
      BY <3>2, <3>3, <3>4, FlattenAppend
    <3>6. PICK a, c : a = End(k - 1) /\ c = e[k]
      OBVIOUS
    <3>7. a \in 0..n /\ c \in a..n /\ P[k] = SubSeq(d, a + 1, c) /\ End(k) = c
      BY <1>1, <1>4, <2>4, <3>1, <3>6 DEF End
    <3>8. SubSeq(d, 1, a) \o SubSeq(d, a + 1, c) = SubSeq(d, 1, c)
      <4>1. 1 \in 1..n + 1 /\ a \in (1 - 1)..n
        BY <1>1, <3>7
      <4> QED BY <1>a, <3>7, <4>1, ConcatAdjacentSubSeq
    <3> QED BY <3>5, <3>6, <3>7, <3>8
  <2> QED BY <2>3, <2>4
<1>10. FlattenSeq(SubSeq(P, 1, l)) = SubSeq(d, 1, End(l))
  BY <1>1, <1>9
<1>11. End(l) = n
  BY <1>1 DEF End
<1>12. SubSeq(P, 1, l) = P /\ SubSeq(d, 1, n) = d
  BY <1>7, <1>8, <1>a, SubSeqFull
<1> QED BY <1>7, <1>10, <1>11, <1>12 DEF P

\* What data holds for the first n packets.
Filtered(s, n, f) ==
    f = [i \in 0..n |-> IF i = 0 THEN <<>>
                        ELSE IF s[i][1] = "data" THEN Append(f[i - 1], s[i]) ELSE f[i - 1]]

\* The recursion equation.
LEMMA FilteredAt ==
    ASSUME NEW s, NEW n, NEW f, Filtered(s, n, f), NEW i \in 0..n
    PROVE  f[i] = IF i = 0 THEN <<>>
                  ELSE IF s[i][1] = "data" THEN Append(f[i - 1], s[i]) ELSE f[i - 1]
BY DEF Filtered

\* Data is well defined.
LEMMA FilteredExists ==
    ASSUME NEW s, NEW n \in Nat
    PROVE  \E f : Filtered(s, n, f)
<1> DEFINE Bad == {m \in Nat : ~ \E f : Filtered(s, m, f)}
<1>1. SUFFICES ASSUME Bad # {} PROVE FALSE
  OBVIOUS
<1>2. PICK m \in Bad : \A k \in Bad : m <= k
  BY <1>1, LeastNat
<1>3. m \in Nat /\ ~ \E f : Filtered(s, m, f)
  OBVIOUS
<1>4. CASE m = 0
  <2> DEFINE f == [i \in 0..0 |-> <<>>]
  <2>1. f = [i \in 0..0 |-> IF i = 0 THEN <<>>
                        ELSE IF s[i][1] = "data" THEN Append(f[i - 1], s[i]) ELSE f[i - 1]]
    OBVIOUS
  <2> HIDE DEF f
  <2>2. Filtered(s, 0, f)
    BY <2>1 DEF Filtered
  <2> QED BY <1>3, <1>4, <2>2
<1>5. CASE m # 0
  <2>1. m - 1 \in Nat /\ m - 1 \notin Bad
    BY <1>2, <1>3, <1>5
  <2>2. PICK g : Filtered(s, m - 1, g)
    BY <2>1
  <2> DEFINE f == [i \in 0..m |-> IF i = m
                     THEN IF s[m][1] = "data" THEN Append(g[m - 1], s[m]) ELSE g[m - 1]
                     ELSE g[i]]
  <2>3. ASSUME NEW i \in 0..m
        PROVE  f[i] = IF i = 0 THEN <<>>
                      ELSE IF s[i][1] = "data" THEN Append(f[i - 1], s[i]) ELSE f[i - 1]
    <3>1. CASE i = m
      <4>1. m - 1 \in 0..m /\ m - 1 # m
        BY <1>3, <1>5
      <4>2. f[m - 1] = g[m - 1]
        BY <4>1
      <4> QED BY <1>5, <3>1, <4>2
    <3>2. CASE i # m
      <4>1. i \in 0..(m - 1)
        BY <3>2, <1>3
      <4>2. g[i] = IF i = 0 THEN <<>>
                   ELSE IF s[i][1] = "data" THEN Append(g[i - 1], s[i]) ELSE g[i - 1]
        BY <2>2, <4>1, FilteredAt
      <4>3. i # 0 => i - 1 \in 0..m /\ i - 1 # m
        BY <4>1, <1>3
      <4>4. i # 0 => f[i - 1] = g[i - 1]
        BY <4>3
      <4> QED BY <3>2, <4>2, <4>4
    <3> QED BY <3>1, <3>2
  <2>4. f = [i \in 0..m |-> IF i = 0 THEN <<>>
                ELSE IF s[i][1] = "data" THEN Append(f[i - 1], s[i]) ELSE f[i - 1]]
    BY <2>3
  <2> HIDE DEF f
  <2>5. Filtered(s, m, f)
    BY <2>4 DEF Filtered
  <2> QED BY <1>3, <2>5
<1> QED BY <1>4, <1>5

\* Two such functions agree where the sequences do.
LEMMA FilteredUnique ==
    ASSUME NEW s, NEW r, NEW n \in Nat, NEW m \in Nat, NEW f, NEW g,
           Filtered(s, n, f), Filtered(r, m, g), n <= m, Same(s, r, n)
    PROVE  f[n] = g[n]
<1> DEFINE Bad == {k \in 0..n : f[k] # g[k]}
<1>1. SUFFICES ASSUME Bad # {} PROVE FALSE
  OBVIOUS
<1>2. PICK k \in Bad : \A j \in Bad : k <= j
  <2>1. Bad \in SUBSET Nat
    OBVIOUS
  <2> QED BY <1>1, <2>1, LeastNat
<1>3. k \in 0..n /\ k \in 0..m /\ f[k] # g[k]
  OBVIOUS
<1>4. /\ f[k] = IF k = 0 THEN <<>>
                ELSE IF s[k][1] = "data" THEN Append(f[k - 1], s[k]) ELSE f[k - 1]
      /\ g[k] = IF k = 0 THEN <<>>
                ELSE IF r[k][1] = "data" THEN Append(g[k - 1], r[k]) ELSE g[k - 1]
  BY <1>3, FilteredAt
<1>5. k # 0 => k - 1 \in 0..n /\ k - 1 \notin Bad
  BY <1>2, <1>3
<1>6. k # 0 => f[k - 1] = g[k - 1] /\ s[k] = r[k]
  BY <1>3, <1>5 DEF Same
<1> QED BY <1>3, <1>4, <1>6

\* The last value of data.
LEMMA DataIs ==
    ASSUME NEW S, NEW s \in Seq(S)
    PROVE  \E f : Filtered(s, Len(s), f) /\ Data(s) = f[Len(s)]
<1> DEFINE f == CHOOSE f : f = [i \in 0..Len(s) |-> IF i = 0 THEN <<>>
                     ELSE IF s[i][1] = "data" THEN Append(f[i - 1], s[i]) ELSE f[i - 1]]
<1>1. Len(s) \in Nat
  BY LenProperties
<1>2. \E g : g = [i \in 0..Len(s) |-> IF i = 0 THEN <<>>
                     ELSE IF s[i][1] = "data" THEN Append(g[i - 1], s[i]) ELSE g[i - 1]]
  <2>1. PICK g : Filtered(s, Len(s), g)
    BY <1>1, FilteredExists
  <2> QED BY <2>1, Zenon DEF Filtered
<1>3. f = [i \in 0..Len(s) |-> IF i = 0 THEN <<>>
                     ELSE IF s[i][1] = "data" THEN Append(f[i - 1], s[i]) ELSE f[i - 1]]
  BY <1>2
<1>4. Data(s) = f[Len(s)]
  BY DEF Data
<1> QED BY <1>3, <1>4 DEF Filtered

\* Data, one packet at a time.
LEMMA DataAppend ==
    ASSUME NEW S, NEW s \in Seq(S), NEW p \in S
    PROVE  Data(Append(s, p)) = IF p[1] = "data" THEN Append(Data(s), p) ELSE Data(s)
<1>1. PICK n : n = Len(s)
  OBVIOUS
<1>2. PICK m : m = n + 1
  OBVIOUS
<1>3. PICK r : r = Append(s, p)
  OBVIOUS
<1>4. /\ n \in Nat /\ m \in Nat /\ r \in Seq(S) /\ Len(r) = m /\ r[m] = p
      /\ Same(s, r, n)
  BY <1>1, <1>2, <1>3, LenProperties, AppendProperties DEF Same
<1>5. PICK g : Filtered(r, m, g) /\ Data(r) = g[m]
  <2>1. \E h : Filtered(r, Len(r), h) /\ Data(r) = h[Len(r)]
    BY <1>4, DataIs
  <2> QED BY <1>4, <2>1
<1>6. PICK f : Filtered(s, n, f) /\ Data(s) = f[n]
  BY <1>1, DataIs
<1>7. n <= m /\ m \in 0..m /\ m # 0 /\ m - 1 = n
  BY <1>2, <1>4
<1>8. f[n] = g[n]
  BY <1>4, <1>5, <1>6, <1>7, FilteredUnique
<1>9. g[m] = IF m = 0 THEN <<>>
             ELSE IF r[m][1] = "data" THEN Append(g[m - 1], r[m]) ELSE g[m - 1]
  BY <1>5, <1>7, FilteredAt
<1> QED BY <1>3, <1>4, <1>5, <1>6, <1>7, <1>8, <1>9

\* No packets, no data.
LEMMA DataEmpty == Data(<<>>) = <<>>
<1>1. <<>> \in Seq({}) /\ Len(<<>>) = 0
  BY EmptySeq
<1>2. PICK f : Filtered(<<>>, 0, f) /\ Data(<<>>) = f[0]
  BY <1>1, DataIs
<1>3. f[0] = <<>>
  BY <1>2, FilteredAt
<1> QED BY <1>2, <1>3

\* The packets for the session come from the stream,
LEMMA DataType ==
    ASSUME NEW S, NEW s \in Seq(S)
    PROVE  Data(s) \in Seq(S)
<1> DEFINE G == {r \in Seq(S) : Data(r) \in Seq(S)}
<1>1. <<>> \in G
  BY DataEmpty, EmptySeq
<1>2. ASSUME NEW r \in Seq(S), NEW p \in S, r \in G
      PROVE  Append(r, p) \in G
  <2>1. Data(r) \in Seq(S)
    BY <1>2
  <2>2. Append(Data(r), p) \in Seq(S) /\ Append(r, p) \in Seq(S)
    BY <2>1, AppendProperties
  <2>3. Data(Append(r, p)) \in {Append(Data(r), p), Data(r)}
    BY DataAppend
  <2> QED BY <2>1, <2>2, <2>3
<1> HIDE DEF G
<1>3. Seq(S) \subseteq G
  BY <1>1, <1>2, SeqInduction
<1> QED BY <1>3 DEF G

\* and what the stream begins with comes first.
LEMMA DataPrefix ==
    ASSUME NEW S, NEW s \in Seq(S), NEW t \in Seq(S)
    PROVE  \E r \in Seq(S) : Data(s \o t) = Data(s) \o r
<1> DEFINE G == {u \in Seq(S) : \E r \in Seq(S) : Data(s \o u) = Data(s) \o r}
<1>0. Data(s) \in Seq(S)
  BY DataType
<1>1. <<>> \in G
  <2>1. s \o <<>> = s /\ Data(s) \o <<>> = Data(s) /\ <<>> \in Seq(S)
    BY <1>0, ConcatEmptySeq, EmptySeq
  <2> QED BY <2>1
<1>2. ASSUME NEW u \in Seq(S), NEW p \in S, u \in G
      PROVE  Append(u, p) \in G
  <2>1. Append(u, p) \in Seq(S) /\ s \o u \in Seq(S)
    BY AppendProperties, ConcatProperties
  <2>2. s \o Append(u, p) = Append(s \o u, p)
    BY ConcatAppend
  <2>3. PICK r \in Seq(S) : Data(s \o u) = Data(s) \o r
    BY <1>2
  <2>4. Data(Append(s \o u, p)) = IF p[1] = "data" THEN Append(Data(s \o u), p) ELSE Data(s \o u)
    BY <2>1, DataAppend
  <2>5. Append(Data(s) \o r, p) = Data(s) \o Append(r, p) /\ Append(r, p) \in Seq(S)
    <3>1. PICK d : d = Data(s)
      OBVIOUS
    <3>2. d \in Seq(S)
      BY <1>0, <3>1
    <3>3. d \o Append(r, p) = Append(d \o r, p)
      BY <3>2, ConcatAppend
    <3> QED BY <3>1, <3>3, AppendProperties
  <2>6. CASE p[1] = "data"
    <3>1. Data(s \o Append(u, p)) = Data(s) \o Append(r, p)
      BY <2>2, <2>3, <2>4, <2>5, <2>6
    <3> QED BY <2>1, <2>5, <3>1
  <2>7. CASE p[1] # "data"
    <3>1. Data(s \o Append(u, p)) = Data(s) \o r
      BY <2>2, <2>3, <2>4, <2>7
    <3> QED BY <2>1, <3>1
  <2> QED BY <2>6, <2>7
<1> HIDE DEF G
<1>3. Seq(S) \subseteq G
  BY <1>1, <1>2, SeqInduction
<1> QED BY <1>3 DEF G

-----------------------------------------------------------------------------
(***************************************************************************)
(* Nothing is lost                                                          *)
(***************************************************************************)

\* The network thread is in ReadHandler.
Busy == {"read", "dump", "packet", "session", "nosession"}

\* It will not be again.
Stopped == closed /\ ~reading /\ npc \notin Busy

\* What SendPacket took is with the client or in the queues, in order.
Outbound ==
    ~gone /\ ~closed => rcvd \o FlattenSeq(writeQueue) \o bufferQueue = sent

\* The stream is what was read, what is in the read buffer and what is on the
\* wire; the session has what was read, but for what was thrown away when the
\* socket was closed.
Inbound ==
    \E h, l \in Seq(Packets) :
        /\ out = (h \o l) \o (readBuffer \o wire)
        /\ recvQueue = Data(h)
        /\ l # <<>> => Stopped

\* The sequences of both directions; a buffer in the write queue is never empty.
Streams == /\ out \in Seq(Packets) /\ wire \in Seq(Packets)
           /\ readBuffer \in Seq(Packets) /\ recvQueue \in Seq(Packets)
           /\ rcvd \in Seq(Answers) /\ sent \in Seq(Answers)
           /\ bufferQueue \in Seq(Answers) /\ writeQueue \in Seq(Seq(Answers) \ {<<>>})

\* The fields that are no sequences.
Flags ==
    /\ gone \in BOOLEAN /\ full \in BOOLEAN /\ reading \in BOOLEAN /\ writing \in BOOLEAN
    /\ closed \in BOOLEAN /\ closing \in BOOLEAN /\ authed \in BOOLEAN
    /\ worldSession \in BOOLEAN

\* The states of the threads, the query, the lock and the session.
States ==
    /\ npc \in {"idle", "onclose", "queries", "flush", "write", "rearm",
                "read", "dump", "packet", "session", "nosession"}
    /\ where \in {"new", "listed", "removed"}
    /\ query \in {"none", "ip", "ip!", "auth", "auth!"}
    /\ lock \in {"free", "net"}
    /\ wpc \in {"idle", "close", "delete"}
    /\ sess \in {"none", "alive", "deleted"}
    /\ blocks \in 0..MaxBlocks

\* No read is pending while the network thread handles one.
ReadIdle == npc \in Busy => ~reading

\* The two directions.
inbound == <<out, wire, readBuffer, recvQueue>>
outbound == <<rcvd, writeQueue, bufferQueue, sent>>

\* The flags keep their type; a client that left and a closed socket stay so.
LEMMA FlagsStep ==
    ASSUME Flags, [Next]_vars
    PROVE  Flags' /\ (gone => gone') /\ (closed => closed')
<1> USE DEF Flags
<1>1. CASE \E x \in Inputs \cup {"auth"} : ClientSend(x)
  BY <1>1 DEF ClientSend, wireVars, readVars, writeVars, stateVars, sessionVars
<1>2. CASE ClientLeave \/ ClientReads \/ QueryAnswered
  BY <1>2 DEF ClientLeave, ClientReads, QueryAnswered, clientVars, wireVars, readVars,
              writeVars, stateVars, sessionVars
<1>3. CASE NetOnClose \/ HandleEmptyQueue \/ NoQueryReady \/ Accept
  BY <1>3 DEF NetOnClose, HandleEmptyQueue, NoQueryReady, Accept, clientVars, wireVars,
              readVars, writeVars, stateVars, sessionVars
<1>4. CASE WriteAll \/ WriteSome \/ WriteFails
  BY <1>4 DEF WriteAll, WriteSome, WriteFails, Pop, NetClose, clientVars, wireVars,
              readVars, writeVars, stateVars, sessionVars
<1>5. CASE Refuse \/ CheckIp \/ AsyncRead
  BY <1>5 DEF Refuse, CheckIp, AsyncRead, IsOpen, clientVars, wireVars,
              readVars, writeVars, stateVars, sessionVars
<1>6. CASE ReadDone \/ LogPacket \/ DumpPacket \/ LockSession \/ UseSession
  BY <1>6 DEF ReadDone, LogPacket, DumpPacket, LockSession, UseSession, clientVars, wireVars,
              readVars, writeVars, stateVars, sessionVars
<1>7. CASE HandleAuthSession \/ OverSpeedPing \/ NoSession
  BY <1>7 DEF HandleAuthSession, OverSpeedPing, NoSession, NetClose, clientVars, wireVars,
              readVars, writeVars, stateVars, sessionVars
<1>8. CASE NetUpdate \/ NetRemove \/ ReadHandler \/ ReadError \/ WriteHandler
  <2>1. CASE NetUpdate \/ NetRemove
    BY <2>1 DEF NetUpdate, NetRemove, clientVars, wireVars, readVars, writeVars, stateVars,
                sessionVars
  <2>2. CASE ReadHandler
    BY <2>2 DEF ReadHandler, clientVars, wireVars, readVars, writeVars, stateVars, sessionVars
  <2>3. CASE ReadError \/ WriteHandler
    BY <2>3 DEF ReadError, WriteHandler, NetClose, clientVars, wireVars, readVars, writeVars,
                stateVars, sessionVars
  <2> QED BY <1>8, <2>1, <2>2, <2>3
<1>9. CASE World
  <2>1. CASE WorldSend \/ WorldDrop \/ WorldDelete
    BY <2>1 DEF WorldSend, WorldDrop, WorldDelete, clientVars, wireVars, readVars,
                writeVars, stateVars, sessionVars
  <2>2. CASE WorldKick \/ WorldOnClose
    BY <2>2 DEF WorldKick, WorldOnClose, clientVars, wireVars, readVars, writeVars,
                stateVars, sessionVars
  <2> QED BY <1>9, <2>1, <2>2 DEF World
<1>10. CASE Done \/ UNCHANGED vars
  BY <1>10 DEF Done, vars, clientVars, wireVars, readVars, writeVars, stateVars, sessionVars
<1> QED
  BY <1>1, <1>2, <1>3, <1>4, <1>5, <1>6, <1>7, <1>8, <1>9, <1>10
     DEF Next, Handle, HandleQueue, Timer, Reads

\* The states keep their type.
LEMMA StatesStep ==
    ASSUME States, [Next]_vars
    PROVE  States'
<1> USE SocketAssumption DEF States
<1>1. CASE \E x \in Inputs \cup {"auth"} : ClientSend(x)
  BY <1>1 DEF ClientSend, wireVars, worldVars
<1>2. CASE ClientLeave \/ ClientReads \/ QueryAnswered
  BY <1>2 DEF ClientLeave, ClientReads, QueryAnswered, clientVars, wireVars, worldVars
<1>3. CASE NetOnClose \/ HandleEmptyQueue \/ NoQueryReady \/ Accept
  BY <1>3 DEF NetOnClose, HandleEmptyQueue, NoQueryReady, Accept, clientVars, wireVars,
              worldVars, AfterHandleQueue
<1>4. CASE WriteAll \/ WriteSome \/ WriteFails
  BY <1>4 DEF WriteAll, WriteSome, WriteFails, Pop, NetClose, clientVars, wireVars,
              worldVars, AfterHandleQueue
<1>5. CASE Refuse \/ CheckIp \/ AsyncRead
  BY <1>5 DEF Refuse, CheckIp, AsyncRead, IsOpen, clientVars, wireVars, worldVars
<1>6. CASE ReadDone \/ LogPacket \/ DumpPacket \/ LockSession \/ UseSession
  BY <1>6 DEF ReadDone, LogPacket, DumpPacket, LockSession, UseSession, clientVars, wireVars,
              worldVars
<1>7. CASE HandleAuthSession \/ OverSpeedPing \/ NoSession
  BY <1>7 DEF HandleAuthSession, OverSpeedPing, NoSession, NetClose, clientVars, wireVars,
              worldVars
<1>8. CASE NetUpdate \/ NetRemove \/ ReadHandler \/ ReadError \/ WriteHandler
  BY <1>8 DEF NetUpdate, NetRemove, ReadHandler, ReadError, WriteHandler, NetClose,
              clientVars, wireVars, worldVars
<1>9. CASE World
  BY <1>9 DEF World, WorldSend, WorldKick, WorldDrop, WorldDelete, WorldOnClose,
              clientVars, wireVars, worldVars
<1>10. CASE Done \/ UNCHANGED vars
  BY <1>10 DEF Done, vars, clientVars, wireVars, worldVars
<1> QED
  BY <1>1, <1>2, <1>3, <1>4, <1>5, <1>6, <1>7, <1>8, <1>9, <1>10
     DEF Next, Handle, HandleQueue, Timer, Reads

\* A thread that has stopped reading does not begin again.
LEMMA StoppedStep ==
    ASSUME ReadIdle, Flags, [Next]_vars
    PROVE  ReadIdle' /\ (Stopped => Stopped')
<1> USE DEF ReadIdle, Stopped, Busy, Flags
<1>1. CASE \E x \in Inputs \cup {"auth"} : ClientSend(x)
  BY <1>1 DEF ClientSend, readVars, stateVars
<1>2. CASE ClientLeave \/ ClientReads \/ QueryAnswered
  BY <1>2 DEF ClientLeave, ClientReads, QueryAnswered, readVars, stateVars
<1>3. CASE NetOnClose \/ HandleEmptyQueue \/ NoQueryReady \/ Accept
  BY <1>3 DEF NetOnClose, HandleEmptyQueue, NoQueryReady, Accept, readVars, stateVars,
              AfterHandleQueue
<1>4. CASE WriteAll \/ WriteSome \/ WriteFails
  BY <1>4 DEF WriteAll, WriteSome, WriteFails, Pop, NetClose, readVars, stateVars,
              AfterHandleQueue
<1>5. CASE Refuse \/ CheckIp \/ AsyncRead
  BY <1>5 DEF Refuse, CheckIp, AsyncRead, IsOpen, readVars, stateVars
<1>6. CASE ReadDone \/ LogPacket \/ DumpPacket \/ LockSession \/ UseSession
  BY <1>6 DEF ReadDone, LogPacket, DumpPacket, LockSession, UseSession, AtPacket, readVars,
              stateVars
<1>7. CASE HandleAuthSession \/ OverSpeedPing \/ NoSession
  BY <1>7 DEF HandleAuthSession, OverSpeedPing, NoSession, NetClose, AtPacket, readVars,
              stateVars
<1>8. CASE NetUpdate \/ NetRemove \/ ReadHandler \/ ReadError \/ WriteHandler
  BY <1>8 DEF NetUpdate, NetRemove, ReadHandler, ReadError, WriteHandler, NetClose,
              IsOpen, readVars, stateVars
<1>9. CASE World
  BY <1>9 DEF World, WorldSend, WorldKick, WorldDrop, WorldDelete, WorldOnClose,
              readVars, stateVars
<1>10. CASE Done \/ UNCHANGED vars
  BY <1>10 DEF Done, vars, readVars, stateVars
<1> QED
  BY <1>1, <1>2, <1>3, <1>4, <1>5, <1>6, <1>7, <1>8, <1>9, <1>10
     DEF Next, Handle, HandleQueue, Timer, Reads

\* The invariant of the two streams.
StreamInv == Flags /\ States /\ ReadIdle /\ Streams /\ Outbound /\ Inbound

\* Steps that leave the packets of the client where they are,
LEMMA InboundSame ==
    ASSUME StreamInv, [Next]_vars, UNCHANGED inbound
    PROVE  Inbound'
<1>1. Stopped => Stopped'
  BY StoppedStep DEF StreamInv
<1>2. PICK h, l \in Seq(Packets) :
        /\ out = (h \o l) \o (readBuffer \o wire)
        /\ recvQueue = Data(h)
        /\ l # <<>> => Stopped
  BY DEF StreamInv, Inbound
<1>3. /\ out' = (h \o l) \o (readBuffer' \o wire')
      /\ recvQueue' = Data(h)
      /\ l # <<>> => Stopped'
  BY <1>1, <1>2 DEF inbound
<1> QED BY <1>3 DEF Inbound

\* and those that leave the answers where they are.
LEMMA OutboundSame ==
    ASSUME StreamInv, [Next]_vars, UNCHANGED outbound
    PROVE  Outbound'
<1>1. (gone => gone') /\ (closed => closed')
  BY FlagsStep DEF StreamInv
<1> QED BY <1>1 DEF StreamInv, Outbound, outbound

\* SendPacket puts a packet at the end of both.
LEMMA SendOutbound ==
    ASSUME StreamInv, [Next]_vars, NEW x \in Answers, SendPacket(x),
           UNCHANGED <<rcvd, writeQueue>>
    PROVE  /\ Outbound'
           /\ bufferQueue' \in Seq(Answers) /\ sent' \in Seq(Answers)
<1>1. (gone => gone') /\ (closed => closed')
  BY FlagsStep DEF StreamInv
<1>2. /\ rcvd \in Seq(Answers) /\ bufferQueue \in Seq(Answers) /\ sent \in Seq(Answers)
      /\ writeQueue \in Seq(Seq(Answers))
  <2>1. writeQueue \in Seq(Seq(Answers) \ {<<>>})
    BY DEF StreamInv, Streams
  <2> QED BY <2>1, SeqMonotonic DEF StreamInv, Streams
<1>3. CASE ~IsOpen
  <2>1. UNCHANGED outbound
    BY <1>3 DEF SendPacket, outbound
  <2> QED BY <1>2, <2>1, OutboundSame DEF outbound
<1>4. CASE IsOpen
  <2>1. bufferQueue' = Append(bufferQueue, x) /\ sent' = Append(sent, x)
    BY <1>4 DEF SendPacket
  <2>2. bufferQueue' \in Seq(Answers) /\ sent' \in Seq(Answers)
    BY <1>2, <2>1, AppendProperties
  <2>3. PICK f : f = rcvd \o FlattenSeq(writeQueue)
    OBVIOUS
  <2>4. f \in Seq(Answers)
    BY <1>2, <2>3, FlattenType, ConcatProperties
  <2>5. f \o Append(bufferQueue, x) = Append(f \o bufferQueue, x)
    BY <1>2, <2>4, ConcatAppend
  <2>6. ~gone' /\ ~closed' => f \o bufferQueue = sent
    BY <1>1, <2>3 DEF StreamInv, Outbound
  <2>7. ~gone' /\ ~closed' => f \o bufferQueue' = sent'
    BY <2>1, <2>5, <2>6
  <2>8. f = rcvd' \o FlattenSeq(writeQueue')
    BY <2>3
  <2> QED BY <2>2, <2>7, <2>8 DEF Outbound
<1> QED BY <1>3, <1>4

\* The read buffer's first packet is taken.
LEMMA TakeInbound ==
    ASSUME StreamInv, npc \in Busy, readBuffer # <<>>, out' = out, wire' = wire,
           readBuffer' = Tail(readBuffer),
           \/ recvQueue' = IF NextPacket[1] = "data" THEN Append(recvQueue, NextPacket)
                                                     ELSE recvQueue
           \/ recvQueue' = recvQueue /\ Stopped'
    PROVE  Inbound' /\ readBuffer' \in Seq(Packets) /\ recvQueue' \in Seq(Packets)
<1>1. PICK h, l \in Seq(Packets) :
        /\ out = (h \o l) \o (readBuffer \o wire)
        /\ recvQueue = Data(h)
        /\ l # <<>> => Stopped
  BY DEF StreamInv, Inbound
<1>2. l = <<>>
  BY <1>1 DEF Stopped
<1>3. readBuffer \in Seq(Packets) /\ wire \in Seq(Packets) /\ recvQueue \in Seq(Packets)
  BY DEF StreamInv, Streams
<1>4. PICK x, t : x = Head(readBuffer) /\ t = Tail(readBuffer)
  OBVIOUS
<1>5. x \in Packets /\ t \in Seq(Packets)
  BY <1>3, <1>4, HeadTailProperties
<1>6. PICK u : u = <<x>>
  OBVIOUS
<1>7. u \in Seq(Packets) /\ readBuffer = u \o t
  BY <1>3, <1>4, <1>5, <1>6
<1>8. out = (h \o u) \o (t \o wire)
  <2>1. h \o l = h
    BY <1>2, ConcatEmptySeq
  <2>2. PICK c, k, z : c = readBuffer \o wire /\ k = h \o u /\ z = t \o wire
    OBVIOUS
  <2>3. /\ h \in Seq(Packets) /\ u \in Seq(Packets) /\ t \in Seq(Packets)
        /\ wire \in Seq(Packets)
    BY <1>3, <1>5, <1>7
  <2>4. /\ Joins(u, t, readBuffer) /\ Joins(readBuffer, wire, c) /\ Joins(h, c, out)
        /\ Joins(h, u, k) /\ Joins(t, wire, z)
    BY <1>1, <1>7, <2>1, <2>2 DEF Joins
  <2>5. Joins(k, z, out)
    BY ONLY <2>3, <2>4, Regroup
  <2> QED BY <2>2, <2>5 DEF Joins
<1>9. h \o u = Append(h, x) /\ Append(h, x) \in Seq(Packets)
  BY <1>5, <1>6, AppendIsConcat, AppendProperties
<1>10. CASE recvQueue' = IF NextPacket[1] = "data" THEN Append(recvQueue, NextPacket)
                                                   ELSE recvQueue
  <2>1. recvQueue' = Data(Append(h, x))
    <3>1. Data(Append(h, x)) = IF x[1] = "data" THEN Append(Data(h), x) ELSE Data(h)
      BY <1>5, DataAppend
    <3> QED BY <1>1, <1>4, <1>10, <3>1 DEF NextPacket
  <2>2. recvQueue' \in Seq(Packets)
    BY <1>9, <2>1, DataType
  <2>3. Append(h, x) \o <<>> = Append(h, x) /\ <<>> \in Seq(Packets)
    BY <1>9, ConcatEmptySeq, EmptySeq
  <2>4. PICK k, e : k = Append(h, x) /\ e = <<>>
    OBVIOUS
  <2>5. /\ k \in Seq(Packets) /\ e \in Seq(Packets)
        /\ out' = (k \o e) \o (readBuffer' \o wire') /\ recvQueue' = Data(k)
        /\ e # <<>> => Stopped'
    BY <1>4, <1>8, <1>9, <2>1, <2>3, <2>4
  <2>6. Inbound'
    BY <2>5 DEF Inbound
  <2> QED BY <1>4, <1>5, <2>2, <2>6
<1>11. CASE recvQueue' = recvQueue /\ Stopped'
  <2>1. /\ out' = (h \o u) \o (readBuffer' \o wire') /\ recvQueue' = Data(h) /\ Stopped'
    BY <1>1, <1>4, <1>8, <1>11
  <2>2. Inbound'
    BY <1>7, <2>1 DEF Inbound
  <2> QED BY <1>3, <1>4, <1>5, <1>11, <2>2
<1> QED BY <1>10, <1>11

\* Streams keeps its types if neither way changes.
LEMMA StreamsSame ==
    ASSUME StreamInv, UNCHANGED <<inbound, outbound>>
    PROVE  Streams'
BY DEF StreamInv, Streams, inbound, outbound

\* The steps that move no packet.
LEMMA QuietStream ==
    ASSUME StreamInv, [Next]_vars,
           \/ ClientLeave \/ ClientReads \/ QueryAnswered
           \/ NetOnClose \/ HandleEmptyQueue \/ NoQueryReady \/ Accept
           \/ AsyncRead \/ ReadDone \/ LogPacket \/ DumpPacket \/ LockSession
           \/ NetRemove \/ ReadError \/ WriteHandler
           \/ WorldKick \/ WorldDrop \/ WorldDelete \/ WorldOnClose
           \/ Done \/ UNCHANGED vars
    PROVE  Streams' /\ Outbound' /\ Inbound'
<1>1. CASE ClientLeave \/ ClientReads \/ QueryAnswered \/ Done \/ UNCHANGED vars
  <2>1. UNCHANGED <<inbound, outbound>>
    BY <1>1 DEF ClientLeave, ClientReads, QueryAnswered, Done, vars, inbound, outbound,
                clientVars, wireVars, readVars, writeVars
  <2> QED BY <2>1, StreamsSame, InboundSame, OutboundSame
<1>2. CASE NetOnClose \/ HandleEmptyQueue \/ NoQueryReady \/ Accept \/ AsyncRead \/ ReadDone
  <2>1. UNCHANGED <<inbound, outbound>>
    BY <1>2 DEF NetOnClose, HandleEmptyQueue, NoQueryReady, Accept, AsyncRead, ReadDone,
                inbound, outbound, clientVars, wireVars, readVars, writeVars
  <2> QED BY <2>1, StreamsSame, InboundSame, OutboundSame
<1>3. CASE LogPacket \/ DumpPacket \/ LockSession \/ NetRemove \/ ReadError \/ WriteHandler
  <2>1. UNCHANGED <<inbound, outbound>>
    BY <1>3 DEF LogPacket, DumpPacket, LockSession, NetRemove, ReadError, WriteHandler,
                inbound, outbound, clientVars, wireVars, readVars, writeVars
  <2> QED BY <2>1, StreamsSame, InboundSame, OutboundSame
<1>4. CASE WorldKick \/ WorldDrop \/ WorldDelete \/ WorldOnClose
  <2>1. UNCHANGED <<inbound, outbound>>
    BY <1>4 DEF WorldKick, WorldDrop, WorldDelete, WorldOnClose,
                inbound, outbound, clientVars, wireVars, readVars, writeVars
  <2> QED BY <2>1, StreamsSame, InboundSame, OutboundSame
<1> QED BY <1>1, <1>2, <1>3, <1>4

\* The client sends.
LEMMA ClientSendStream ==
    ASSUME StreamInv, [Next]_vars, NEW x \in Inputs \cup {"auth"}, ClientSend(x)
    PROVE  Streams' /\ Outbound' /\ Inbound'
<1>1. PICK p : /\ p = (IF x = "auth" THEN <<x, 0>> ELSE <<x, Len(out)>>)
               /\ out' = Append(out, p) /\ wire' = Append(wire, p)
  BY DEF ClientSend
<1>2. UNCHANGED <<readBuffer, recvQueue, outbound>>
  BY DEF ClientSend, outbound, wireVars, readVars, writeVars
<1>3. x # "auth" => Len(out) <= MaxIn
  BY DEF ClientSend
<1>4. /\ out \in Seq(Packets) /\ wire \in Seq(Packets) /\ readBuffer \in Seq(Packets)
      /\ Len(out) \in Nat
  BY LenProperties DEF StreamInv, Streams
<1>5. p \in Packets
  BY <1>1, <1>3, <1>4, SocketAssumption DEF Packets, Inputs
<1>6. out' \in Seq(Packets) /\ wire' \in Seq(Packets)
  BY <1>1, <1>4, <1>5, AppendProperties
<1>7. Streams'
  BY <1>2, <1>6 DEF StreamInv, Streams, outbound
<1>8. PICK h, l \in Seq(Packets) :
        /\ out = (h \o l) \o (readBuffer \o wire)
        /\ recvQueue = Data(h)
        /\ l # <<>> => Stopped
  BY DEF StreamInv, Inbound
<1>9. out' = (h \o l) \o (readBuffer' \o wire')
  <2>1. PICK b, c : b = h \o l /\ c = readBuffer \o wire
    OBVIOUS
  <2>2. b \in Seq(Packets) /\ c \in Seq(Packets)
    BY <1>4, <2>1, ConcatProperties
  <2>3. Joins(readBuffer, wire, c) /\ Joins(b, c, out)
    BY <1>8, <2>1 DEF Joins
  <2>4. Joins(readBuffer, Append(wire, p), Append(c, p)) /\ Joins(b, Append(c, p), Append(out, p))
    BY <1>4, <1>5, <2>2, <2>3, JoinsAppend
  <2> QED BY <1>1, <1>2, <2>1, <2>4 DEF Joins
<1>10. Stopped => Stopped'
  BY StoppedStep DEF StreamInv
<1>11. Inbound'
  BY <1>2, <1>8, <1>9, <1>10 DEF Inbound
<1> QED BY <1>2, <1>7, <1>11, OutboundSame

\* ReadHandler moves packets from the wire to the read buffer.
LEMMA ReadHandlerStream ==
    ASSUME StreamInv, [Next]_vars, ReadHandler
    PROVE  Streams' /\ Outbound' /\ Inbound'
<1>1. PICK n \in 1..Len(wire) :
          /\ readBuffer' = readBuffer \o SubSeq(wire, 1, n)
          /\ wire' = SubSeq(wire, n + 1, Len(wire))
  BY DEF ReadHandler
<1>2. UNCHANGED <<out, recvQueue, outbound>>
  BY DEF ReadHandler, outbound, wireVars, writeVars
<1>3. wire \in Seq(Packets) /\ readBuffer \in Seq(Packets) /\ Len(wire) \in Nat
  BY LenProperties DEF StreamInv, Streams
<1>4. PICK a, b : a = SubSeq(wire, 1, n) /\ b = SubSeq(wire, n + 1, Len(wire))
  OBVIOUS
<1>5. a \in Seq(Packets) /\ b \in Seq(Packets) /\ Joins(a, b, wire)
  BY <1>3, <1>4, SplitSeq DEF Joins
<1>6. readBuffer' = readBuffer \o a /\ wire' = b
  BY <1>1, <1>4
<1>7. readBuffer' \in Seq(Packets)
  BY <1>3, <1>5, <1>6, ConcatProperties
<1>8. Streams'
  BY <1>2, <1>5, <1>6, <1>7 DEF StreamInv, Streams, outbound
<1>9. readBuffer' \o wire' = readBuffer \o wire
  <2>1. PICK x, y : Joins(readBuffer, a, x) /\ Joins(x, b, y)
    BY DEF Joins
  <2>2. readBuffer \in Seq(Packets) /\ a \in Seq(Packets) /\ b \in Seq(Packets)
    BY <1>3, <1>5
  <2>3. Joins(readBuffer, wire, y)
    BY ONLY <1>5, <2>1, <2>2, JoinsThree
  <2> QED BY <1>6, <2>1, <2>3 DEF Joins
<1>10. Stopped => Stopped'
  BY StoppedStep DEF StreamInv
<1>11. PICK h, l \in Seq(Packets) :
        /\ out = (h \o l) \o (readBuffer \o wire)
        /\ recvQueue = Data(h)
        /\ l # <<>> => Stopped
  BY DEF StreamInv, Inbound
<1>12. out' = (h \o l) \o (readBuffer' \o wire') /\ recvQueue' = Data(h) /\ (l # <<>> => Stopped')
  BY <1>2, <1>9, <1>10, <1>11
<1>13. Inbound'
  BY <1>12 DEF Inbound
<1> QED BY <1>2, <1>8, <1>13, OutboundSame

\* A packet is handled, or thrown away when the socket is closed.
LEMMA HandlePacketStream ==
    ASSUME SocketInv, StreamInv, [Next]_vars,
           HandleAuthSession \/ UseSession \/ OverSpeedPing \/ NoSession
    PROVE  Streams' /\ Outbound' /\ Inbound'
<1>1. npc \in Busy /\ readBuffer # <<>>
  BY DEF HandleAuthSession, UseSession, OverSpeedPing, NoSession, AtPacket, Busy, SocketInv,
         Reading
<1>2. /\ readBuffer' = Tail(readBuffer) /\ out' = out /\ wire' = wire
      /\ rcvd' = rcvd /\ writeQueue' = writeQueue
  BY DEF HandleAuthSession, UseSession, OverSpeedPing, NoSession, clientVars, wireVars,
         writeVars
<1>3. \/ recvQueue' = IF NextPacket[1] = "data" THEN Append(recvQueue, NextPacket)
                                                ELSE recvQueue
      \/ recvQueue' = recvQueue /\ Stopped'
  <2>1. CASE UseSession
    BY <2>1 DEF UseSession
  <2>2. CASE HandleAuthSession \/ OverSpeedPing
    BY <2>2 DEF HandleAuthSession, OverSpeedPing
  <2>3. CASE NoSession /\ NextPacket[1] = "alive"
    BY <2>3 DEF NoSession
  <2>4. CASE NoSession /\ NextPacket[1] # "alive"
    <3>1. recvQueue' = recvQueue /\ closed' = TRUE /\ npc' \in {"idle", "onclose"}
      BY <2>4 DEF NoSession, NetClose
    <3>2. reading' = reading /\ ~reading
      BY <1>1, <2>4 DEF NoSession, StreamInv, ReadIdle
    <3> QED BY <3>1, <3>2 DEF Stopped, Busy
  <2> QED BY <2>1, <2>2, <2>3, <2>4
<1>4. Inbound' /\ readBuffer' \in Seq(Packets) /\ recvQueue' \in Seq(Packets)
  BY <1>1, <1>2, <1>3, TakeInbound
<1>5. (\E y \in Answers : SendPacket(y)) \/ UNCHANGED <<bufferQueue, sent>>
  <2>1. "pong" \in Answers
    BY DEF Answers
  <2> QED BY <2>1 DEF HandleAuthSession, UseSession, OverSpeedPing, NoSession
<1>6. Outbound' /\ bufferQueue' \in Seq(Answers) /\ sent' \in Seq(Answers)
  <2>1. CASE \E y \in Answers : SendPacket(y)
    BY <1>2, <2>1, SendOutbound
  <2>2. CASE UNCHANGED <<bufferQueue, sent>>
    BY <1>2, <2>2, OutboundSame DEF outbound, StreamInv, Streams
  <2> QED BY <1>5, <2>1, <2>2
<1>7. Streams'
  BY <1>2, <1>4, <1>6 DEF StreamInv, Streams
<1> QED BY <1>4, <1>6, <1>7

\* A packet is sent.
LEMMA SendStream ==
    ASSUME StreamInv, [Next]_vars, Refuse \/ CheckIp \/ WorldSend
    PROVE  Streams' /\ Outbound' /\ Inbound'
<1>1. \E y \in Answers : SendPacket(y)
  <2>1. {"err", "chal", "msg", "ok"} \subseteq Answers
    BY DEF Answers
  <2> QED BY <2>1 DEF Refuse, CheckIp, WorldSend
<1>2. UNCHANGED inbound /\ UNCHANGED <<rcvd, writeQueue>>
  BY DEF Refuse, CheckIp, WorldSend, inbound, clientVars, wireVars, readVars, writeVars
<1>3. Outbound' /\ bufferQueue' \in Seq(Answers) /\ sent' \in Seq(Answers)
  BY <1>1, <1>2, SendOutbound
<1>4. Streams'
  BY <1>2, <1>3 DEF StreamInv, Streams, inbound
<1> QED BY <1>2, <1>3, <1>4, InboundSame

\* Update takes packets out of _bufferQueue into buffers.
LEMMA NetUpdateStream ==
    ASSUME StreamInv, [Next]_vars, NetUpdate
    PROVE  Streams' /\ Outbound' /\ Inbound'
<1>a. PICK n \in 0..Len(bufferQueue) : \E e \in Ends(n) :
          /\ writeQueue' = writeQueue \o Pack(SubSeq(bufferQueue, 1, n), e)
          /\ bufferQueue' = SubSeq(bufferQueue, n + 1, Len(bufferQueue))
  BY DEF NetUpdate
<1>b. PICK e \in Ends(n) :
          /\ writeQueue' = writeQueue \o Pack(SubSeq(bufferQueue, 1, n), e)
          /\ bufferQueue' = SubSeq(bufferQueue, n + 1, Len(bufferQueue))
  BY <1>a
<1>1. UNCHANGED inbound /\ rcvd' = rcvd /\ sent' = sent
  BY DEF NetUpdate, inbound, clientVars, wireVars, readVars
<1>2. /\ bufferQueue \in Seq(Answers) /\ writeQueue \in Seq(Seq(Answers) \ {<<>>})
      /\ rcvd \in Seq(Answers) /\ Len(bufferQueue) \in Nat
  BY LenProperties DEF StreamInv, Streams
<1>3. writeQueue \in Seq(Seq(Answers))
  BY <1>2, SeqMonotonic
<1>4. PICK d, r : d = SubSeq(bufferQueue, 1, n) /\ r = SubSeq(bufferQueue, n + 1, Len(bufferQueue))
  OBVIOUS
<1>5. d \in Seq(Answers) /\ r \in Seq(Answers) /\ Joins(d, r, bufferQueue) /\ Len(d) = n
  <2>1. d \in Seq(Answers) /\ r \in Seq(Answers) /\ Joins(d, r, bufferQueue)
    BY <1>2, <1>4, SplitSeq DEF Joins
  <2>2. \A i \in 1..n : bufferQueue[i] \in Answers
    BY <1>2, ElementOfSeq
  <2>3. n \in Nat
    BY <1>2
  <2>4. Len(SubSeq(bufferQueue, 1, n)) = IF 1 <= n THEN n - 1 + 1 ELSE 0
    BY <2>2, <2>3, SubSeqProperties
  <2> QED BY <1>4, <2>1, <2>3, <2>4
<1>6. PICK p : p = Pack(d, e)
  OBVIOUS
<1>7. p \in Seq(Seq(Answers) \ {<<>>}) /\ FlattenSeq(p) = d
  <2>1. e \in Ends(Len(d))
    BY <1>5
  <2> QED BY <1>5, <1>6, <2>1, PackFlat
<1>8. p \in Seq(Seq(Answers))
  BY <1>7, SeqMonotonic
<1>9. writeQueue' = writeQueue \o p /\ bufferQueue' = r
  BY <1>b, <1>4, <1>6
<1>10. writeQueue' \in Seq(Seq(Answers) \ {<<>>})
  BY <1>2, <1>7, <1>9, ConcatProperties
<1>11. Streams'
  BY <1>1, <1>5, <1>9, <1>10 DEF StreamInv, Streams, inbound
<1>12. FlattenSeq(writeQueue') = FlattenSeq(writeQueue) \o d
  BY <1>3, <1>7, <1>8, <1>9, FlattenConcat
<1>13. PICK f, g, k : f = FlattenSeq(writeQueue) /\ g = FlattenSeq(writeQueue') /\ k = rcvd \o f
  OBVIOUS
<1>14. f \in Seq(Answers) /\ k \in Seq(Answers) /\ Joins(f, d, g)
  BY <1>2, <1>3, <1>12, <1>13, FlattenType, ConcatProperties DEF Joins
<1>15. (rcvd \o g) \o r = k \o bufferQueue
  <2>1. /\ rcvd \in Seq(Answers) /\ f \in Seq(Answers) /\ d \in Seq(Answers)
        /\ k \in Seq(Answers) /\ r \in Seq(Answers)
    BY <1>2, <1>5, <1>14
  <2>2. PICK x, y : Joins(k, d, x) /\ Joins(x, r, y)
    BY DEF Joins
  <2>3. Joins(rcvd, f, k) /\ Joins(f, d, g) /\ Joins(d, r, bufferQueue)
    BY <1>5, <1>13, <1>14 DEF Joins
  <2>4. Joins(rcvd, g, x)
    BY ONLY <2>1, <2>2, <2>3, JoinsThree
  <2>5. Joins(k, bufferQueue, y)
    BY ONLY <2>1, <2>2, <2>3, JoinsThree
  <2> QED BY <2>2, <2>4, <2>5 DEF Joins
<1>16. (gone => gone') /\ (closed => closed')
  BY FlagsStep DEF StreamInv
<1>17. ~gone' /\ ~closed' => (rcvd' \o FlattenSeq(writeQueue')) \o bufferQueue' = sent'
  <2>1. ~gone' /\ ~closed' => (rcvd \o FlattenSeq(writeQueue)) \o bufferQueue = sent
    BY <1>16 DEF StreamInv, Outbound
  <2> QED BY <1>1, <1>9, <1>13, <1>15, <2>1
<1>18. Outbound'
  BY <1>17 DEF Outbound
<1> QED BY <1>1, <1>11, <1>18, InboundSame

\* A buffer is written, and taken from the queue.
LEMMA WriteAllStream ==
    ASSUME StreamInv, [Next]_vars, WriteAll
    PROVE  Streams' /\ Outbound' /\ Inbound'
<1>1. /\ writeQueue # <<>> /\ rcvd' = rcvd \o Head(writeQueue)
      /\ writeQueue' = Tail(writeQueue)
      /\ UNCHANGED <<inbound, bufferQueue, sent>>
  BY DEF WriteAll, Pop, inbound, clientVars, readVars
<1>2. /\ rcvd \in Seq(Answers) /\ bufferQueue \in Seq(Answers)
      /\ writeQueue \in Seq(Seq(Answers) \ {<<>>})
  BY DEF StreamInv, Streams
<1>3. writeQueue \in Seq(Seq(Answers))
  BY <1>2, SeqMonotonic
<1>4. PICK b, t : b = Head(writeQueue) /\ t = Tail(writeQueue)
  OBVIOUS
<1>5. b \in Seq(Answers) /\ t \in Seq(Seq(Answers) \ {<<>>}) /\ t \in Seq(Seq(Answers))
  BY <1>1, <1>2, <1>3, <1>4, HeadTailProperties
<1>6. rcvd' \in Seq(Answers)
  BY <1>1, <1>2, <1>4, <1>5, ConcatProperties
<1>7. Streams'
  BY <1>1, <1>4, <1>5, <1>6 DEF StreamInv, Streams, inbound
<1>8. PICK f, g : f = FlattenSeq(writeQueue) /\ g = FlattenSeq(t)
  OBVIOUS
<1>9. Joins(b, g, f) /\ g \in Seq(Answers)
  BY <1>1, <1>3, <1>4, <1>5, <1>8, FlattenHead, FlattenType DEF Joins
<1>10. (rcvd \o b) \o g = rcvd \o f
  <2>1. rcvd \in Seq(Answers) /\ b \in Seq(Answers) /\ g \in Seq(Answers)
    BY <1>2, <1>5, <1>9
  <2>2. PICK x, y : Joins(rcvd, b, x) /\ Joins(x, g, y)
    BY DEF Joins
  <2>3. Joins(rcvd, f, y)
    BY ONLY <1>9, <2>1, <2>2, JoinsThree
  <2> QED BY <2>2, <2>3 DEF Joins
<1>11. (gone => gone') /\ (closed => closed')
  BY FlagsStep DEF StreamInv
<1>12. ~gone' /\ ~closed' => (rcvd' \o FlattenSeq(writeQueue')) \o bufferQueue' = sent'
  <2>1. ~gone' /\ ~closed' => (rcvd \o f) \o bufferQueue = sent
    BY <1>8, <1>11 DEF StreamInv, Outbound
  <2>2. rcvd' = rcvd \o b /\ FlattenSeq(writeQueue') = g
    BY <1>1, <1>4, <1>8
  <2> QED BY <1>1, <1>10, <2>1, <2>2
<1>13. Outbound'
  BY <1>12 DEF Outbound
<1> QED BY <1>1, <1>7, <1>13, InboundSame

\* A part of it is written; the rest stays in front.
LEMMA WriteSomeStream ==
    ASSUME StreamInv, [Next]_vars, WriteSome
    PROVE  Streams' /\ Outbound' /\ Inbound'
<1>1. writeQueue # <<>> /\ UNCHANGED <<inbound, bufferQueue, sent>>
  BY DEF WriteSome, inbound, clientVars, readVars
<1>2. /\ rcvd \in Seq(Answers) /\ bufferQueue \in Seq(Answers)
      /\ writeQueue \in Seq(Seq(Answers) \ {<<>>})
  BY DEF StreamInv, Streams
<1>3. writeQueue \in Seq(Seq(Answers))
  BY <1>2, SeqMonotonic
<1>4. PICK b, t : b = Head(writeQueue) /\ t = Tail(writeQueue)
  OBVIOUS
<1>5. /\ b \in Seq(Answers) /\ t \in Seq(Seq(Answers) \ {<<>>}) /\ t \in Seq(Seq(Answers))
      /\ Len(b) \in Nat
  BY <1>1, <1>2, <1>3, <1>4, HeadTailProperties, LenProperties
<1>6. PICK k \in 0..Len(b) - 1 :
          /\ rcvd' = rcvd \o SubSeq(b, 1, k)
          /\ writeQueue' = <<SubSeq(b, k + 1, Len(b))>> \o t
  BY <1>4 DEF WriteSome
<1>7. PICK c, d : c = SubSeq(b, 1, k) /\ d = SubSeq(b, k + 1, Len(b))
  OBVIOUS
<1>8. k \in 0..Len(b) /\ k + 1 <= Len(b)
  BY <1>5
<1>9. c \in Seq(Answers) /\ d \in Seq(Answers) /\ Joins(c, d, b)
  BY <1>5, <1>7, <1>8, SplitSeq DEF Joins
<1>10. d # <<>>
  <2>1. \A i \in (k + 1)..Len(b) : b[i] \in Answers
    BY <1>5, <1>8, ElementOfSeq
  <2>2. PICK m, l : m = k + 1 /\ l = Len(b)
    OBVIOUS
  <2>3. m \in Int /\ l \in Int /\ m <= l /\ \A i \in m..l : b[i] \in Answers
    BY <1>5, <1>8, <2>1, <2>2
  <2>4. Len(SubSeq(b, m, l)) = IF m <= l THEN l - m + 1 ELSE 0
    BY <2>3, SubSeqProperties
  <2>5. Len(d) # 0
    BY <1>7, <2>2, <2>3, <2>4
  <2> QED BY <2>5
<1>11. PICK u : u = <<d>>
  OBVIOUS
<1>12. writeQueue' = u \o t /\ u \in Seq(Seq(Answers) \ {<<>>})
  BY <1>6, <1>7, <1>9, <1>10, <1>11
<1>13. rcvd' = rcvd \o c /\ rcvd' \in Seq(Answers) /\ writeQueue' \in Seq(Seq(Answers) \ {<<>>})
  BY <1>2, <1>5, <1>6, <1>7, <1>9, <1>12, ConcatProperties
<1>14. Streams'
  BY <1>1, <1>13 DEF StreamInv, Streams, inbound
<1>15. PICK f, g, z : f = FlattenSeq(writeQueue) /\ g = FlattenSeq(t) /\ z = FlattenSeq(writeQueue')
  OBVIOUS
<1>16. Joins(b, g, f) /\ g \in Seq(Answers)
  BY <1>1, <1>3, <1>4, <1>5, <1>15, FlattenHead, FlattenType DEF Joins
<1>17. Joins(d, g, z)
  BY <1>5, <1>9, <1>11, <1>12, <1>15, FlattenFirst DEF Joins
<1>18. PICK o, e : Joins(rcvd, f, o) /\ Joins(rcvd, c, e)
  BY DEF Joins
<1>19. Joins(e, z, o)
  <2>1. rcvd \in Seq(Answers) /\ c \in Seq(Answers) /\ d \in Seq(Answers) /\ g \in Seq(Answers)
    BY <1>2, <1>9, <1>16
  <2> QED BY ONLY <2>1, <1>9, <1>16, <1>17, <1>18, Regroup
<1>20. (gone => gone') /\ (closed => closed')
  BY FlagsStep DEF StreamInv
<1>21. ~gone' /\ ~closed' => (rcvd' \o FlattenSeq(writeQueue')) \o bufferQueue' = sent'
  <2>1. ~gone' /\ ~closed' => (rcvd \o f) \o bufferQueue = sent
    BY <1>15, <1>20 DEF StreamInv, Outbound
  <2>2. rcvd \o f = o /\ rcvd' \o FlattenSeq(writeQueue') = o
    BY <1>13, <1>15, <1>18, <1>19 DEF Joins
  <2> QED BY <1>1, <2>1, <2>2
<1>22. Outbound'
  BY <1>21 DEF Outbound
<1> QED BY <1>1, <1>14, <1>22, InboundSame

\* A write that fails ends the connection.
LEMMA WriteFailsStream ==
    ASSUME StreamInv, [Next]_vars, WriteFails
    PROVE  Streams' /\ Outbound' /\ Inbound'
<1>1. /\ writeQueue # <<>> /\ writeQueue' = Tail(writeQueue) /\ (gone \/ closed)
      /\ UNCHANGED <<inbound, rcvd, bufferQueue, sent>>
  BY DEF WriteFails, Pop, inbound, clientVars, readVars, wireVars
<1>2. (gone => gone') /\ (closed => closed')
  BY FlagsStep DEF StreamInv
<1>3. Outbound'
  BY <1>1, <1>2 DEF Outbound
<1>4. writeQueue' \in Seq(Seq(Answers) \ {<<>>})
  BY <1>1, HeadTailProperties DEF StreamInv, Streams
<1>5. Streams'
  BY <1>1, <1>4 DEF StreamInv, Streams, inbound
<1> QED BY <1>1, <1>3, <1>5, InboundSame

\* Every step keeps the streams.
LEMMA StreamStep == SocketInv /\ StreamInv /\ [Next]_vars => StreamInv'
<1> SUFFICES ASSUME SocketInv, StreamInv, [Next]_vars
             PROVE  StreamInv'
  OBVIOUS
<1>1. Flags' /\ States' /\ ReadIdle'
  BY FlagsStep, StatesStep, StoppedStep DEF StreamInv
<1>2. ASSUME NEW x \in Inputs \cup {"auth"}, ClientSend(x)
      PROVE  Streams' /\ Outbound' /\ Inbound'
  BY <1>2, ClientSendStream
<1>3. CASE \/ ClientLeave \/ ClientReads \/ QueryAnswered
           \/ NetOnClose \/ HandleEmptyQueue \/ NoQueryReady \/ Accept
           \/ AsyncRead \/ ReadDone \/ LogPacket \/ DumpPacket \/ LockSession
           \/ NetRemove \/ ReadError \/ WriteHandler
           \/ WorldKick \/ WorldDrop \/ WorldDelete \/ WorldOnClose
           \/ Done \/ UNCHANGED vars
  BY <1>1, <1>3, QuietStream DEF StreamInv
<1>4. CASE HandleAuthSession \/ UseSession \/ OverSpeedPing \/ NoSession
  BY <1>1, <1>4, HandlePacketStream DEF StreamInv
<1>5. CASE Refuse \/ CheckIp \/ WorldSend
  BY <1>1, <1>5, SendStream DEF StreamInv
<1>6. CASE NetUpdate \/ WriteAll \/ WriteSome \/ WriteFails \/ ReadHandler
  BY <1>1, <1>6, NetUpdateStream, WriteAllStream, WriteSomeStream, WriteFailsStream,
     ReadHandlerStream DEF StreamInv
<1> QED
  BY <1>1, <1>2, <1>3, <1>4, <1>5, <1>6
     DEF StreamInv, Next, Handle, HandleQueue, Timer, Reads, World

\* They hold for a new socket.
LEMMA StreamInit == Init => StreamInv
<1> SUFFICES ASSUME Init PROVE StreamInv
  OBVIOUS
<1>1. Flags /\ States /\ ReadIdle
  <2>1. Flags
    BY DEF Init, Flags
  <2>2. States
    BY SocketAssumption DEF Init, States
  <2> QED BY <2>1, <2>2 DEF Init, ReadIdle
<1>2. /\ <<>> \in Seq(Packets) /\ <<>> \in Seq(Answers)
      /\ <<>> \in Seq(Seq(Answers) \ {<<>>})
  BY EmptySeq
<1>3. Streams
  BY <1>2 DEF Init, Streams
<1>4. <<>> \o <<>> = <<>>
  BY ConcatEmptySeq
<1>5. Outbound
  BY <1>4, FlattenEmpty DEF Init, Outbound
<1>6. Inbound
  <2>1. out = (<<>> \o <<>>) \o (readBuffer \o wire) /\ recvQueue = Data(<<>>)
    BY <1>4, DataEmpty DEF Init
  <2> QED BY <1>2, <2>1 DEF Inbound
<1> QED BY <1>1, <1>3, <1>5, <1>6 DEF StreamInv

\* What the queues and the handlers keep of the two streams.
LEMMA StreamsSafe == StreamInv => NothingLost
<1> SUFFICES ASSUME StreamInv PROVE NothingLost
  OBVIOUS
<1>1. TypeOK
  BY DEF StreamInv, Flags, States, Streams, TypeOK
<1>2. ~gone /\ ~closed => rcvd \o FlattenSeq(writeQueue) \o bufferQueue = sent
  BY DEF StreamInv, Outbound
<1>3. IsPrefix(recvQueue, Data(out))
  <2>1. PICK h, l \in Seq(Packets) :
          /\ out = (h \o l) \o (readBuffer \o wire)
          /\ recvQueue = Data(h)
    BY DEF StreamInv, Inbound
  <2>2. readBuffer \in Seq(Packets) /\ wire \in Seq(Packets)
    BY DEF StreamInv, Streams
  <2>3. PICK c : c = readBuffer \o wire
    OBVIOUS
  <2>4. c \in Seq(Packets)
    BY <2>2, <2>3, ConcatProperties
  <2>5. PICK w : w = l \o c
    OBVIOUS
  <2>6. w \in Seq(Packets)
    BY <2>4, <2>5, ConcatProperties
  <2>7. out = h \o w
    <3>1. h \in Seq(Packets) /\ l \in Seq(Packets) /\ c \in Seq(Packets)
      BY <2>4
    <3>2. PICK x : Joins(h, l, x)
      BY DEF Joins
    <3>3. Joins(x, c, out) /\ Joins(l, c, w)
      BY <2>1, <2>3, <2>5, <3>2 DEF Joins
    <3>4. Joins(h, w, out)
      BY ONLY <3>1, <3>2, <3>3, JoinsThree
    <3> QED BY <3>4 DEF Joins
  <2>8. PICK r \in Seq(Packets) : Data(out) = Data(h) \o r
    BY <2>6, <2>7, DataPrefix
  <2>9. PICK d : d = Data(h)
    OBVIOUS
  <2>10. d \in Seq(Packets) /\ recvQueue = d /\ Data(out) = d \o r
    BY <2>1, <2>8, <2>9, DataType
  <2>11. IsPrefix(d, d \o r)
    BY <2>10, PrefixOfConcat
  <2> QED BY <2>10, <2>11
<1> QED BY <1>1, <1>2, <1>3 DEF NothingLost

\* Between SendPacket and the client, and between the client and its session,
\* nothing is lost, repeated or reordered: for any number of packets, however
\* Update packs them into buffers and however little each write takes.
THEOREM NothingIsLost == Spec => []NothingLost
<1>1. Init => StreamInv
  BY StreamInit
<1>2. SocketInv /\ StreamInv /\ [Next]_vars => StreamInv'
  BY StreamStep
<1>3. StreamInv => NothingLost
  BY StreamsSafe
<1> QED BY <1>1, <1>2, <1>3, SocketAlways, PTL DEF Spec

=============================================================================
