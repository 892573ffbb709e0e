------------------------- MODULE WorldSessionsProofs -------------------------
(***************************************************************************)
(* Proofs about WorldSessions, for any accounts, sessions and limits.       *)
(***************************************************************************)
EXTENDS WorldSessions, FiniteSetTheorems, SequenceTheorems,
        NaturalsInduction, TLAPS

-----------------------------------------------------------------------------
(***************************************************************************)
(* Lists without repetition: m_QueuedPlayer and addSessQueue.               *)
(***************************************************************************)

\* No element occurs twice.
Distinct(q) == \A i, j \in 1..Len(q) : q[i] = q[j] => i = j

\* A set of natural numbers that is not empty has a least element.
LEMMA LeastNat ==
    ASSUME NEW T \in SUBSET Nat, T # {}
    PROVE  \E n \in T : \A m \in T : n <= m
<1>1. PICK n \in T : \A m \in T : ~(<<m, n>> \in OpToRel(<, Nat))
  BY NatLessThanWellFounded, WFMin
<1>2. \A m \in T : ~(m < n)
  BY <1>1 DEF OpToRel
<1> QED BY <1>2

\* The elements of a list.
LEMMA Elements ==
    ASSUME NEW S, NEW q \in Seq(S)
    PROVE  /\ ToSet(q) = {q[i] : i \in 1..Len(q)}
           /\ ToSet(q) \subseteq S
           /\ Len(q) \in Nat
           /\ ToSet(q) = {} <=> q = <<>>
<1>1. Len(q) \in Nat /\ DOMAIN q = 1..Len(q) /\ \A i \in 1..Len(q) : q[i] \in S
  BY LenProperties, ElementOfSeq
<1>2. ToSet(q) = {q[i] : i \in 1..Len(q)}
  BY <1>1 DEF ToSet
<1>3. q # <<>> => q[1] \in ToSet(q)
  BY <1>1, <1>2, EmptySeq
<1>4. q = <<>> => ToSet(q) = {}
  BY <1>2
<1> QED BY <1>1, <1>2, <1>3, <1>4

\* A list without repetition has as many elements as it is long.
LEMMA DistinctCount ==
    ASSUME NEW S, NEW q \in Seq(S), Distinct(q)
    PROVE  IsFiniteSet(ToSet(q)) /\ Cardinality(ToSet(q)) = Len(q)
<1>1. /\ ToSet(q) = {q[i] : i \in 1..Len(q)} /\ Len(q) \in Nat
      /\ q \in [1..Len(q) -> S]
  BY Elements, LenProperties
<1>2. q \in Bijection(1..Len(q), ToSet(q))
  <2>1. q \in [1..Len(q) -> ToSet(q)]
    BY <1>1
  <2>2. q \in Injection(1..Len(q), ToSet(q))
    BY <1>1, <2>1 DEF Distinct, Injection, IsInjective
  <2>3. q \in Surjection(1..Len(q), ToSet(q))
    BY <1>1, <2>1 DEF Surjection
  <2> QED BY <2>2, <2>3 DEF Bijection
<1>3. IsFiniteSet(1..Len(q)) /\ Cardinality(1..Len(q)) = Len(q)
  BY <1>1, FS_Interval
<1>4. ExistsBijection(1..Len(q), ToSet(q))
  BY <1>2 DEF ExistsBijection
<1> QED BY <1>3, <1>4, FS_Bijection, Zenon

\* push_back of a session that is not in the list.
LEMMA Pushed ==
    ASSUME NEW S, NEW q \in Seq(S), Distinct(q), NEW s \in S, s \notin ToSet(q)
    PROVE  /\ Append(q, s) \in Seq(S) /\ Distinct(Append(q, s))
           /\ ToSet(Append(q, s)) = ToSet(q) \cup {s}
           /\ Len(Append(q, s)) = Len(q) + 1
<1> DEFINE r == Append(q, s)
           n == Len(q)
<1>1. /\ r \in Seq(S) /\ Len(r) = n + 1 /\ n \in Nat
      /\ \A i \in 1..n : r[i] = q[i]
      /\ r[n + 1] = s
  BY AppendProperties, Elements
<1>2. ToSet(q) = {q[i] : i \in 1..n} /\ ToSet(r) = {r[i] : i \in 1..Len(r)}
  BY <1>1, Elements
<1> HIDE DEF r, n
<1>3. 1..Len(r) = (1..n) \cup {n + 1}
  BY <1>1
<1>4. ToSet(r) = ToSet(q) \cup {s}
  BY <1>1, <1>2, <1>3
<1>5. ASSUME NEW i \in 1..Len(r), NEW j \in 1..Len(r), r[i] = r[j]
      PROVE  i = j
  <2>1. CASE i \in 1..n /\ j \in 1..n
    BY <2>1, <1>1, <1>5 DEF Distinct, n
  <2>2. CASE i = n + 1 /\ j \in 1..n
    BY <2>2, <1>1, <1>2, <1>5
  <2>3. CASE j = n + 1 /\ i \in 1..n
    BY <2>3, <1>1, <1>2, <1>5
  <2> QED BY <1>3, <2>1, <2>2, <2>3
<1> QED BY <1>1, <1>4, <1>5 DEF Distinct, r, n

\* pop_front.
LEMMA Popped ==
    ASSUME NEW S, NEW q \in Seq(S), Distinct(q), q # <<>>
    PROVE  /\ Tail(q) \in Seq(S) /\ Distinct(Tail(q))
           /\ Head(q) \in ToSet(q) /\ Head(q) \in S
           /\ ToSet(Tail(q)) = ToSet(q) \ {Head(q)}
           /\ Len(Tail(q)) = Len(q) - 1 /\ Len(q) > 0
<1> DEFINE r == Tail(q)
           n == Len(q)
<1>1. /\ r \in Seq(S) /\ Len(r) = n - 1 /\ n \in Nat /\ n > 0
      /\ \A i \in 1..(n - 1) : r[i] = q[i + 1]
      /\ Head(q) = q[1] /\ Head(q) \in S
  BY HeadTailProperties, EmptySeq, Elements
<1>2. ToSet(q) = {q[i] : i \in 1..n} /\ ToSet(r) = {r[i] : i \in 1..Len(r)}
  BY <1>1, Elements
<1> HIDE DEF r, n
<1>3. \A i, j \in 1..n : q[i] = q[j] => i = j
  BY DEF Distinct, n
<1>4. ASSUME NEW i \in 1..Len(r), NEW j \in 1..Len(r), r[i] = r[j]
      PROVE  i = j
  <2>1. i + 1 \in 1..n /\ j + 1 \in 1..n /\ q[i + 1] = q[j + 1]
    BY <1>1, <1>4
  <2>2. i + 1 = j + 1
    BY <1>3, <2>1
  <2> QED BY <2>2, <1>1
<1>5. ASSUME NEW x \in ToSet(r) PROVE x \in ToSet(q) \ {Head(q)}
  <2>1. PICK i \in 1..Len(r) : x = r[i]
    BY <1>2
  <2>2. i + 1 \in 1..n /\ i + 1 # 1 /\ 1 \in 1..n /\ x = q[i + 1]
    BY <2>1, <1>1
  <2> QED BY <1>1, <1>2, <1>3, <2>2
<1>6. ASSUME NEW x \in ToSet(q) \ {Head(q)} PROVE x \in ToSet(r)
  <2>1. PICK i \in 1..n : x = q[i]
    BY <1>2
  <2>2. i - 1 \in 1..Len(r) /\ (i - 1) + 1 = i
    BY <2>1, <1>1
  <2>3. r[i - 1] = x
    BY <2>1, <2>2, <1>1
  <2> QED BY <1>2, <2>2, <2>3
<1>7. Head(q) \in ToSet(q)
  BY <1>1, <1>2
<1> QED BY <1>1, <1>4, <1>5, <1>6, <1>7 DEF Distinct, r, n

\* erase of the element that was found.
LEMMA Erased ==
    ASSUME NEW S, NEW q \in Seq(S), Distinct(q), NEW s
    PROVE  /\ RemoveFirst(q, s) \in Seq(S) /\ Distinct(RemoveFirst(q, s))
           /\ ToSet(RemoveFirst(q, s)) = ToSet(q) \ {s}
<1> DEFINE n == Len(q)
           I == {i \in 1..n : q[i] = s}
<1>1. /\ n \in Nat /\ ToSet(q) = {q[i] : i \in 1..n}
      /\ \A i \in 1..n : q[i] \in S
      /\ \A i, j \in 1..n : q[i] = q[j] => i = j
  BY Elements, ElementOfSeq DEF Distinct
<1>2. CASE I = {}
  <2>1. RemoveFirst(q, s) = q
    BY <1>2 DEF RemoveFirst
  <2> QED BY <1>1, <1>2, <2>1
<1>3. CASE I # {}
  <2>a. I \in SUBSET Nat
    BY <1>1
  <2> HIDE DEF I
  <2>1. PICK k \in I : \A i \in I : k <= i
    BY <1>3, <2>a, LeastNat
  <2>2. Min(I) \in I
    BY <2>1 DEF Min
  <2>3. PICK m \in 1..n : q[m] = s /\ RemoveFirst(q, s) = RemoveAt(q, m)
    BY <1>3, <2>2 DEF RemoveFirst, SelectInSeq, I
  <2> DEFINE r == RemoveAt(q, m)
             u == SubSeq(q, 1, m - 1)
             v == SubSeq(q, m + 1, n)
  <2>4. /\ u \in Seq(S) /\ Len(u) = m - 1
        /\ \A i \in 1..(m - 1) : u[i] = q[i]
    <3>1. \A i \in 1..(m - 1) : q[i] \in S
      BY <1>1
    <3>2. /\ u \in Seq(S) /\ Len(u) = IF 1 <= m - 1 THEN (m - 1) - 1 + 1 ELSE 0
          /\ \A i \in 1..((m - 1) - 1 + 1) : u[i] = q[1 + i - 1]
      BY <3>1, <1>1, SubSeqProperties
    <3> QED BY <3>2, <1>1
  <2>5. /\ v \in Seq(S) /\ Len(v) = n - m
        /\ \A i \in 1..(n - m) : v[i] = q[m + i]
    <3>1. \A i \in (m + 1)..n : q[i] \in S
      BY <1>1
    <3>2. /\ v \in Seq(S)
          /\ Len(v) = IF m + 1 <= n THEN n - (m + 1) + 1 ELSE 0
          /\ \A i \in 1..(n - (m + 1) + 1) : v[i] = q[(m + 1) + i - 1]
      BY <3>1, <1>1, SubSeqProperties
    <3> QED BY <3>2, <1>1
  <2>b. r = u \o v
    BY DEF RemoveAt
  <2> HIDE DEF r, u, v, n, I
  <2>6. /\ r \in Seq(S) /\ Len(r) = n - 1
        /\ \A i \in 1..(n - 1) : r[i] = IF i <= m - 1 THEN u[i] ELSE v[i - (m - 1)]
    <3>1. /\ u \o v \in Seq(S) /\ Len(u \o v) = Len(u) + Len(v)
          /\ \A i \in 1..(Len(u) + Len(v)) :
                (u \o v)[i] = IF i <= Len(u) THEN u[i] ELSE v[i - Len(u)]
      BY <2>4, <2>5, ConcatProperties
    <3>2. Len(u) + Len(v) = n - 1
      BY <2>4, <2>5, <1>1
    <3> QED BY <2>b, <2>4, <3>1, <3>2
  <2>7. \A i \in 1..(n - 1) : r[i] = IF i < m THEN q[i] ELSE q[i + 1]
    <3> TAKE i \in 1..(n - 1)
    <3>1. CASE i < m
      BY <3>1, <1>1, <2>4, <2>6
    <3>2. CASE ~(i < m)
      <4>1. i - (m - 1) \in 1..(n - m) /\ m + (i - (m - 1)) = i + 1
        BY <3>2, <1>1
      <4>2. v[i - (m - 1)] = q[i + 1]
        BY <4>1, <2>5
      <4> QED BY <3>2, <4>2, <1>1, <2>6
    <3> QED BY <3>1, <3>2
  <2>8. ToSet(r) = {r[i] : i \in 1..(n - 1)}
    BY <2>6, Elements
  <2>9. ASSUME NEW x \in ToSet(r) PROVE x \in ToSet(q) \ {s}
    <3>1. PICK i \in 1..(n - 1) : x = r[i]
      BY <2>8
    <3>2. i \in 1..n /\ i + 1 \in 1..n
      BY <1>1
    <3>3. CASE i < m
      BY <3>1, <3>2, <3>3, <1>1, <2>3, <2>7
    <3>4. CASE ~(i < m)
      <4>1. x = q[i + 1] /\ i + 1 # m
        BY <3>1, <3>4, <1>1, <2>7
      <4> QED BY <4>1, <3>2, <1>1, <2>3
    <3> QED BY <3>3, <3>4
  <2>10. ASSUME NEW x \in ToSet(q) \ {s} PROVE x \in ToSet(r)
    <3>1. PICK i \in 1..n : x = q[i]
      BY <1>1
    <3>2. i # m
      BY <3>1, <2>3
    <3>3. CASE i < m
      BY <3>1, <3>3, <1>1, <2>7, <2>8
    <3>4. CASE ~(i < m)
      <4>1. i - 1 \in 1..(n - 1) /\ ~(i - 1 < m) /\ (i - 1) + 1 = i
        BY <3>2, <3>4, <1>1
      <4>2. r[i - 1] = x
        BY <4>1, <3>1, <2>7
      <4> QED BY <4>1, <4>2, <2>8
    <3> QED BY <3>3, <3>4
  <2>11. ASSUME NEW i \in 1..(n - 1), NEW j \in 1..(n - 1), r[i] = r[j]
         PROVE  i = j
    <3> DEFINE f(x) == IF x < m THEN x ELSE x + 1
    <3>1. f(i) \in 1..n /\ f(j) \in 1..n /\ r[i] = q[f(i)] /\ r[j] = q[f(j)]
      BY <1>1, <2>7
    <3>2. f(i) = f(j)
      BY <3>1, <2>11, <1>1
    <3> QED BY <3>2, <1>1
  <2>12. Distinct(r)
    BY <2>6, <2>11 DEF Distinct
  <2> QED BY <2>3, <2>6, <2>9, <2>10, <2>12 DEF r
<1> QED BY <1>2, <1>3

-----------------------------------------------------------------------------
(***************************************************************************)
(* The inductive invariant of the session list                              *)
(***************************************************************************)

\* A session of m_sessions is alive under the account that lists it.
Owned == \A a \in Accounts : sess[a] # None => obj[sess[a]].acct = a

\* m_QueuedPlayer holds listed sessions, once each, that are not admitted.
QueueSound ==
    /\ Distinct(queue)
    /\ ToSet(queue) \subseteq Listed(sess)
    /\ \A s \in ToSet(queue) :
          obj[s].inQueue /\ obj[s].admitted = "no" /\ ~obj[s].loginCb

\* What World::AddSession handed over and nobody has touched since.
Untouched(o) ==
    /\ o.acct # None /\ o.admitted = "no"
    /\ ~o.inQueue /\ ~o.loginCb /\ ~o.loading /\ ~o.player

WaitingSound ==
    /\ Distinct(addSessQueue)
    /\ \A s \in ToSet(addSessQueue) : Untouched(obj[s]) /\ s \notin Listed(sess)

\* The loop over m_sessions visits accounts that have a session.
VisitSound ==
    \A a \in visit : wpc = "visit" /\ sess[a] # None

\* Disconnects were noted in the past.
DisconnectsPast == \A a \in Accounts : disconnects[a] # None => disconnects[a] <= now

SessInv ==
    /\ TypeOK /\ Owned /\ QueueSound /\ WaitingSound /\ VisitSound
    /\ DisconnectsPast /\ NoQueueSkipping /\ InQueueCleared

-----------------------------------------------------------------------------
(***************************************************************************)
(* The operators on sessions and on the queue                               *)
(***************************************************************************)

\* Membership in m_sessions.
LEMMA ListedIs ==
    ASSUME NEW m \in [Accounts -> Sessions \cup {None}]
    PROVE  \A s : s \in Listed(m) <=> s \in Sessions /\ \E a \in Accounts : m[a] = s
BY SessionAssumption DEF Listed

\* A session fresh from the constructor, or a deleted one.
LEMMA NewFields ==
    ASSUME NEW a \in Accounts \cup {None}
    PROVE  /\ NewSession(a) \in SessionObject
           /\ NewSession(a).acct = a
           /\ NewSession(a).admitted = "no"
           /\ ~NewSession(a).inQueue /\ ~NewSession(a).loginCb
           /\ ~NewSession(a).loading /\ ~NewSession(a).player
BY SessionAssumption DEF NewSession, SessionObject

\* What InitializeSession changes.
LEMMA AdmitFields ==
    ASSUME NEW o \in SessionObject, NEW how \in {"slot", "gm", "tolerance"},
           NEW age \in 0..MaxTime
    PROVE  /\ Admit(o, how, age) \in SessionObject
           /\ Admit(o, how, age).acct = o.acct
           /\ Admit(o, how, age).sock = o.sock
           /\ Admit(o, how, age).inQueue = o.inQueue
           /\ Admit(o, how, age).loading = o.loading
           /\ Admit(o, how, age).player = o.player
           /\ Admit(o, how, age).loginCb
           /\ Admit(o, how, age).admitted = how
BY DEF Admit, SessionObject

\* What WorldSession::Update may change.
LEMMA ProgressFields ==
    ASSUME NEW o \in SessionObject, NEW p \in Progress(o)
    PROVE  /\ p \in SessionObject
           /\ p.acct = o.acct /\ p.sock = o.sock /\ p.admitted = o.admitted
           /\ p.inQueue => o.inQueue
           /\ o.inQueue /\ ~o.loginCb => p.inQueue
           /\ p.loginCb => o.loginCb
           /\ p.inQueue /\ o.loginCb => p.loginCb
           /\ p.loading => o.loading \/ (~o.inQueue /\ o.sock = "open")
           /\ p.player => o.player \/ o.loading
<1>1. \/ p = o
      \/ p = [o EXCEPT !.inQueue = FALSE, !.loginCb = FALSE]
      \/ p = [o EXCEPT !.loading = TRUE]
      \/ p = [o EXCEPT !.loading = FALSE, !.player = TRUE]
      \/ p = [o EXCEPT !.loading = FALSE]
      \/ p = [o EXCEPT !.player = FALSE]
  BY DEF Progress
<1>2. /\ p.inQueue # o.inQueue => o.loginCb
      /\ p.loading /\ ~o.loading => ~o.inQueue /\ ~o.player /\ o.sock = "open"
      /\ p.player /\ ~o.player => o.loading
  BY DEF Progress
<1> QED BY <1>1, <1>2, ZenonT(40) DEF SessionObject

\* RemoveQueuedPlayer takes the session and the one it accepts out of the queue.
LEMMA RemovedFromQueue ==
    ASSUME NEW s, NEW m, NEW q \in Seq(Sessions), Distinct(q)
    PROVE  LET r == RemoveQueuedPlayer(s, m, q)
           IN  /\ r.found <=> s \in ToSet(q)
               /\ r.queue \in Seq(Sessions) /\ Distinct(r.queue)
               /\ r.accept = None \/ r.accept \in ToSet(q) \ {s}
               /\ ToSet(r.queue) = ToSet(q) \ {s, r.accept}
<1> DEFINE rest     == RemoveFirst(q, s)
           active   == ActiveSessionCount(m, q)
           sessions == IF s \notin ToSet(q) /\ active > 0 THEN active - 1 ELSE active
           accept   == (limit = 0 \/ sessions < limit) /\ rest # <<>>
           r        == RemoveQueuedPlayer(s, m, q)
<1>1. /\ rest \in Seq(Sessions) /\ Distinct(rest)
      /\ ToSet(rest) = ToSet(q) \ {s}
  BY Erased
<1>2. /\ r.found <=> s \in ToSet(q)
      /\ r.queue = IF accept THEN Tail(rest) ELSE rest
      /\ r.accept = IF accept THEN Head(rest) ELSE None
  BY DEF RemoveQueuedPlayer
<1>3. None \notin ToSet(q)
  BY Elements, SessionAssumption
<1> HIDE DEF r, rest, sessions
<1>4. CASE accept
  <2>1. /\ Tail(rest) \in Seq(Sessions) /\ Distinct(Tail(rest))
        /\ Head(rest) \in ToSet(rest)
        /\ ToSet(Tail(rest)) = ToSet(rest) \ {Head(rest)}
    BY <1>1, <1>4, Popped
  <2> QED BY <1>1, <1>2, <1>4, <2>1 DEF r
<1>5. CASE ~accept
  BY <1>1, <1>2, <1>3, <1>5 DEF r
<1> QED BY <1>4, <1>5

-----------------------------------------------------------------------------
(***************************************************************************)
(* The invariant is inductive                                               *)
(***************************************************************************)

\* What SessInv says of the members of the lists, with the sets spelled out.
LEMMA SessFacts ==
    ASSUME SessInv
    PROVE  /\ \A s : s \in Listed(sess)
                        <=> s \in Sessions /\ \E a \in Accounts : sess[a] = s
           /\ ToSet(queue) \subseteq Sessions
           /\ ToSet(addSessQueue) \subseteq Sessions
           /\ \A a \in Accounts : sess[a] # None => sess[a] \in Sessions
           /\ \A a, b \in Accounts : sess[a] # None /\ sess[a] = sess[b] => a = b
           /\ None \notin Sessions /\ None \notin Accounts
<1>1. /\ sess \in [Accounts -> Sessions \cup {None}]
      /\ queue \in Seq(Sessions) /\ addSessQueue \in Seq(Sessions)
      /\ Owned
  BY DEF SessInv, TypeOK
<1>2. \A a, b \in Accounts : sess[a] # None /\ sess[a] = sess[b] => a = b
  <2> TAKE a, b \in Accounts
  <2> HAVE sess[a] # None /\ sess[a] = sess[b]
  <2>1. obj[sess[a]].acct = a /\ obj[sess[b]].acct = b
    BY <1>1 DEF Owned
  <2> QED BY <2>1
<1>3. ToSet(queue) \subseteq Sessions /\ ToSet(addSessQueue) \subseteq Sessions
  BY <1>1, Elements
<1>4. None \notin Sessions /\ None \notin Accounts
  BY SessionAssumption
<1>5. \A s : s \in Listed(sess) <=> s \in Sessions /\ \E a \in Accounts : sess[a] = s
  BY <1>1, ListedIs
<1> QED BY <1>1, <1>2, <1>3, <1>4, <1>5

\* There are no sessions at first.
LEMMA SessInit == Init => SessInv
<1> SUFFICES ASSUME Init PROVE SessInv
  OBVIOUS
<1>1. obj \in [Sessions -> SessionObject] /\ \A s \in Sessions : obj[s].acct = None
  BY NewFields DEF Init, Deleted
<1>2. TypeOK
  <2>1. <<>> \in Seq(Sessions)
    OBVIOUS
  <2>2. 0 \in 0..MaxTime
    BY SessionAssumption
  <2>3. /\ sess \in [Accounts -> Sessions \cup {None}]
        /\ disconnects \in [Accounts -> 0..MaxTime \cup {None}]
    BY DEF Init
  <2> QED BY <1>1, <2>1, <2>2, <2>3 DEF Init, TypeOK
<1>3. ToSet(<<>>) = {} /\ Len(<<>>) = 0
  BY DEF ToSet
<1>4. Listed(sess) = {}
  BY DEF Init, Listed
<1>5. Distinct(<<>>)
  BY <1>3 DEF Distinct
<1>6. QueueSound /\ WaitingSound
  BY <1>3, <1>5 DEF Init, QueueSound, WaitingSound
<1>7. Owned /\ VisitSound /\ DisconnectsPast
  BY DEF Init, Owned, VisitSound, DisconnectsPast
<1>8. NoQueueSkipping /\ InQueueCleared
  BY <1>4 DEF NoQueueSkipping, InQueueCleared
<1> QED BY <1>2, <1>6, <1>7, <1>8 DEF SessInv

\* The lists are what they were, and each session is as the lists need it.
LEMMA SameLists ==
    ASSUME SessInv, TypeOK', UNCHANGED <<addSessQueue, sess, queue>>,
           \A s \in Sessions :
              /\ obj'[s].acct = obj[s].acct /\ obj'[s].admitted = obj[s].admitted
              /\ obj[s].sock # "open" => obj'[s].sock = obj[s].sock
              /\ obj'[s].inQueue = obj[s].inQueue
              /\ obj'[s].loginCb = obj[s].loginCb
              /\ obj'[s].loading = obj[s].loading
              /\ obj'[s].player = obj[s].player
    PROVE  /\ Owned' /\ QueueSound' /\ WaitingSound'
           /\ NoQueueSkipping' /\ InQueueCleared'
<1>1. /\ Listed(sess') = Listed(sess)
      /\ ToSet(queue') = ToSet(queue) /\ ToSet(addSessQueue') = ToSet(addSessQueue)
  OBVIOUS
<1>2. Owned'
  BY SessFacts DEF SessInv, Owned
<1>3. QueueSound'
  BY SessFacts DEF SessInv, QueueSound
<1>4. WaitingSound'
  BY SessFacts DEF SessInv, WaitingSound, Untouched
<1>5. \A s \in Listed(sess) : obj[s].sock = "kicked" => obj'[s].sock = "kicked"
  BY SessFacts
<1>6. NoQueueSkipping'
  BY <1>5, SessFacts DEF SessInv, NoQueueSkipping
<1>7. InQueueCleared'
  BY <1>5, SessFacts DEF SessInv, InQueueCleared
<1> QED BY <1>2, <1>3, <1>4, <1>6, <1>7

\* A network thread hands over a new session.
LEMMA AddSessionStep ==
    ASSUME SessInv, NEW s \in Sessions, NEW a \in Accounts, AddSession(s, a)
    PROVE  SessInv'
<1>1. /\ obj[s].acct = None
      /\ obj' = [obj EXCEPT ![s] = NewSession(a)]
      /\ addSessQueue' = Append(addSessQueue, s)
      /\ UNCHANGED <<worldVars, listVars, confVars, disconnects>>
  BY DEF AddSession
<1>2. s \notin Listed(sess) /\ s \notin ToSet(addSessQueue) /\ s \notin ToSet(queue)
  BY <1>1, SessFacts DEF SessInv, Owned, QueueSound, WaitingSound, Untouched
<1>3. /\ addSessQueue' \in Seq(Sessions) /\ Distinct(addSessQueue')
      /\ ToSet(addSessQueue') = ToSet(addSessQueue) \cup {s}
  BY <1>1, <1>2, Pushed DEF SessInv, TypeOK, WaitingSound
<1>4. /\ obj' \in [Sessions -> SessionObject] /\ Untouched(obj'[s])
      /\ \A x \in Sessions : x # s => obj'[x] = obj[x]
  BY <1>1, NewFields, SessFacts DEF SessInv, TypeOK, Untouched
<1>5. TypeOK'
  BY <1>1, <1>3, <1>4 DEF SessInv, TypeOK, worldVars, listVars, confVars
<1>6. Owned'
  BY <1>1, <1>2, <1>4, SessFacts DEF SessInv, Owned, listVars
<1>7. QueueSound'
  BY <1>1, <1>2, <1>4, SessFacts DEF SessInv, QueueSound, listVars
<1>8. WaitingSound'
  BY <1>1, <1>2, <1>3, <1>4, SessFacts DEF SessInv, WaitingSound, listVars
<1>9. VisitSound' /\ DisconnectsPast'
  BY <1>1 DEF SessInv, VisitSound, DisconnectsPast, worldVars, listVars, confVars
<1>10. NoQueueSkipping' /\ InQueueCleared'
  BY <1>1, <1>2, <1>4, SessFacts DEF SessInv, NoQueueSkipping, InQueueCleared, listVars
<1> QED BY <1>5, <1>6, <1>7, <1>8, <1>9, <1>10 DEF SessInv

\* A socket is closed.
LEMMA LoseSocketStep ==
    ASSUME SessInv, NEW s \in Sessions, LoseSocket(s)
    PROVE  SessInv'
<1>1. /\ obj[s].sock = "open"
      /\ obj' = [obj EXCEPT ![s].sock = "closed"]
      /\ UNCHANGED <<worldVars, addSessQueue, listVars, confVars, disconnects>>
  BY DEF LoseSocket
<1>2. obj \in [Sessions -> SessionObject]
  BY DEF SessInv, TypeOK
<1>3. obj' \in [Sessions -> SessionObject]
  BY <1>1, <1>2 DEF SessionObject
<1>4. TypeOK' /\ VisitSound' /\ DisconnectsPast'
  BY <1>1, <1>3 DEF SessInv, TypeOK, VisitSound, DisconnectsPast,
                    worldVars, listVars, confVars
<1>5. \A x \in Sessions :
         /\ obj'[x].acct = obj[x].acct /\ obj'[x].admitted = obj[x].admitted
         /\ obj[x].sock # "open" => obj'[x].sock = obj[x].sock
         /\ obj'[x].inQueue = obj[x].inQueue
         /\ obj'[x].loginCb = obj[x].loginCb
         /\ obj'[x].loading = obj[x].loading
         /\ obj'[x].player = obj[x].player
  BY <1>1, <1>2 DEF SessionObject
<1> QED BY <1>1, <1>4, <1>5, SameLists DEF SessInv, listVars

\* AddSession_ refuses a session.
LEMMA RefuseSessionStep ==
    ASSUME SessInv, RefuseSession
    PROVE  SessInv'
<1> DEFINE s == Head(addSessQueue)
<1>1. /\ addSessQueue # <<>>
      /\ obj' = [obj EXCEPT ![s] = Deleted]
      /\ addSessQueue' = Tail(addSessQueue)
      /\ UNCHANGED <<worldVars, listVars, confVars, disconnects>>
  BY DEF RefuseSession
<1>2. /\ addSessQueue' \in Seq(Sessions) /\ Distinct(addSessQueue')
      /\ s \in ToSet(addSessQueue) /\ s \in Sessions
      /\ ToSet(addSessQueue') = ToSet(addSessQueue) \ {s}
  BY <1>1, Popped DEF SessInv, TypeOK, WaitingSound
<1> HIDE DEF s
<1>3. s \notin Listed(sess) /\ s \notin ToSet(queue)
  BY <1>2 DEF SessInv, QueueSound, WaitingSound
<1>4. /\ obj' \in [Sessions -> SessionObject]
      /\ \A x \in Sessions : x # s => obj'[x] = obj[x]
  BY <1>1, <1>2, NewFields DEF SessInv, TypeOK, Deleted
<1>5. TypeOK'
  BY <1>1, <1>2, <1>4 DEF SessInv, TypeOK, worldVars, listVars, confVars
<1>6. Owned'
  BY <1>1, <1>3, <1>4, SessFacts DEF SessInv, Owned, listVars
<1>7. QueueSound'
  BY <1>1, <1>3, <1>4, SessFacts DEF SessInv, QueueSound, listVars
<1>8. WaitingSound'
  BY <1>1, <1>2, <1>4, SessFacts DEF SessInv, WaitingSound, listVars
<1>9. VisitSound' /\ DisconnectsPast'
  BY <1>1 DEF SessInv, VisitSound, DisconnectsPast, worldVars, listVars, confVars
<1>10. NoQueueSkipping' /\ InQueueCleared'
  BY <1>1, <1>3, <1>4, SessFacts DEF SessInv, NoQueueSkipping, InQueueCleared, listVars
<1> QED BY <1>5, <1>6, <1>7, <1>8, <1>9, <1>10 DEF SessInv

\* UpdateSessions begins its loop over m_sessions.
LEMMA StartVisitsStep ==
    ASSUME SessInv, StartVisits
    PROVE  SessInv'
<1>1. /\ wpc' = "visit" /\ visit' = {a \in Accounts : sess[a] # None}
      /\ UNCHANGED <<stopping, addSessQueue, listVars, confVars, disconnects, obj>>
  BY DEF StartVisits
<1>2. TypeOK' /\ VisitSound' /\ DisconnectsPast'
  BY <1>1 DEF SessInv, TypeOK, VisitSound, DisconnectsPast, listVars, confVars
<1> QED BY <1>1, <1>2, SameLists DEF SessInv, listVars

\* A session is updated and stays.
LEMMA UpdateSessionStep ==
    ASSUME SessInv, NEW a \in Accounts, UpdateSession(a)
    PROVE  SessInv'
<1> DEFINE s == sess[a]
<1>1. /\ wpc = "visit" /\ a \in visit /\ visit' = visit \ {a}
      /\ UNCHANGED <<wpc, stopping, addSessQueue, listVars, confVars, disconnects>>
  BY DEF UpdateSession
<1>2. PICK o \in Progress(obj[s]) :
         /\ ~SocketExpired(o)
         /\ obj' = [obj EXCEPT ![s] =
                      IF o.sock = "open" THEN o ELSE [o EXCEPT !.expire = @ - 1]]
  BY DEF UpdateSession
<1>3. s \in Sessions /\ obj[s] \in SessionObject /\ obj \in [Sessions -> SessionObject]
  BY <1>1, SessFacts DEF SessInv, VisitSound, TypeOK
<1>4. s \in Listed(sess)
  BY <1>3, SessFacts
<1> HIDE DEF s
<1> DEFINE p == obj'[s]
<1>5. /\ p \in SessionObject
      /\ p.acct = o.acct /\ p.sock = o.sock /\ p.admitted = o.admitted
      /\ p.inQueue = o.inQueue /\ p.loginCb = o.loginCb
      /\ p.loading = o.loading /\ p.player = o.player
  <2>1. o \in SessionObject
    BY <1>3, ProgressFields
  <2>2. o.sock # "open" => o.expire - 1 \in 0..ExpireTicks
    BY <1>2, <2>1, SessionAssumption DEF SocketExpired, SessionObject
  <2>3. p = IF o.sock = "open" THEN o ELSE [o EXCEPT !.expire = @ - 1]
    BY <1>2, <1>3
  <2> QED BY <2>1, <2>2, <2>3 DEF SessionObject
<1>6. /\ p.acct = obj[s].acct /\ p.sock = obj[s].sock
      /\ p.admitted = obj[s].admitted
      /\ p.inQueue => obj[s].inQueue
      /\ obj[s].inQueue /\ ~obj[s].loginCb => p.inQueue
      /\ p.loginCb => obj[s].loginCb
      /\ p.inQueue /\ obj[s].loginCb => p.loginCb
      /\ p.loading => obj[s].loading \/ (~obj[s].inQueue /\ obj[s].sock = "open")
      /\ p.player => obj[s].player \/ obj[s].loading
  BY <1>2, <1>3, <1>5, ProgressFields
<1>7. /\ obj' \in [Sessions -> SessionObject]
      /\ \A x \in Sessions : x # s => obj'[x] = obj[x]
  BY <1>2, <1>3, <1>5
<1> HIDE DEF p
<1>8. TypeOK' /\ VisitSound' /\ DisconnectsPast'
  BY <1>1, <1>7 DEF SessInv, TypeOK, VisitSound, DisconnectsPast, listVars, confVars
<1>9. Owned'
  <2> SUFFICES ASSUME NEW b \in Accounts, sess'[b] # None
               PROVE  obj'[sess'[b]].acct = b
    BY DEF Owned
  <2>1. sess'[b] \in Sessions /\ obj[sess'[b]].acct = b
    BY <1>1, SessFacts DEF SessInv, Owned, listVars
  <2> QED BY <1>6, <1>7, <2>1 DEF p
<1>10. QueueSound'
  <2>1. \A x \in ToSet(queue) :
           obj'[x].inQueue /\ obj'[x].admitted = "no" /\ ~obj'[x].loginCb
    BY <1>6, <1>7, SessFacts DEF SessInv, QueueSound, p
  <2> QED BY <1>1, <2>1 DEF SessInv, QueueSound, listVars
<1>11. WaitingSound'
  BY <1>1, <1>4, <1>7, SessFacts DEF SessInv, WaitingSound, listVars
<1>12. NoQueueSkipping'
  <2> SUFFICES ASSUME NEW x \in Listed(sess)
               PROVE  /\ obj'[x].loading \/ obj'[x].player => obj'[x].admitted # "no"
                      /\ x \in ToSet(queue) => obj'[x].inQueue /\ obj'[x].admitted = "no"
                      /\ x \notin ToSet(queue) /\ obj'[x].admitted = "no"
                            => obj'[x].sock = "kicked"
    BY <1>1 DEF NoQueueSkipping, listVars
  <2>1. /\ x \in Sessions
        /\ obj[x].loading \/ obj[x].player => obj[x].admitted # "no"
        /\ x \in ToSet(queue) => /\ obj[x].inQueue /\ obj[x].admitted = "no"
                                 /\ ~obj[x].loginCb
        /\ x \notin ToSet(queue) /\ obj[x].admitted = "no" => obj[x].sock = "kicked"
    BY SessFacts DEF SessInv, NoQueueSkipping, QueueSound
  <2>2. CASE x = s
    BY <2>1, <2>2, <1>6 DEF p
  <2>3. CASE x # s
    BY <2>1, <2>3, <1>7
  <2> QED BY <2>2, <2>3
<1>13. InQueueCleared'
  <2> SUFFICES ASSUME NEW x \in Listed(sess), obj'[x].inQueue, x \notin ToSet(queue)
               PROVE  obj'[x].loginCb \/ obj'[x].sock = "kicked"
    BY <1>1 DEF InQueueCleared, listVars
  <2>1. x \in Sessions
    BY SessFacts
  <2>2. CASE x = s
    BY <2>2, <1>6 DEF p, SessInv, InQueueCleared
  <2>3. CASE x # s
    BY <2>1, <2>3, <1>7 DEF SessInv, InQueueCleared
  <2> QED BY <2>2, <2>3
<1> QED BY <1>8, <1>9, <1>10, <1>11, <1>12, <1>13 DEF SessInv

\* Kicking sessions marks their sockets and nothing else.
LEMMA Kicked ==
    ASSUME SessInv, NEW A \in SUBSET Accounts, Kick(A)
    PROVE  /\ obj' \in [Sessions -> SessionObject]
           /\ \A x \in Sessions :
                 /\ obj'[x].acct = obj[x].acct /\ obj'[x].admitted = obj[x].admitted
                 /\ obj'[x].inQueue = obj[x].inQueue
                 /\ obj'[x].loginCb = obj[x].loginCb
                 /\ obj'[x].loading = obj[x].loading
                 /\ obj'[x].player = obj[x].player
                 /\ obj'[x].sock \in {obj[x].sock, "kicked"}
           /\ \A a \in A : sess[a] # None => obj'[sess[a]].sock = "kicked"
<1> DEFINE K == {sess[a] : a \in A}
<1>1. obj \in [Sessions -> SessionObject]
  BY DEF SessInv, TypeOK
<1>2. obj' = [s \in Sessions |-> IF s \in K THEN [obj[s] EXCEPT !.sock = "kicked"]
                                            ELSE obj[s]]
  BY DEF Kick
<1>3. \A a \in A : sess[a] \in K
  OBVIOUS
<1> HIDE DEF K
<1>4. \A o \in SessionObject : [o EXCEPT !.sock = "kicked"] \in SessionObject
  BY DEF SessionObject
<1>5. obj' \in [Sessions -> SessionObject]
  BY <1>1, <1>2, <1>4
<1>6. \A a \in A : sess[a] # None => obj'[sess[a]].sock = "kicked"
  <2> SUFFICES ASSUME NEW a \in A, sess[a] # None PROVE obj'[sess[a]].sock = "kicked"
    OBVIOUS
  <2>1. sess[a] \in Sessions /\ obj[sess[a]] \in SessionObject
    BY <1>1, SessFacts
  <2> QED BY <1>2, <1>3, <2>1 DEF SessionObject
<1>7. ASSUME NEW x \in Sessions
      PROVE  /\ obj'[x].acct = obj[x].acct /\ obj'[x].admitted = obj[x].admitted
             /\ obj'[x].inQueue = obj[x].inQueue
             /\ obj'[x].loginCb = obj[x].loginCb
             /\ obj'[x].loading = obj[x].loading
             /\ obj'[x].player = obj[x].player
             /\ obj'[x].sock \in {obj[x].sock, "kicked"}
  <2>1. obj[x] \in SessionObject
    BY <1>1
  <2>2. obj'[x] = IF x \in K THEN [obj[x] EXCEPT !.sock = "kicked"] ELSE obj[x]
    BY <1>2
  <2> QED BY <2>1, <2>2 DEF SessionObject
<1> QED BY <1>5, <1>6, <1>7

\* Sessions are kicked.
LEMMA KickSessionsStep ==
    ASSUME SessInv, NEW A \in SUBSET Accounts, KickSessions(A)
    PROVE  SessInv'
<1>1. Kick(A) /\ UNCHANGED <<worldVars, addSessQueue, listVars, confVars, disconnects>>
  BY DEF KickSessions
<1>2. /\ obj' \in [Sessions -> SessionObject]
      /\ \A x \in Sessions :
            /\ obj'[x].acct = obj[x].acct /\ obj'[x].admitted = obj[x].admitted
            /\ obj'[x].inQueue = obj[x].inQueue
            /\ obj'[x].loginCb = obj[x].loginCb
            /\ obj'[x].loading = obj[x].loading
            /\ obj'[x].player = obj[x].player
            /\ obj'[x].sock \in {obj[x].sock, "kicked"}
  BY <1>1, Kicked
<1>3. /\ Listed(sess') = Listed(sess) /\ sess' = sess /\ queue' = queue
      /\ ToSet(addSessQueue') = ToSet(addSessQueue) /\ addSessQueue' = addSessQueue
  BY <1>1 DEF listVars
<1>4. TypeOK' /\ VisitSound' /\ DisconnectsPast'
  BY <1>1, <1>2 DEF SessInv, TypeOK, VisitSound, DisconnectsPast,
                    worldVars, listVars, confVars
<1>5. Owned' /\ QueueSound' /\ WaitingSound'
  BY <1>2, <1>3, SessFacts
  DEF SessInv, Owned, QueueSound, WaitingSound, Untouched
<1>6. NoQueueSkipping' /\ InQueueCleared'
  BY <1>2, <1>3, SessFacts DEF SessInv, NoQueueSkipping, InQueueCleared
<1> QED BY <1>4, <1>5, <1>6 DEF SessInv

\* KickAll empties the queue and kicks everybody.
LEMMA KickAllStep ==
    ASSUME SessInv, KickAll
    PROVE  SessInv'
<1>1. /\ wpc = "idle" /\ wpc' = "add" /\ stopping' = TRUE
      /\ queue' = <<>> /\ Kick(Accounts)
      /\ UNCHANGED <<visit, addSessQueue, sess, confVars, disconnects>>
  BY DEF KickAll
<1>2. /\ obj' \in [Sessions -> SessionObject]
      /\ \A x \in Sessions :
            /\ obj'[x].acct = obj[x].acct /\ obj'[x].admitted = obj[x].admitted
            /\ obj'[x].inQueue = obj[x].inQueue
            /\ obj'[x].loginCb = obj[x].loginCb
            /\ obj'[x].loading = obj[x].loading
            /\ obj'[x].player = obj[x].player
            /\ obj'[x].sock \in {obj[x].sock, "kicked"}
      /\ \A a \in Accounts : sess[a] # None => obj'[sess[a]].sock = "kicked"
  BY <1>1, Kicked
<1>3. \A x \in Listed(sess) : obj'[x].sock = "kicked"
  BY <1>2, SessFacts
<1>4. /\ Listed(sess') = Listed(sess)
      /\ ToSet(addSessQueue') = ToSet(addSessQueue)
      /\ ToSet(queue') = {} /\ Len(queue') = 0 /\ queue' \in Seq(Sessions)
  BY <1>1 DEF ToSet
<1>5. TypeOK' /\ VisitSound' /\ DisconnectsPast'
  BY <1>1, <1>2, <1>4 DEF SessInv, TypeOK, VisitSound, DisconnectsPast, confVars
<1>6. Owned'
  BY <1>1, <1>2, SessFacts DEF SessInv, Owned
<1>7. QueueSound'
  BY <1>4 DEF QueueSound, Distinct
<1>8. WaitingSound'
  BY <1>1, <1>2, <1>4, SessFacts DEF SessInv, WaitingSound, Untouched
<1>9. NoQueueSkipping' /\ InQueueCleared'
  BY <1>1, <1>2, <1>3, <1>4, SessFacts DEF SessInv, NoQueueSkipping, InQueueCleared
<1> QED BY <1>5, <1>6, <1>7, <1>8, <1>9 DEF SessInv

\* What AddSession_ does to the account's old session.
OldRemoved(old) ==
    IF old = None THEN [found |-> FALSE, queue |-> queue, accept |-> None]
                  ELSE RemoveQueuedPlayer(old, sess, queue)

\* AddSession_ when the first waiting session s of account a takes the place of
\* old, with r the outcome of RemoveQueuedPlayer.
LEMMA AddSessionFacts ==
    ASSUME SessInv, AddSession_,
           NEW s, s = Head(addSessQueue), NEW a, a = obj[s].acct,
           NEW old, old = sess[a], NEW r, r = OldRemoved(old)
    PROVE  /\ s \in Sessions /\ s \notin Listed(sess) /\ Untouched(obj[s])
           /\ a \in Accounts /\ old \in Sessions \cup {None}
           /\ addSessQueue' \in Seq(Sessions) /\ Distinct(addSessQueue')
           /\ ToSet(addSessQueue') = ToSet(addSessQueue) \ {s}
           /\ sess' = [sess EXCEPT ![a] = s]
           /\ Listed(sess') = (Listed(sess) \ {old}) \cup {s}
           /\ r.found <=> old \in ToSet(queue)
           /\ r.queue \in Seq(Sessions) /\ Distinct(r.queue)
           /\ r.accept = None \/ r.accept \in ToSet(queue) \ {old}
           /\ ToSet(r.queue) = ToSet(queue) \ {old, r.accept}
<1>1. /\ wpc = "add" /\ addSessQueue # <<>>
      /\ addSessQueue' = Tail(addSessQueue)
      /\ sess' = [sess EXCEPT ![a] = s]
  BY DEF AddSession_
<1>2. /\ addSessQueue' \in Seq(Sessions) /\ Distinct(addSessQueue')
      /\ s \in ToSet(addSessQueue) /\ s \in Sessions
      /\ ToSet(addSessQueue') = ToSet(addSessQueue) \ {s}
  BY <1>1, Popped DEF SessInv, TypeOK, WaitingSound
<1>3. s \notin Listed(sess) /\ Untouched(obj[s])
  BY <1>2 DEF SessInv, WaitingSound
<1>4. a \in Accounts
  BY <1>2, <1>3 DEF SessInv, TypeOK, SessionObject, Untouched
<1>5. old \in Sessions \cup {None} /\ sess \in [Accounts -> Sessions \cup {None}]
  BY <1>4 DEF SessInv, TypeOK
<1>6. Listed(sess') = (Listed(sess) \ {old}) \cup {s}
  <2>1. sess' \in [Accounts -> Sessions \cup {None}]
    BY <1>1, <1>2, <1>5
  <2>2. \A x : x \in Listed(sess') <=> x \in Sessions /\ \E b \in Accounts : sess'[b] = x
    BY <2>1, ListedIs
  <2>3. sess'[a] = s /\ \A b \in Accounts : b # a => sess'[b] = sess[b]
    BY <1>1, <1>4, <1>5
  <2>4. ASSUME NEW x \in Listed(sess') PROVE x \in (Listed(sess) \ {old}) \cup {s}
    <3>1. PICK b \in Accounts : sess'[b] = x /\ x \in Sessions
      BY <2>2
    <3>2. CASE b = a
      BY <2>3, <3>1, <3>2
    <3>3. CASE b # a
      <4>1. sess[b] = x /\ x # None
        BY <2>3, <3>1, <3>3, SessFacts
      <4>2. x # old
        BY <4>1, <1>4, <3>3, SessFacts
      <4> QED BY <4>1, <4>2, <3>1, SessFacts
    <3> QED BY <3>2, <3>3
  <2>5. ASSUME NEW x \in (Listed(sess) \ {old}) \cup {s} PROVE x \in Listed(sess')
    <3>1. CASE x = s
      BY <3>1, <1>2, <1>4, <2>2, <2>3
    <3>2. CASE x # s
      <4>1. PICK b \in Accounts : sess[b] = x /\ x \in Sessions
        BY <2>5, <3>2, SessFacts
      <4>2. b # a
        BY <4>1, <2>5, <3>2
      <4> QED BY <4>1, <4>2, <2>2, <2>3
    <3> QED BY <3>1, <3>2
  <2> QED BY <2>4, <2>5
<1>7. queue \in Seq(Sessions) /\ Distinct(queue) /\ ToSet(queue) \subseteq Sessions
  BY SessFacts DEF SessInv, TypeOK, QueueSound
<1>8. /\ r.found <=> old \in ToSet(queue)
      /\ r.queue \in Seq(Sessions) /\ Distinct(r.queue)
      /\ r.accept = None \/ r.accept \in ToSet(queue) \ {old}
      /\ ToSet(r.queue) = ToSet(queue) \ {old, r.accept}
  <2>1. CASE old = None
    <3>1. r = [found |-> FALSE, queue |-> queue, accept |-> None]
      BY <2>1 DEF OldRemoved
    <3>2. None \notin ToSet(queue)
      BY <1>7, SessFacts
    <3>3. ToSet(queue) \ {old, r.accept} = ToSet(queue)
      BY <2>1, <3>1, <3>2
    <3>4. r.found = FALSE /\ r.queue = queue /\ r.accept = None
      BY <3>1
    <3>5. r.found <=> old \in ToSet(queue)
      BY <2>1, <3>2, <3>4
    <3> QED BY <1>7, <3>3, <3>4, <3>5
  <2>2. CASE old # None
    <3>1. r = RemoveQueuedPlayer(old, sess, queue)
      BY <2>2 DEF OldRemoved
    <3>2. LET x == RemoveQueuedPlayer(old, sess, queue)
          IN  /\ x.found <=> old \in ToSet(queue)
              /\ x.queue \in Seq(Sessions) /\ Distinct(x.queue)
              /\ x.accept = None \/ x.accept \in ToSet(queue) \ {old}
              /\ ToSet(x.queue) = ToSet(queue) \ {old, x.accept}
      BY ONLY <1>7, RemovedFromQueue
    <3> QED BY ONLY <3>1, <3>2
  <2> QED BY <2>1, <2>2
<1> QED BY <1>1, <1>2, <1>3, <1>4, <1>5, <1>6, <1>8

\* The new session s is queued, or admitted in some way; n is the count that
\* AddSession_ compares with the limit.
Added(s, old, r, n, enqueue, how, age) ==
    /\ enqueue => limit > 0 /\ n >= limit
    /\ how = "slot" <=> ~(limit > 0 /\ n >= limit)
    /\ queue' = IF enqueue THEN Append(r.queue, s) ELSE r.queue
    /\ obj' = [x \in Sessions |-> obj'[x]]
    /\ obj'[s] = IF enqueue THEN [obj[s] EXCEPT !.inQueue = TRUE]
                            ELSE Admit(obj[s], how, age)
    /\ \A x \in Sessions \ {s} :
          obj'[x] = IF x = r.accept THEN Admit(obj[x], "slot", 0)
                    ELSE IF x = old THEN Deleted ELSE obj[x]

\* Whether the new session is queued, and how it is admitted if it is not.
LEMMA AddSessionOutcome ==
    ASSUME SessInv, AddSession_,
           NEW s, s = Head(addSessQueue), NEW a, a = obj[s].acct,
           NEW old, old = sess[a], NEW r, r = OldRemoved(old),
           NEW n, n = Cardinality(Listed(sess')) - (IF r.found THEN 0 ELSE 1)
    PROVE  \E enqueue \in BOOLEAN, how \in {"slot", "gm", "tolerance"},
              age \in 0..MaxTime : Added(s, old, r, n, enqueue, how, age)
<1> DEFINE full    == limit > 0 /\ n >= limit
           enqueue == full /\ a \notin GMs /\ ~HasRecentlyDisconnected(a)
           how     == IF ~full THEN "slot"
                      ELSE IF a \in GMs THEN "gm" ELSE "tolerance"
           age     == IF how = "tolerance" THEN now - disconnects[a] ELSE 0
<1>1. queue' = IF enqueue THEN Append(r.queue, s) ELSE r.queue
  BY DEF AddSession_, OldRemoved
<1>2. obj' = [x \in Sessions |->
                IF x = s
                  THEN IF enqueue THEN [obj[x] EXCEPT !.inQueue = TRUE]
                                  ELSE Admit(obj[x], how, age)
                ELSE IF x = r.accept THEN Admit(obj[x], "slot", 0)
                ELSE IF x = old THEN Deleted ELSE obj[x]]
  BY DEF AddSession_, OldRemoved
<1>3. a \in Accounts /\ s \in Sessions
  BY AddSessionFacts
<1>4. how \in {"slot", "gm", "tolerance"} /\ (how = "slot" <=> ~full)
  OBVIOUS
<1>5. ~enqueue => age \in 0..MaxTime
  <2>1. 0 \in 0..MaxTime
    BY SessionAssumption
  <2>2. CASE how = "tolerance" /\ ~enqueue
    <3>1. HasRecentlyDisconnected(a)
      BY <2>2
    <3>2. /\ disconnects[a] \in 0..MaxTime /\ now \in 0..MaxTime
          /\ disconnects[a] <= now
      BY <1>3, <3>1 DEF HasRecentlyDisconnected, SessInv, DisconnectsPast, TypeOK
    <3> QED BY <2>2, <3>2, SessionAssumption
  <2>3. CASE how # "tolerance"
    BY <2>1, <2>3
  <2> QED BY <2>2, <2>3
<1> HIDE DEF how, age
<1>6. /\ obj' = [x \in Sessions |-> obj'[x]]
      /\ obj'[s] = IF enqueue THEN [obj[s] EXCEPT !.inQueue = TRUE]
                              ELSE Admit(obj[s], how, age)
      /\ \A x \in Sessions \ {s} :
            obj'[x] = IF x = r.accept THEN Admit(obj[x], "slot", 0)
                      ELSE IF x = old THEN Deleted ELSE obj[x]
  BY <1>2, <1>3
<1>7. CASE enqueue
  <2>1. 0 \in 0..MaxTime /\ TRUE \in BOOLEAN
    BY SessionAssumption
  <2>2. Added(s, old, r, n, TRUE, how, 0)
    BY <1>1, <1>4, <1>6, <1>7 DEF Added
  <2> QED BY <1>4, <2>1, <2>2
<1>8. CASE ~enqueue
  <2>1. Added(s, old, r, n, FALSE, how, age)
    BY <1>1, <1>4, <1>6, <1>8 DEF Added
  <2>2. FALSE \in BOOLEAN
    OBVIOUS
  <2> QED BY <1>4, <1>5, <1>8, <2>1, <2>2
<1> QED BY <1>7, <1>8

\* AddSession_ lets a session in, with or without the queue.
LEMMA AddSession_Step ==
    ASSUME SessInv, AddSession_
    PROVE  SessInv'
<1>1. PICK s : s = Head(addSessQueue)
  OBVIOUS
<1>2. PICK a : a = obj[s].acct
  OBVIOUS
<1>3. PICK old : old = sess[a]
  OBVIOUS
<1>4. PICK r : r = OldRemoved(old)
  OBVIOUS
<1>5. PICK n : n = Cardinality(Listed(sess')) - (IF r.found THEN 0 ELSE 1)
  OBVIOUS
<1>6. /\ s \in Sessions /\ s \notin Listed(sess) /\ Untouched(obj[s])
      /\ a \in Accounts /\ old \in Sessions \cup {None}
      /\ addSessQueue' \in Seq(Sessions) /\ Distinct(addSessQueue')
      /\ ToSet(addSessQueue') = ToSet(addSessQueue) \ {s}
      /\ sess' = [sess EXCEPT ![a] = s]
      /\ Listed(sess') = (Listed(sess) \ {old}) \cup {s}
      /\ r.queue \in Seq(Sessions) /\ Distinct(r.queue)
      /\ r.accept = None \/ r.accept \in ToSet(queue) \ {old}
      /\ ToSet(r.queue) = ToSet(queue) \ {old, r.accept}
  BY <1>1, <1>2, <1>3, <1>4, AddSessionFacts, SMTT(30)
<1>a. PICK enqueue \in BOOLEAN, how \in {"slot", "gm", "tolerance"},
           age \in 0..MaxTime : Added(s, old, r, n, enqueue, how, age)
  BY <1>1, <1>2, <1>3, <1>4, <1>5, AddSessionOutcome
<1>7. /\ queue' = IF enqueue THEN Append(r.queue, s) ELSE r.queue
      /\ obj' = [x \in Sessions |-> obj'[x]]
      /\ obj'[s] = IF enqueue THEN [obj[s] EXCEPT !.inQueue = TRUE]
                              ELSE Admit(obj[s], how, age)
      /\ \A x \in Sessions \ {s} :
            obj'[x] = IF x = r.accept THEN Admit(obj[x], "slot", 0)
                      ELSE IF x = old THEN Deleted ELSE obj[x]
  BY <1>a DEF Added
<1>8. /\ wpc = "add"
      /\ UNCHANGED <<worldVars, confVars, disconnects>>
  BY DEF AddSession_
<1>9. /\ sess \in [Accounts -> Sessions \cup {None}]
      /\ obj \in [Sessions -> SessionObject]
      /\ ToSet(queue) \subseteq Listed(sess)
      /\ \A x \in Listed(sess) : x \in Sessions
      /\ s \notin ToSet(r.queue) /\ s # old /\ s # r.accept
      /\ 0 \in 0..MaxTime
  BY <1>3, <1>6, SessFacts, SessionAssumption DEF SessInv, TypeOK, QueueSound
<1>10. /\ queue' \in Seq(Sessions) /\ Distinct(queue')
       /\ ToSet(queue') = ToSet(r.queue) \cup (IF enqueue THEN {s} ELSE {})
  BY <1>6, <1>7, <1>9, Pushed
<1>11. /\ obj'[s] \in SessionObject
       /\ obj'[s].acct = a /\ obj'[s].sock = obj[s].sock
       /\ ~obj'[s].loading /\ ~obj'[s].player
       /\ enqueue => /\ obj'[s].inQueue /\ obj'[s].admitted = "no"
                     /\ ~obj'[s].loginCb
       /\ ~enqueue => obj'[s].admitted # "no" /\ ~obj'[s].inQueue
  <2>1. obj[s] \in SessionObject
    BY <1>6, <1>9
  <2>2. CASE enqueue
    <3>1. obj'[s] = [obj[s] EXCEPT !.inQueue = TRUE]
      BY <1>7, <2>2
    <3> QED BY <1>2, <1>6, <2>1, <2>2, <3>1 DEF SessionObject, Untouched
  <2>3. CASE ~enqueue
    <3>1. obj'[s] = Admit(obj[s], how, age)
      BY <1>7, <2>3
    <3> QED BY <1>2, <1>6, <2>1, <2>3, <3>1, AdmitFields, SMTT(30) DEF Untouched
  <2> QED BY <2>2, <2>3
<1>12. ASSUME r.accept # None
       PROVE  /\ obj'[r.accept] \in SessionObject
              /\ obj'[r.accept].acct = obj[r.accept].acct
              /\ obj'[r.accept].loading = obj[r.accept].loading
              /\ obj'[r.accept].loginCb /\ obj'[r.accept].admitted # "no"
  <2>1. r.accept \in Sessions \ {s} /\ obj[r.accept] \in SessionObject
    BY <1>6, <1>9, <1>12
  <2>2. obj'[r.accept] = Admit(obj[r.accept], "slot", 0)
    BY <1>7, <2>1
  <2>3. "slot" \in {"slot", "gm", "tolerance"} /\ "slot" # "no"
    OBVIOUS
  <2> DEFINE p == Admit(obj[r.accept], "slot", 0)
  <2>4. /\ p \in SessionObject /\ p.acct = obj[r.accept].acct
        /\ p.loading = obj[r.accept].loading /\ p.loginCb /\ p.admitted = "slot"
    <3> DEFINE o == obj[r.accept]
    <3>1. o \in SessionObject
      BY <2>1
    <3> HIDE DEF o
    <3>2. Admit(o, "slot", 0) \in SessionObject
      BY <1>9, <2>3, <3>1, AdmitFields
    <3>3. /\ Admit(o, "slot", 0).acct = o.acct
          /\ Admit(o, "slot", 0).loading = o.loading
          /\ Admit(o, "slot", 0).loginCb /\ Admit(o, "slot", 0).admitted = "slot"
      BY <1>9, <2>3, <3>1, AdmitFields
    <3> QED BY <3>2, <3>3 DEF o
  <2> QED BY <2>2, <2>3, <2>4
<1>13. obj' \in [Sessions -> SessionObject]
  <2>1. ASSUME NEW x \in Sessions PROVE obj'[x] \in SessionObject
    <3>1. CASE x = s
      BY <3>1, <1>11
    <3>2. CASE x = r.accept
      BY <3>2, <1>6, <1>9, <1>12, SessFacts
    <3>3. CASE x # s /\ x # r.accept
      BY <3>3, <1>7, <1>9, NewFields DEF Deleted
    <3> QED BY <3>1, <3>2, <3>3
  <2> QED BY <1>7, <2>1
<1>14. TypeOK'
  BY <1>6, <1>8, <1>10, <1>13 DEF SessInv, TypeOK, worldVars, confVars
<1>15. VisitSound' /\ DisconnectsPast'
  BY <1>8 DEF SessInv, VisitSound, DisconnectsPast, worldVars, confVars
\* a session that keeps its place
<1>16. \A x \in Sessions : x # s /\ x # old /\ x # r.accept => obj'[x] = obj[x]
  BY <1>7
<1>17. Owned'
  <2> SUFFICES ASSUME NEW b \in Accounts, sess'[b] # None
               PROVE  obj'[sess'[b]].acct = b
    BY DEF Owned
  <2>1. CASE b = a
    BY <2>1, <1>6, <1>9, <1>11
  <2>2. CASE b # a
    <3>1. sess'[b] = sess[b] /\ sess[b] \in Sessions /\ obj[sess[b]].acct = b
      BY <2>2, <1>6, <1>9, SessFacts DEF SessInv, Owned
    <3>2. sess[b] # old /\ sess[b] # s
      BY <1>3, <1>6, <2>2, <3>1, SessFacts
    <3>3. CASE sess[b] = r.accept
      BY <3>1, <3>3, <1>12, SessFacts
    <3>4. CASE sess[b] # r.accept
      BY <3>1, <3>2, <3>4, <1>16
    <3> QED BY <3>3, <3>4
  <2> QED BY <2>1, <2>2
<1>18. \A x \in ToSet(r.queue) : obj'[x] = obj[x] /\ x \in ToSet(queue) /\ x \in Sessions
  BY <1>6, <1>9, <1>16
<1>19. QueueSound'
  <2>1. ToSet(queue') \subseteq Listed(sess')
    BY <1>6, <1>9, <1>10
  <2>2. \A x \in ToSet(queue') :
           obj'[x].inQueue /\ obj'[x].admitted = "no" /\ ~obj'[x].loginCb
    BY <1>10, <1>11, <1>18 DEF SessInv, QueueSound
  <2> QED BY <1>10, <2>1, <2>2 DEF QueueSound
<1>20. WaitingSound'
  <2> SUFFICES ASSUME NEW x \in ToSet(addSessQueue')
               PROVE  Untouched(obj'[x]) /\ x \notin Listed(sess')
    BY <1>6 DEF WaitingSound
  <2>1. x \in Sessions /\ x # s /\ Untouched(obj[x]) /\ x \notin Listed(sess)
    BY <1>6, SessFacts DEF SessInv, WaitingSound
  <2>2. x # old /\ x # r.accept
    BY <1>3, <1>6, <1>9, <2>1, SessFacts
  <2> QED BY <1>6, <1>16, <2>1, <2>2
<1>21. ASSUME NEW x \in Listed(sess')
       PROVE  /\ obj'[x].loading \/ obj'[x].player => obj'[x].admitted # "no"
              /\ x \in ToSet(queue') => obj'[x].inQueue /\ obj'[x].admitted = "no"
              /\ x \notin ToSet(queue') /\ obj'[x].admitted = "no"
                    => obj'[x].sock = "kicked"
              /\ obj'[x].inQueue /\ x \notin ToSet(queue')
                    => obj'[x].loginCb \/ obj'[x].sock = "kicked"
  <2>1. CASE x = s
    BY <2>1, <1>9, <1>10, <1>11
  <2>2. CASE x = r.accept
    <3>1. x # None /\ x \notin ToSet(r.queue) /\ x # s
      BY <2>2, <1>6, <1>9, SessFacts
    <3> QED BY <2>2, <3>1, <1>10, <1>12
  <2>3. CASE x # s /\ x # r.accept
    <3>1. x \in Listed(sess) /\ x # old /\ x \in Sessions
      BY <1>6, <1>9, <2>3
    <3>2. x \in ToSet(queue') <=> x \in ToSet(queue)
      BY <1>6, <1>10, <2>3, <3>1
    <3>3. obj'[x] = obj[x]
      BY <1>16, <2>3, <3>1
    <3> QED BY <3>1, <3>2, <3>3 DEF SessInv, NoQueueSkipping, InQueueCleared
  <2> QED BY <2>1, <2>2, <2>3
<1>22. NoQueueSkipping' /\ InQueueCleared'
  BY <1>21 DEF NoQueueSkipping, InQueueCleared
<1> QED BY <1>14, <1>15, <1>17, <1>19, <1>20, <1>22 DEF SessInv

\* RemoveSession of the session s of account a, with r1 and r2 the outcomes of
\* the two calls of RemoveQueuedPlayer.
LEMMA RemoveSessionFacts ==
    ASSUME SessInv, NEW a \in Accounts, RemoveSession(a),
           NEW s, s = sess[a],
           NEW r1, r1 = RemoveQueuedPlayer(s, sess, queue),
           NEW r2, r2 = RemoveQueuedPlayer(s, sess, r1.queue)
    PROVE  /\ s \in Listed(sess) /\ s \in Sessions
           /\ sess' = [sess EXCEPT ![a] = None]
           /\ Listed(sess') = Listed(sess) \ {s}
           /\ r1.found <=> s \in ToSet(queue)
           /\ r1.queue \in Seq(Sessions) /\ Distinct(r1.queue)
           /\ r1.accept = None \/ r1.accept \in ToSet(queue) \ {s}
           /\ ToSet(r1.queue) = ToSet(queue) \ {s, r1.accept}
           /\ r2.accept = None \/ r2.accept \in ToSet(r1.queue)
           /\ queue' = r2.queue
           /\ queue' \in Seq(Sessions) /\ Distinct(queue')
           /\ ToSet(queue') = ToSet(queue) \ {s, r1.accept, r2.accept}
           /\ obj' = [x \in Sessions |-> obj'[x]]
           /\ \A x \in Sessions :
                 obj'[x] = IF x = s THEN Deleted
                           ELSE IF x \in {r1.accept, r2.accept}
                             THEN Admit(obj[x], "slot", 0) ELSE obj[x]
<1>1. /\ wpc = "visit" /\ a \in visit
      /\ sess' = [sess EXCEPT ![a] = None]
  BY DEF RemoveSession
<1>2. queue' = r2.queue
  BY DEF RemoveSession
<1>3. obj' = [x \in Sessions |->
                IF x = s THEN Deleted
                ELSE IF x \in {r1.accept, r2.accept}
                  THEN Admit(obj[x], "slot", 0) ELSE obj[x]]
  BY DEF RemoveSession
<1>4. s \in Listed(sess) /\ s \in Sessions
  BY <1>1, SessFacts DEF SessInv, VisitSound
<1>5. Listed(sess') = Listed(sess) \ {s}
  <2>1. sess \in [Accounts -> Sessions \cup {None}]
    BY DEF SessInv, TypeOK
  <2>2. /\ sess' \in [Accounts -> Sessions \cup {None}]
        /\ sess'[a] = None /\ \A b \in Accounts : b # a => sess'[b] = sess[b]
    BY <1>1, <2>1
  <2>3. \A x : x \in Listed(sess') <=> x \in Sessions /\ \E b \in Accounts : sess'[b] = x
    BY <2>2, ListedIs
  <2>4. ASSUME NEW x \in Listed(sess') PROVE x \in Listed(sess) \ {s}
    <3>1. PICK b \in Accounts : sess'[b] = x /\ x \in Sessions
      BY <2>3
    <3>2. b # a /\ sess[b] = x /\ x # None
      BY <2>2, <3>1, SessFacts
    <3>3. x # s
      BY <3>2, SessFacts
    <3> QED BY <3>1, <3>2, <3>3, SessFacts
  <2>5. ASSUME NEW x \in Listed(sess) \ {s} PROVE x \in Listed(sess')
    <3>1. PICK b \in Accounts : sess[b] = x /\ x \in Sessions
      BY <2>5, SessFacts
    <3>2. b # a
      BY <3>1, <2>5
    <3> QED BY <3>1, <3>2, <2>2, <2>3
  <2> QED BY <2>4, <2>5
<1>6. queue \in Seq(Sessions) /\ Distinct(queue)
  BY DEF SessInv, TypeOK, QueueSound
<1>7. /\ r1.found <=> s \in ToSet(queue)
      /\ r1.queue \in Seq(Sessions) /\ Distinct(r1.queue)
      /\ r1.accept = None \/ r1.accept \in ToSet(queue) \ {s}
      /\ ToSet(r1.queue) = ToSet(queue) \ {s, r1.accept}
  BY <1>6, RemovedFromQueue
<1>8. /\ r2.queue \in Seq(Sessions) /\ Distinct(r2.queue)
      /\ r2.accept = None \/ r2.accept \in ToSet(r1.queue) \ {s}
      /\ ToSet(r2.queue) = ToSet(r1.queue) \ {s, r2.accept}
  BY <1>7, RemovedFromQueue
<1>9. /\ obj' = [x \in Sessions |-> obj'[x]]
      /\ \A x \in Sessions :
            obj'[x] = IF x = s THEN Deleted
                      ELSE IF x \in {r1.accept, r2.accept}
                        THEN Admit(obj[x], "slot", 0) ELSE obj[x]
  BY <1>3
<1>10. ToSet(queue') = ToSet(queue) \ {s, r1.accept, r2.accept}
  BY <1>2, <1>7, <1>8
<1> QED BY <1>1, <1>2, <1>4, <1>5, <1>7, <1>8, <1>9, <1>10

\* A session is removed, and its slot or its place in the queue passes on.
LEMMA RemoveSessionStep ==
    ASSUME SessInv, NEW a \in Accounts, RemoveSession(a)
    PROVE  SessInv'
<1>1. PICK s : s = sess[a]
  OBVIOUS
<1>2. PICK r1 : r1 = RemoveQueuedPlayer(s, sess, queue)
  OBVIOUS
<1>3. PICK r2 : r2 = RemoveQueuedPlayer(s, sess, r1.queue)
  OBVIOUS
<1> DEFINE acc == {r1.accept, r2.accept}
<1>4. /\ s \in Listed(sess) /\ s \in Sessions
      /\ sess' = [sess EXCEPT ![a] = None]
      /\ Listed(sess') = Listed(sess) \ {s}
      /\ queue' \in Seq(Sessions) /\ Distinct(queue')
      /\ \A x \in Sessions :
            obj'[x] = IF x = s THEN Deleted
                      ELSE IF x \in acc THEN Admit(obj[x], "slot", 0) ELSE obj[x]
      /\ obj' = [x \in Sessions |-> obj'[x]]
  BY <1>1, <1>2, <1>3, RemoveSessionFacts
<1>5. /\ ToSet(queue') = ToSet(queue) \ ({s} \cup acc)
      /\ \A x \in acc : x # None => x \in ToSet(queue) \ {s}
  BY <1>1, <1>2, <1>3, RemoveSessionFacts
<1> HIDE DEF acc
<1>6. /\ wpc = "visit" /\ visit' = visit \ {a}
      /\ UNCHANGED <<wpc, stopping, addSessQueue, confVars>>
      /\ disconnects' \in {disconnects, [disconnects EXCEPT ![a] = now]}
  BY DEF RemoveSession
<1>7. /\ sess \in [Accounts -> Sessions \cup {None}]
      /\ obj \in [Sessions -> SessionObject]
      /\ ToSet(queue) \subseteq Listed(sess)
      /\ \A x \in Listed(sess) : x \in Sessions
      /\ 0 \in 0..MaxTime /\ now \in 0..MaxTime
      /\ disconnects \in [Accounts -> 0..MaxTime \cup {None}]
  BY SessFacts, SessionAssumption DEF SessInv, TypeOK, QueueSound
<1>8. /\ obj'[s] = Deleted /\ obj'[s] \in SessionObject
      /\ \A x \in Sessions : x # s /\ x \notin acc => obj'[x] = obj[x]
  BY <1>4, NewFields DEF Deleted
<1>9. ASSUME NEW x \in Sessions, x \in acc
      PROVE  /\ obj'[x] \in SessionObject /\ obj'[x].acct = obj[x].acct
             /\ obj'[x].loginCb /\ obj'[x].admitted # "no"
  <2>1. x # s /\ obj[x] \in SessionObject
    BY <1>5, <1>7, <1>9, SessFacts
  <2>2. obj'[x] = Admit(obj[x], "slot", 0)
    BY <1>4, <1>9, <2>1
  <2>3. "slot" \in {"slot", "gm", "tolerance"} /\ "slot" # "no"
    OBVIOUS
  <2> DEFINE o == obj[x]
  <2>4. o \in SessionObject
    BY <2>1
  <2> HIDE DEF o
  <2>5. Admit(o, "slot", 0) \in SessionObject
    BY <1>7, <2>3, <2>4, AdmitFields
  <2>6. /\ Admit(o, "slot", 0).acct = o.acct
        /\ Admit(o, "slot", 0).loginCb /\ Admit(o, "slot", 0).admitted = "slot"
    BY <1>7, <2>3, <2>4, AdmitFields
  <2> QED BY <2>2, <2>3, <2>5, <2>6 DEF o
<1>10. obj' \in [Sessions -> SessionObject]
  <2>1. \A x \in Sessions : obj'[x] \in SessionObject
    BY <1>7, <1>8, <1>9
  <2> QED BY <1>4, <2>1
<1>11. disconnects' \in [Accounts -> 0..MaxTime \cup {None}] /\ DisconnectsPast'
  <2>1. \A b \in Accounts : disconnects'[b] \in {disconnects[b], now}
    BY <1>6, <1>7
  <2>2. disconnects' \in [Accounts -> 0..MaxTime \cup {None}]
    BY <1>6, <1>7
  <2>3. now' = now /\ now <= now
    BY <1>6, <1>7, SessionAssumption DEF confVars
  <2> QED BY <2>1, <2>2, <2>3 DEF SessInv, DisconnectsPast
<1>12. TypeOK'
  BY <1>4, <1>6, <1>7, <1>10, <1>11 DEF SessInv, TypeOK, confVars
<1>13. VisitSound'
  BY <1>4, <1>6, <1>7 DEF SessInv, VisitSound
<1>14. Owned'
  <2> SUFFICES ASSUME NEW b \in Accounts, sess'[b] # None
               PROVE  obj'[sess'[b]].acct = b
    BY DEF Owned
  <2>1. b # a /\ sess'[b] = sess[b] /\ sess[b] \in Sessions
    BY <1>4, <1>7, SessFacts
  <2>2. obj[sess[b]].acct = b /\ sess[b] # s
    BY <1>1, <2>1, SessFacts DEF SessInv, Owned
  <2> QED BY <1>8, <1>9, <2>1, <2>2
<1>15. QueueSound'
  <2>1. ToSet(queue') \subseteq Listed(sess')
    BY <1>4, <1>5, <1>7
  <2>2. \A x \in ToSet(queue') : x \in ToSet(queue) /\ obj'[x] = obj[x]
    BY <1>5, <1>7, <1>8
  <2> QED BY <1>4, <2>1, <2>2 DEF SessInv, QueueSound
<1>16. WaitingSound'
  <2> SUFFICES ASSUME NEW x \in ToSet(addSessQueue)
               PROVE  Untouched(obj'[x]) /\ x \notin Listed(sess')
    BY <1>6 DEF SessInv, WaitingSound
  <2>1. x \in Sessions /\ Untouched(obj[x]) /\ x \notin Listed(sess)
    BY SessFacts DEF SessInv, WaitingSound
  <2>2. x # s /\ x \notin acc
    BY <1>4, <1>5, <1>7, <2>1, SessFacts
  <2> QED BY <1>4, <1>8, <2>1, <2>2
<1>17. ASSUME NEW x \in Listed(sess')
       PROVE  /\ obj'[x].loading \/ obj'[x].player => obj'[x].admitted # "no"
              /\ x \in ToSet(queue') => obj'[x].inQueue /\ obj'[x].admitted = "no"
              /\ x \notin ToSet(queue') /\ obj'[x].admitted = "no"
                    => obj'[x].sock = "kicked"
              /\ obj'[x].inQueue /\ x \notin ToSet(queue')
                    => obj'[x].loginCb \/ obj'[x].sock = "kicked"
  <2>1. x \in Listed(sess) /\ x # s /\ x \in Sessions
    BY <1>4, <1>7
  <2>2. CASE x \in acc
    BY <2>1, <2>2, <1>5, <1>9
  <2>3. CASE x \notin acc
    <3>1. (x \in ToSet(queue') <=> x \in ToSet(queue)) /\ obj'[x] = obj[x]
      BY <1>5, <1>8, <2>1, <2>3
    <3> QED BY <2>1, <3>1 DEF SessInv, NoQueueSkipping, InQueueCleared
  <2> QED BY <2>2, <2>3
<1>18. NoQueueSkipping' /\ InQueueCleared'
  BY <1>17 DEF NoQueueSkipping, InQueueCleared
<1> QED BY <1>11, <1>12, <1>13, <1>14, <1>15, <1>16, <1>18 DEF SessInv

\* Every step keeps the invariant.
LEMMA SessStep == SessInv /\ [Next]_vars => SessInv'
<1> SUFFICES ASSUME SessInv, [Next]_vars PROVE SessInv'
  OBVIOUS
\* the steps that leave the lists and the sessions alone
<1>1. ASSUME UNCHANGED <<addSessQueue, listVars, disconnects, obj>>,
             TypeOK', VisitSound', DisconnectsPast'
      PROVE  SessInv'
  BY <1>1, SameLists DEF SessInv, listVars
<1>2. CASE UNCHANGED vars
  BY <1>2, <1>1 DEF vars, SessInv, TypeOK, VisitSound, DisconnectsPast,
                    worldVars, listVars, confVars
<1>3. CASE StartUpdateSessions
  BY <1>3, <1>1 DEF StartUpdateSessions, SessInv, TypeOK, VisitSound, DisconnectsPast,
                    listVars, confVars
<1>4. CASE EndUpdateSessions
  BY <1>4, <1>1 DEF EndUpdateSessions, SessInv, TypeOK, VisitSound, DisconnectsPast,
                    listVars, confVars
<1>5. CASE Tick
  <2>1. now' \in 0..MaxTime /\ now <= now'
    BY <1>5, SessionAssumption DEF Tick, SessInv, TypeOK
  <2>2. \A a \in Accounts : disconnects[a] # None => disconnects[a] \in 0..MaxTime
    BY DEF SessInv, TypeOK
  <2>3. now \in Int /\ now' \in Int
    BY <2>1 DEF SessInv, TypeOK
  <2>4. DisconnectsPast'
    BY <1>5, <2>1, <2>2, <2>3 DEF Tick, SessInv, DisconnectsPast
  <2> QED BY <1>5, <1>1, <2>1, <2>4 DEF Tick, SessInv, TypeOK, VisitSound,
                                         worldVars, listVars
<1>6. ASSUME NEW l \in Limits, SetPlayerLimit(l) PROVE SessInv'
  BY <1>6, <1>1 DEF SetPlayerLimit, SessInv, TypeOK, VisitSound, DisconnectsPast,
                    worldVars, listVars
<1>7. CASE Stopped
  BY <1>2, <1>7 DEF Stopped
<1> QED BY <1>2, <1>3, <1>4, <1>5, <1>6, <1>7, RefuseSessionStep, AddSession_Step,
           StartVisitsStep, UpdateSessionStep, RemoveSessionStep, KickAllStep,
           LoseSocketStep, AddSessionStep, KickSessionsStep
        DEF Next, UpdateSessions

\* The session lists in every reachable state.
LEMMA SessAlways == Spec => []SessInv
BY SessInit, SessStep, PTL DEF Spec

\* Every list of World points to living sessions only, once each: for any
\* accounts, sessions and limits, no step of the network threads or of
\* UpdateSessions leaves a deleted session in m_sessions, in m_QueuedPlayer or
\* in addSessQueue.
THEOREM ListsStaySound == Spec => []ListsSound
<1>1. SessInv => ListsSound
  <2> SUFFICES ASSUME SessInv PROVE ListsSound
    OBVIOUS
  <2>1. /\ queue \in Seq(Sessions) /\ Distinct(queue)
        /\ addSessQueue \in Seq(Sessions) /\ Distinct(addSessQueue)
    BY DEF SessInv, TypeOK, QueueSound, WaitingSound
  <2>2. /\ Cardinality(ToSet(queue)) = Len(queue)
        /\ Cardinality(ToSet(addSessQueue)) = Len(addSessQueue)
    BY <2>1, DistinctCount
  <2> QED BY <2>2 DEF SessInv, ListsSound, Owned, QueueSound, WaitingSound, Untouched
<1> QED BY <1>1, SessAlways, PTL

\* No session plays before it was admitted, and one that waits is in the queue
\* unless KickAll emptied it.
THEOREM QueueNotSkipped == Spec => []NoQueueSkipping
BY SessAlways, PTL DEF SessInv

\* m_inQueue of a session that left the queue is going to be cleared.
THEOREM QueueFlagCleared == Spec => []InQueueCleared
BY SessAlways, PTL DEF SessInv

-----------------------------------------------------------------------------
(***************************************************************************)
(* Slots                                                                    *)
(***************************************************************************)

\* The sessions that GetActiveSessionCount() counts.
ActiveSet(m, q) == Listed(m) \ ToSet(q)

\* The sessions that hold a slot.
Slots(m, o) == {s \in Listed(m) : o[s].admitted = "slot"}

\* One element taken out of a finite set and one added.
LEMMA CountOne ==
    ASSUME NEW S, IsFiniteSet(S), NEW x
    PROVE  /\ Cardinality(S) \in Nat
           /\ IsFiniteSet(S \ {x}) /\ Cardinality(S \ {x}) \in Nat
           /\ x \in S => Cardinality(S \ {x}) = Cardinality(S) - 1
           /\ Cardinality(S \ {x}) >= Cardinality(S) - 1
           /\ x \notin S => Cardinality(S \ {x}) = Cardinality(S)
           /\ IsFiniteSet(S \cup {x}) /\ Cardinality(S \cup {x}) \in Nat
           /\ x \notin S => Cardinality(S \cup {x}) = Cardinality(S) + 1
           /\ Cardinality(S \cup {x}) <= Cardinality(S) + 1
<1>1. /\ IsFiniteSet(S \cup {x}) /\ IsFiniteSet(S \ {x})
      /\ Cardinality(S \cup {x}) = IF x \in S THEN Cardinality(S) ELSE Cardinality(S)+1
      /\ Cardinality(S \ {x}) = IF x \in S THEN Cardinality(S)-1 ELSE Cardinality(S)
  BY FS_AddElement, FS_RemoveElement
<1>2. Cardinality(S) \in Nat /\ Cardinality(S \ {x}) \in Nat /\ Cardinality(S \cup {x}) \in Nat
  BY <1>1, FS_CardinalityType
<1> QED BY <1>1, <1>2

\* GetActiveSessionCount() is the number of sessions that are not queued.
LEMMA ActiveCount ==
    ASSUME NEW m \in [Accounts -> Sessions \cup {None}],
           NEW q \in Seq(Sessions), Distinct(q), ToSet(q) \subseteq Listed(m)
    PROVE  /\ IsFiniteSet(Listed(m)) /\ Cardinality(Listed(m)) \in Nat
           /\ IsFiniteSet(ActiveSet(m, q)) /\ Cardinality(ActiveSet(m, q)) \in Nat
           /\ Cardinality(ActiveSet(m, q)) = ActiveSessionCount(m, q)
<1>1. Listed(m) \in SUBSET Sessions
  BY ListedIs
<1>2. IsFiniteSet(Listed(m))
  BY <1>1, SessionAssumption, FS_Subset
<1>3. IsFiniteSet(ToSet(q)) /\ Cardinality(ToSet(q)) = Len(q)
  BY DistinctCount
<1>4. /\ IsFiniteSet(ActiveSet(m, q))
      /\ Cardinality(ActiveSet(m, q)) = Cardinality(Listed(m)) - Cardinality(Listed(m) \cap ToSet(q))
  BY <1>2, FS_Difference DEF ActiveSet
<1>5. Listed(m) \cap ToSet(q) = ToSet(q)
  OBVIOUS
<1>6. Cardinality(Listed(m)) \in Nat /\ Cardinality(ActiveSet(m, q)) \in Nat
  BY <1>2, <1>4, FS_CardinalityType
<1> QED BY <1>2, <1>3, <1>4, <1>5, <1>6 DEF ActiveSessionCount

\* RemoveQueuedPlayer accepts a session exactly if one waits and the others
\* that are active leave room for it.
LEMMA AcceptsIfRoom ==
    ASSUME NEW m \in [Accounts -> Sessions \cup {None}],
           NEW q \in Seq(Sessions), Distinct(q), ToSet(q) \subseteq Listed(m),
           NEW s \in Listed(m), limit \in Nat
    PROVE  RemoveQueuedPlayer(s, m, q).accept # None
              <=> /\ limit = 0 \/ Cardinality(ActiveSet(m, q) \ {s}) < limit
                  /\ ToSet(q) \ {s} # {}
<1> DEFINE rest     == RemoveFirst(q, s)
           active   == ActiveSessionCount(m, q)
           sessions == IF s \notin ToSet(q) /\ active > 0 THEN active - 1 ELSE active
           accept   == (limit = 0 \/ sessions < limit) /\ rest # <<>>
           A        == ActiveSet(m, q)
<1>1. /\ rest \in Seq(Sessions) /\ Distinct(rest)
      /\ ToSet(rest) = ToSet(q) \ {s}
  BY Erased
<1>2. RemoveQueuedPlayer(s, m, q).accept = IF accept THEN Head(rest) ELSE None
  BY DEF RemoveQueuedPlayer
<1>3. rest # <<>> <=> ToSet(q) \ {s} # {}
  BY <1>1, Elements
<1>4. rest # <<>> => Head(rest) # None
  BY <1>1, Popped, SessionAssumption
<1>5. IsFiniteSet(A) /\ Cardinality(A) \in Nat /\ Cardinality(A) = active
  BY ActiveCount
<1>6. s \in A <=> s \notin ToSet(q)
  BY DEF ActiveSet
<1>7. /\ s \in A => Cardinality(A \ {s}) = Cardinality(A) - 1
      /\ s \notin A => Cardinality(A \ {s}) = Cardinality(A)
      /\ Cardinality(A \ {s}) \in Nat
  BY <1>5, CountOne
<1>8. sessions = Cardinality(A \ {s})
  <2> HIDE DEF A, active
  <2>1. CASE s \in A
    BY <2>1, <1>5, <1>6, <1>7
  <2>2. CASE s \notin A
    BY <2>2, <1>5, <1>6, <1>7
  <2> QED BY <2>1, <2>2
<1> HIDE DEF sessions, rest, A, active
<1> QED BY <1>2, <1>3, <1>4, <1>8 DEF A

\* The properties in terms of the two sets.
SlotFacts ==
    /\ LimitRespected <=> (limit > 0 => Cardinality(Slots(sess, obj)) <= limit)
    /\ NoIdleSlot <=> (ToSet(queue) # {} =>
                         limit > 0 /\ Cardinality(ActiveSet(sess, queue)) >= limit)
    /\ IsFiniteSet(Slots(sess, obj)) /\ Cardinality(Slots(sess, obj)) \in Nat
    /\ IsFiniteSet(Listed(sess)) /\ Cardinality(Listed(sess)) \in Nat
    /\ IsFiniteSet(ActiveSet(sess, queue))
    /\ Cardinality(ActiveSet(sess, queue)) \in Nat
    /\ Slots(sess, obj) \subseteq ActiveSet(sess, queue)
    /\ limit \in Nat

\* What the invariant says of the counts that SlotsKept compares.
LEMMA SlotsIs == SessInv => SlotFacts
<1> SUFFICES ASSUME SessInv PROVE SlotFacts
  OBVIOUS
<1>1. /\ sess \in [Accounts -> Sessions \cup {None}]
      /\ queue \in Seq(Sessions) /\ Distinct(queue) /\ ToSet(queue) \subseteq Listed(sess)
      /\ limit \in Nat
  BY SessionAssumption DEF SessInv, TypeOK, QueueSound
<1>2. /\ IsFiniteSet(Listed(sess)) /\ Cardinality(Listed(sess)) \in Nat
      /\ IsFiniteSet(ActiveSet(sess, queue)) /\ Cardinality(ActiveSet(sess, queue)) \in Nat
      /\ Cardinality(ActiveSet(sess, queue)) = ActiveSessionCount(sess, queue)
  BY <1>1, ActiveCount
<1>3. Slots(sess, obj) \in SUBSET Listed(sess)
  BY DEF Slots
<1>4. IsFiniteSet(Slots(sess, obj)) /\ Cardinality(Slots(sess, obj)) \in Nat
  BY <1>2, <1>3, FS_Subset, FS_CardinalityType
<1>5. Slots(sess, obj) \subseteq ActiveSet(sess, queue)
  BY DEF Slots, ActiveSet, SessInv, QueueSound
<1>6. ToSet(queue) = {} <=> queue = <<>>
  BY <1>1, Elements
<1>7. NoIdleSlot <=> (ToSet(queue) # {} =>
                        limit > 0 /\ Cardinality(ActiveSet(sess, queue)) >= limit)
  BY <1>2, <1>6 DEF NoIdleSlot
<1>8. LimitRespected <=> (limit > 0 => Cardinality(Slots(sess, obj)) <= limit)
  BY DEF LimitRespected, Slots
<1> QED BY <1>1, <1>2, <1>4, <1>5, <1>7, <1>8 DEF SlotFacts

\* A removal neither breaks the limit nor leaves a slot idle.
LEMMA RemoveSessionSlots ==
    ASSUME SessInv, SlotFacts, SlotFacts',
           NEW a \in Accounts, RemoveSession(a), limit' = limit
    PROVE  /\ LimitRespected => LimitRespected'
           /\ NoIdleSlot => NoIdleSlot'
<1>1. PICK s : s = sess[a]
  OBVIOUS
<1>2. PICK r1 : r1 = RemoveQueuedPlayer(s, sess, queue)
  OBVIOUS
<1>3. PICK r2 : r2 = RemoveQueuedPlayer(s, sess, r1.queue)
  OBVIOUS
<1> DEFINE A  == ActiveSet(sess, queue)
           B  == A \ {s}
           B1 == ActiveSet(sess, r1.queue) \ {s}
           W  == ToSet(queue) \ {s}
<1>4. /\ s \in Listed(sess) /\ s \in Sessions
      /\ Listed(sess') = Listed(sess) \ {s}
      /\ r1.queue \in Seq(Sessions) /\ Distinct(r1.queue)
      /\ r1.accept = None \/ r1.accept \in ToSet(queue) \ {s}
      /\ ToSet(r1.queue) = ToSet(queue) \ {s, r1.accept}
      /\ r2.accept = None \/ r2.accept \in ToSet(r1.queue)
      /\ ToSet(queue') = ToSet(queue) \ {s, r1.accept, r2.accept}
      /\ \A x \in Sessions :
            obj'[x] = IF x = s THEN Deleted
                      ELSE IF x \in {r1.accept, r2.accept}
                        THEN Admit(obj[x], "slot", 0) ELSE obj[x]
  BY <1>1, <1>2, <1>3, RemoveSessionFacts
<1>5. /\ sess \in [Accounts -> Sessions \cup {None}]
      /\ queue \in Seq(Sessions) /\ Distinct(queue) /\ ToSet(queue) \subseteq Listed(sess)
      /\ limit \in Nat
      /\ \A x \in Listed(sess) : x \in Sessions /\ x # None
  BY SessFacts DEF SessInv, TypeOK, QueueSound, SlotFacts
<1>6. r1.accept # None <=> (limit = 0 \/ Cardinality(B) < limit) /\ W # {}
  BY <1>2, <1>4, <1>5, AcceptsIfRoom
<1>7. r2.accept # None
         <=> (limit = 0 \/ Cardinality(B1) < limit) /\ ToSet(r1.queue) # {}
  <2>1. ToSet(r1.queue) \subseteq Listed(sess) /\ ToSet(r1.queue) \ {s} = ToSet(r1.queue)
    BY <1>4, <1>5
  <2> QED BY <1>3, <1>4, <1>5, <2>1, AcceptsIfRoom, ZenonT(40)
<1>8. /\ r1.accept = None => B1 = B
      /\ r1.accept # None => B1 = B \cup {r1.accept} /\ r1.accept \notin B
  BY <1>4, <1>5 DEF ActiveSet
<1>9. /\ r2.accept = None => ActiveSet(sess', queue') = B1
      /\ r2.accept # None => /\ ActiveSet(sess', queue') = B1 \cup {r2.accept}
                             /\ r2.accept \notin B1
  BY <1>4, <1>5 DEF ActiveSet
<1>10. /\ IsFiniteSet(A) /\ Cardinality(A) \in Nat
       /\ IsFiniteSet(B) /\ Cardinality(B) \in Nat
       /\ Cardinality(B) >= Cardinality(A) - 1
  BY CountOne DEF SlotFacts
<1> HIDE DEF B, B1, W
<1>11. /\ IsFiniteSet(B1) /\ Cardinality(B1) \in Nat
       /\ Cardinality(B1) = IF r1.accept = None THEN Cardinality(B) ELSE Cardinality(B) + 1
  BY <1>8, <1>10, CountOne
<1>12. /\ Cardinality(ActiveSet(sess', queue')) \in Nat
       /\ Cardinality(ActiveSet(sess', queue'))
             = IF r2.accept = None THEN Cardinality(B1) ELSE Cardinality(B1) + 1
  BY <1>9, <1>11, CountOne
<1>13. ASSUME LimitRespected, limit > 0
       PROVE  Cardinality(Slots(sess', obj')) <= limit
  <2>1. CASE r1.accept = None /\ r2.accept = None
    <3>1. Slots(sess', obj') \in SUBSET Slots(sess, obj)
      BY <1>4, <1>5, <2>1 DEF Slots
    <3>2. Cardinality(Slots(sess', obj')) <= Cardinality(Slots(sess, obj))
      BY <3>1, FS_Subset DEF SlotFacts
    <3>3. Cardinality(Slots(sess, obj)) <= limit
      BY <1>13 DEF SlotFacts
    <3> QED BY <3>2, <3>3 DEF SlotFacts
  <2>2. CASE r1.accept # None \/ r2.accept # None
    <3>1. Cardinality(ActiveSet(sess', queue')) <= limit
      BY <1>5, <1>6, <1>7, <1>10, <1>11, <1>12, <1>13, <2>2
    <3>2. Slots(sess', obj') \in SUBSET ActiveSet(sess', queue')
      BY DEF SlotFacts
    <3>3. Cardinality(Slots(sess', obj')) <= Cardinality(ActiveSet(sess', queue'))
      BY <3>2, FS_Subset DEF SlotFacts
    <3> QED BY <1>5, <1>12, <3>1, <3>3 DEF SlotFacts
  <2> QED BY <2>1, <2>2
<1>14. ASSUME NoIdleSlot, ToSet(queue') # {}
       PROVE  limit > 0 /\ Cardinality(ActiveSet(sess', queue')) >= limit
  <2>1. ToSet(queue) # {} /\ W # {} /\ ToSet(r1.queue) # {}
    BY <1>4, <1>14 DEF W
  <2>2. limit > 0 /\ Cardinality(A) >= limit
    BY <2>1, <1>14 DEF SlotFacts
  <2> HIDE DEF A
  <2> QED BY <1>5, <1>6, <1>7, <1>10, <1>11, <1>12, <2>1, <2>2
<1> QED BY <1>13, <1>14 DEF SlotFacts

\* Nor does a session that is let in.
LEMMA AddSession_Slots ==
    ASSUME SessInv, SlotFacts, SlotFacts', AddSession_, limit' = limit
    PROVE  /\ LimitRespected => LimitRespected'
           /\ NoIdleSlot => NoIdleSlot'
<1>1. PICK s : s = Head(addSessQueue)
  OBVIOUS
<1>2. PICK a : a = obj[s].acct
  OBVIOUS
<1>3. PICK old : old = sess[a]
  OBVIOUS
<1>4. PICK r : r = OldRemoved(old)
  OBVIOUS
<1>5. PICK n : n = Cardinality(Listed(sess')) - (IF r.found THEN 0 ELSE 1)
  OBVIOUS
<1>6. /\ s \in Sessions /\ s \notin Listed(sess) /\ Untouched(obj[s])
      /\ a \in Accounts /\ old \in Sessions \cup {None}
      /\ Listed(sess') = (Listed(sess) \ {old}) \cup {s}
      /\ r.found <=> old \in ToSet(queue)
      /\ r.queue \in Seq(Sessions) /\ Distinct(r.queue)
      /\ r.accept = None \/ r.accept \in ToSet(queue) \ {old}
      /\ ToSet(r.queue) = ToSet(queue) \ {old, r.accept}
  BY <1>1, <1>2, <1>3, <1>4, AddSessionFacts, SMTT(30)
<1>7. PICK enqueue \in BOOLEAN, how \in {"slot", "gm", "tolerance"},
           age \in 0..MaxTime : Added(s, old, r, n, enqueue, how, age)
  BY <1>1, <1>2, <1>3, <1>4, <1>5, AddSessionOutcome
<1>8. /\ sess \in [Accounts -> Sessions \cup {None}]
      /\ obj \in [Sessions -> SessionObject]
      /\ queue \in Seq(Sessions) /\ Distinct(queue) /\ ToSet(queue) \subseteq Listed(sess)
      /\ limit \in Nat
      /\ \A x \in Listed(sess) : x \in Sessions /\ x # None
      /\ old # None => old \in Listed(sess)
      /\ s # None /\ s # old /\ s # r.accept /\ s \notin ToSet(queue)
      /\ None \notin ToSet(queue)
  BY <1>3, <1>6, SessFacts DEF SessInv, TypeOK, QueueSound, SlotFacts
<1> DEFINE A  == ActiveSet(sess, queue)
           B  == A \ {old}
           B1 == IF r.accept = None THEN B ELSE B \cup {r.accept}
           A1 == ActiveSet(sess', queue')
           W  == ToSet(queue) \ {old}
<1>9. /\ old # None => (r.accept # None
                          <=> (limit = 0 \/ Cardinality(B) < limit) /\ W # {})
      /\ old = None => r.accept = None
  <2>1. CASE old # None
    <3>1. r = RemoveQueuedPlayer(old, sess, queue) /\ old \in Listed(sess)
      BY <1>4, <1>8, <2>1 DEF OldRemoved
    <3> QED BY <1>8, <2>1, <3>1, AcceptsIfRoom
  <2>2. CASE old = None
    BY <1>4, <2>2 DEF OldRemoved
  <2> QED BY <2>1, <2>2
<1>10. ToSet(queue') = ToSet(r.queue) \cup (IF enqueue THEN {s} ELSE {})
  <2>1. queue' = IF enqueue THEN Append(r.queue, s) ELSE r.queue
    BY <1>7 DEF Added
  <2>2. s \notin ToSet(r.queue)
    BY <1>6, <1>8
  <2> QED BY <1>6, <2>1, <2>2, Pushed
<1>11. A1 = IF enqueue THEN B1 ELSE B1 \cup {s}
  BY <1>6, <1>8, <1>10 DEF ActiveSet
<1>12. /\ IsFiniteSet(A) /\ Cardinality(A) \in Nat
       /\ IsFiniteSet(B) /\ Cardinality(B) \in Nat
       /\ Cardinality(B) >= Cardinality(A) - 1
       /\ old \notin A => B = A
       /\ r.accept # None => r.accept \notin B
  BY <1>6, CountOne DEF SlotFacts, ActiveSet
<1>13. /\ IsFiniteSet(B1) /\ Cardinality(B1) \in Nat
       /\ Cardinality(B1) = IF r.accept = None THEN Cardinality(B) ELSE Cardinality(B) + 1
  <2>1. r.accept # None => /\ IsFiniteSet(B \cup {r.accept})
                           /\ Cardinality(B \cup {r.accept}) \in Nat
                           /\ Cardinality(B \cup {r.accept}) = Cardinality(B) + 1
    BY <1>12, CountOne
  <2> HIDE DEF B
  <2> QED BY <1>12, <2>1
<1>14. /\ Cardinality(A1) \in Nat /\ IsFiniteSet(A1) /\ Cardinality(A1) >= Cardinality(B1)
       /\ Slots(sess', obj') \subseteq A1
       /\ IsFiniteSet(Slots(sess', obj')) /\ Cardinality(Slots(sess', obj')) \in Nat
       /\ IsFiniteSet(Listed(sess')) /\ Cardinality(Listed(sess')) \in Nat
  <2>1. B1 \in SUBSET A1
    BY <1>11
  <2>2. /\ Cardinality(A1) \in Nat /\ IsFiniteSet(A1)
        /\ Slots(sess', obj') \subseteq A1
        /\ IsFiniteSet(Slots(sess', obj')) /\ Cardinality(Slots(sess', obj')) \in Nat
        /\ IsFiniteSet(Listed(sess')) /\ Cardinality(Listed(sess')) \in Nat
    BY DEF SlotFacts
  <2> HIDE DEF A1, B1
  <2>3. Cardinality(B1) <= Cardinality(A1)
    BY <2>1, <2>2, FS_Subset
  <2> QED BY <1>13, <2>2, <2>3
<1> HIDE DEF A, B, B1, A1, W
<1>15. n \in Int /\ Cardinality(Listed(sess')) <= n + 1
  BY <1>5, <1>14
<1>16. ASSUME LimitRespected, limit > 0
       PROVE  Cardinality(Slots(sess', obj')) <= limit
  <2>1. CASE ~enqueue /\ how = "slot"
    <3>1. ~(n >= limit)
      BY <1>7, <1>16, <2>1 DEF Added
    <3>2. Slots(sess', obj') \in SUBSET Listed(sess')
      BY DEF Slots
    <3>3. Cardinality(Slots(sess', obj')) <= Cardinality(Listed(sess'))
      BY <1>14, <3>2, FS_Subset
    <3> QED BY <1>8, <1>14, <1>15, <3>1, <3>3
  <2>2. CASE enqueue \/ how # "slot"
    <3>1. obj'[s].admitted # "slot"
      <4>1. obj[s] \in SessionObject /\ obj[s].admitted = "no"
        BY <1>6, <1>8 DEF Untouched
      <4>2. obj'[s] = IF enqueue THEN [obj[s] EXCEPT !.inQueue = TRUE]
                                 ELSE Admit(obj[s], how, age)
        BY <1>7 DEF Added
      <4>3. CASE enqueue
        BY <4>1, <4>2, <4>3 DEF SessionObject
      <4>4. CASE ~enqueue
        BY <2>2, <4>1, <4>2, <4>4 DEF SessionObject, Admit
      <4> QED BY <4>3, <4>4
    <3>2. s \notin Slots(sess', obj')
      BY <3>1 DEF Slots
    <3>3. CASE r.accept # None
      <4>1. Slots(sess', obj') \in SUBSET B1
        BY <1>11, <1>14, <3>2
      <4>2. Cardinality(Slots(sess', obj')) <= Cardinality(B1)
        BY <1>13, <4>1, FS_Subset
      <4>3. Cardinality(B) < limit
        BY <1>9, <1>16, <3>3
      <4> QED BY <1>8, <1>12, <1>13, <1>14, <3>3, <4>2, <4>3
    <3>4. CASE r.accept = None
      <4>1. ASSUME NEW x \in Slots(sess', obj') PROVE x \in Slots(sess, obj)
        <5>1. x \in Listed(sess) /\ x # old /\ x # s /\ x \in Sessions
          BY <1>6, <1>8, <3>2 DEF Slots
        <5>2. obj'[x] = obj[x]
          BY <1>7, <1>8, <3>4, <5>1 DEF Added
        <5> QED BY <5>1, <5>2 DEF Slots
      <4>2. Slots(sess', obj') \in SUBSET Slots(sess, obj)
        BY <4>1
      <4>3. Cardinality(Slots(sess', obj')) <= Cardinality(Slots(sess, obj))
        BY <4>2, FS_Subset DEF SlotFacts
      <4>4. Cardinality(Slots(sess, obj)) <= limit /\ Cardinality(Slots(sess, obj)) \in Nat
        BY <1>16 DEF SlotFacts
      <4> QED BY <1>8, <1>14, <4>3, <4>4
    <3> QED BY <3>3, <3>4
  <2> QED BY <2>1, <2>2
<1>17. ASSUME NoIdleSlot, ToSet(queue') # {}
       PROVE  limit > 0 /\ Cardinality(A1) >= limit
  <2>1. CASE ToSet(queue) = {}
    <3>1. enqueue /\ ToSet(queue') = {s} /\ ~r.found
      BY <1>6, <1>10, <1>17, <2>1
    <3>2. limit > 0 /\ n >= limit
      BY <1>7, <3>1 DEF Added
    <3>3. A1 = Listed(sess') \ {s} /\ s \in Listed(sess')
      BY <1>6, <3>1 DEF A1, ActiveSet
    <3>4. Cardinality(A1) = Cardinality(Listed(sess')) - 1
      BY <1>14, <3>3, CountOne
    <3> QED BY <1>5, <3>1, <3>2, <3>4
  <2>2. CASE ToSet(queue) # {}
    <3>1. limit > 0 /\ Cardinality(A) >= limit
      BY <1>17, <2>2 DEF SlotFacts, A
    <3>2. CASE r.accept # None
      BY <1>8, <1>12, <1>13, <1>14, <3>1, <3>2
    <3>3. CASE r.accept = None /\ old \notin A
      BY <1>8, <1>12, <1>13, <1>14, <3>1, <3>3
    <3>4. CASE r.accept = None /\ old \in A
      <4>1. old # None /\ W # {}
        BY <1>8, <2>2, <3>4 DEF A, W, ActiveSet
      <4>2. Cardinality(B) >= limit
        BY <1>8, <1>9, <1>12, <3>1, <3>4, <4>1
      <4> QED BY <1>8, <1>12, <1>13, <1>14, <3>1, <3>4, <4>2
    <3> QED BY <3>2, <3>3, <3>4
  <2> QED BY <2>1, <2>2
<1> QED BY <1>16, <1>17 DEF SlotFacts, A1

\* The other steps admit nobody to a slot.
LEMMA OthersSlots ==
    ASSUME SessInv, SlotFacts, SlotFacts', limit' = limit,
           Listed(sess') = Listed(sess),
           ToSet(queue') = ToSet(queue) \/ ToSet(queue') = {},
           \A x \in Listed(sess) : obj'[x].admitted = obj[x].admitted
    PROVE  /\ LimitRespected => LimitRespected'
           /\ NoIdleSlot => NoIdleSlot'
<1>1. Slots(sess', obj') = Slots(sess, obj)
  BY DEF Slots
<1>2. ToSet(queue') # {} => ActiveSet(sess', queue') = ActiveSet(sess, queue)
  BY DEF ActiveSet
<1> QED BY <1>1, <1>2 DEF SlotFacts

\* Nor does any other step.
LEMMA SlotsStep ==
    ASSUME SessInv, SlotFacts, SlotFacts', [Next]_vars, limit' = limit
    PROVE  /\ LimitRespected => LimitRespected'
           /\ NoIdleSlot => NoIdleSlot'
<1> DEFINE Kept == /\ LimitRespected => LimitRespected'
                   /\ NoIdleSlot => NoIdleSlot'
<1>1. ASSUME UNCHANGED <<sess, queue, obj>> PROVE Kept
  BY <1>1, OthersSlots
<1>2. CASE UNCHANGED vars \/ Stopped
  BY <1>1, <1>2 DEF vars, listVars, Stopped
<1>3. CASE StartUpdateSessions \/ EndUpdateSessions \/ StartVisits \/ Tick
  BY <1>1, <1>3 DEF StartUpdateSessions, EndUpdateSessions, StartVisits, Tick, listVars
<1>4. ASSUME NEW l \in Limits, SetPlayerLimit(l) PROVE Kept
  BY <1>4 DEF SetPlayerLimit
<1>5. CASE RefuseSession
  <2>1. Head(addSessQueue) \notin Listed(sess)
    <3>1. addSessQueue # <<>> /\ addSessQueue \in Seq(Sessions) /\ Distinct(addSessQueue)
      BY <1>5 DEF RefuseSession, SessInv, TypeOK, WaitingSound
    <3>2. Head(addSessQueue) \in ToSet(addSessQueue)
      BY <3>1, Popped
    <3> QED BY <3>2 DEF SessInv, WaitingSound
  <2>2. /\ sess' = sess /\ queue' = queue
        /\ \A x \in Listed(sess) : obj'[x].admitted = obj[x].admitted
    BY <1>5, <2>1, SessFacts DEF RefuseSession, listVars, SessInv, TypeOK
  <2> QED BY <2>2, OthersSlots
<1>6. ASSUME NEW s \in Sessions, NEW a \in Accounts, AddSession(s, a) PROVE Kept
  <2>1. s \notin Listed(sess)
    BY <1>6, SessFacts DEF AddSession, SessInv, Owned
  <2>2. /\ sess' = sess /\ queue' = queue
        /\ \A x \in Listed(sess) : obj'[x].admitted = obj[x].admitted
    BY <1>6, <2>1, SessFacts DEF AddSession, listVars, SessInv, TypeOK
  <2> QED BY <2>2, OthersSlots
<1>7. ASSUME NEW s \in Sessions, LoseSocket(s) PROVE Kept
  <2>1. \A x \in Sessions : obj'[x].admitted = obj[x].admitted
    BY <1>7 DEF LoseSocket, SessInv, TypeOK, SessionObject
  <2>2. sess' = sess /\ queue' = queue
    BY <1>7 DEF LoseSocket, listVars
  <2> QED BY <2>1, <2>2, SessFacts, OthersSlots
<1>8. ASSUME NEW a \in Accounts, UpdateSession(a) PROVE Kept
  <2>1. sess[a] \in Sessions /\ obj \in [Sessions -> SessionObject]
    BY <1>8, SessFacts DEF UpdateSession, SessInv, TypeOK, VisitSound
  <2>2. PICK o \in Progress(obj[sess[a]]) :
           obj' = [obj EXCEPT ![sess[a]] =
                     IF o.sock = "open" THEN o ELSE [o EXCEPT !.expire = @ - 1]]
    BY <1>8 DEF UpdateSession
  <2>3. o \in SessionObject /\ o.admitted = obj[sess[a]].admitted
    BY <2>1, ProgressFields
  <2>4. obj'[sess[a]].admitted = obj[sess[a]].admitted
    BY <2>1, <2>2, <2>3 DEF SessionObject
  <2>5. \A x \in Sessions : obj'[x].admitted = obj[x].admitted
    BY <2>1, <2>2, <2>4
  <2>6. sess' = sess /\ queue' = queue
    BY <1>8 DEF UpdateSession, listVars
  <2> QED BY <2>5, <2>6, SessFacts, OthersSlots
<1>9. ASSUME NEW A \in SUBSET Accounts, KickSessions(A) PROVE Kept
  <2>1. Kick(A) /\ sess' = sess /\ queue' = queue
    BY <1>9 DEF KickSessions, listVars
  <2>2. \A x \in Sessions : obj'[x].admitted = obj[x].admitted
    BY <2>1, Kicked
  <2> QED BY <2>1, <2>2, SessFacts, OthersSlots
<1>10. CASE KickAll
  <2>1. Kick(Accounts) /\ sess' = sess /\ ToSet(queue') = {}
    BY <1>10 DEF KickAll, ToSet
  <2>2. \A x \in Sessions : obj'[x].admitted = obj[x].admitted
    BY <2>1, Kicked
  <2> QED BY <2>1, <2>2, SessFacts, OthersSlots
<1>11. CASE AddSession_
  BY <1>11, AddSession_Slots
<1>12. ASSUME NEW a \in Accounts, RemoveSession(a) PROVE Kept
  BY <1>12, RemoveSessionSlots
<1> QED BY <1>2, <1>3, <1>4, <1>5, <1>6, <1>7, <1>8, <1>9, <1>10, <1>11, <1>12
        DEF Next, UpdateSessions

\* A session that leaves or is replaced by a reconnect passes its slot on to one
\* session at most: for any limit, UpdateSessions neither admits a session above
\* the limit nor leaves a slot idle while one waits, unless it was so before.
THEOREM SlotsPassedOn == Spec => SlotsKept
<1>1. SessInv /\ SlotFacts /\ SlotFacts' /\ [Next]_vars
         => [limit' = limit => /\ LimitRespected => LimitRespected'
                               /\ NoIdleSlot => NoIdleSlot']_vars
  BY SlotsStep
<1>2. SessInv => SlotFacts
  BY SlotsIs
<1> QED BY <1>1, <1>2, SessAlways, PTL DEF Spec, SlotsKept

=============================================================================
