------------------------- MODULE DatabasePoolProofs -------------------------
(***************************************************************************)
(* Proofs about DatabasePool, for any operations, connections, transaction  *)
(* sizes, retries and lost connections.                                     *)
(***************************************************************************)
EXTENDS DatabasePool, FiniteSetTheorems, SequenceTheorems,
        NaturalsInduction, TLAPS

-----------------------------------------------------------------------------
(***************************************************************************)
(* Lists without repetition: the queues of operations and callbacks.        *)
(***************************************************************************)

\* No element occurs twice.
Distinct(q) == \A i, j \in 1..Len(q) : q[i] = q[j] => i = j

\* The elements of a list.
LEMMA Elements ==
    ASSUME NEW S, NEW q \in Seq(S)
    PROVE  /\ ToSet(q) = {q[i] : i \in 1..Len(q)}
           /\ ToSet(q) \subseteq S
           /\ Len(q) \in Nat
           /\ ToSet(q) = {} <=> q = <<>>
<1>1. Len(q) \in Nat /\ DOMAIN q = 1..Len(q) /\ \A i \in 1..Len(q) : q[i] \in S
  BY LenProperties, ElementOfSeq
<1>2. ToSet(q) = {q[i] : i \in 1..Len(q)}
  BY <1>1 DEF ToSet
<1>3. q # <<>> => q[1] \in ToSet(q)
  BY <1>1, <1>2, EmptySeq
<1>4. q = <<>> => ToSet(q) = {}
  BY <1>2
<1> QED BY <1>1, <1>2, <1>3, <1>4

\* A list without repetition has as many elements as it is long.
LEMMA DistinctCount ==
    ASSUME NEW S, NEW q \in Seq(S), Distinct(q)
    PROVE  IsFiniteSet(ToSet(q)) /\ Cardinality(ToSet(q)) = Len(q)
<1>1. /\ ToSet(q) = {q[i] : i \in 1..Len(q)} /\ Len(q) \in Nat
      /\ q \in [1..Len(q) -> S]
  BY Elements, LenProperties
<1>2. q \in Bijection(1..Len(q), ToSet(q))
  <2>1. q \in [1..Len(q) -> ToSet(q)]
    BY <1>1
  <2>2. q \in Injection(1..Len(q), ToSet(q))
    BY <1>1, <2>1 DEF Distinct, Injection, IsInjective
  <2>3. q \in Surjection(1..Len(q), ToSet(q))
    BY <1>1, <2>1 DEF Surjection
  <2> QED BY <2>2, <2>3 DEF Bijection
<1>3. IsFiniteSet(1..Len(q)) /\ Cardinality(1..Len(q)) = Len(q)
  BY <1>1, FS_Interval
<1>4. ExistsBijection(1..Len(q), ToSet(q))
  BY <1>2 DEF ExistsBijection
<1> QED BY <1>3, <1>4, FS_Bijection, Zenon

\* push_back of a session that is not in the list.
LEMMA Pushed ==
    ASSUME NEW S, NEW q \in Seq(S), Distinct(q), NEW s \in S, s \notin ToSet(q)
    PROVE  /\ Append(q, s) \in Seq(S) /\ Distinct(Append(q, s))
           /\ ToSet(Append(q, s)) = ToSet(q) \cup {s}
           /\ Len(Append(q, s)) = Len(q) + 1
<1> DEFINE r == Append(q, s)
           n == Len(q)
<1>1. /\ r \in Seq(S) /\ Len(r) = n + 1 /\ n \in Nat
      /\ \A i \in 1..n : r[i] = q[i]
      /\ r[n + 1] = s
  BY AppendProperties, Elements
<1>2. ToSet(q) = {q[i] : i \in 1..n} /\ ToSet(r) = {r[i] : i \in 1..Len(r)}
  BY <1>1, Elements
<1> HIDE DEF r, n
<1>3. 1..Len(r) = (1..n) \cup {n + 1}
  BY <1>1
<1>4. ToSet(r) = ToSet(q) \cup {s}
  BY <1>1, <1>2, <1>3
<1>5. ASSUME NEW i \in 1..Len(r), NEW j \in 1..Len(r), r[i] = r[j]
      PROVE  i = j
  <2>1. CASE i \in 1..n /\ j \in 1..n
    BY <2>1, <1>1, <1>5 DEF Distinct, n
  <2>2. CASE i = n + 1 /\ j \in 1..n
    BY <2>2, <1>1, <1>2, <1>5
  <2>3. CASE j = n + 1 /\ i \in 1..n
    BY <2>3, <1>1, <1>2, <1>5
  <2> QED BY <1>3, <2>1, <2>2, <2>3
<1> QED BY <1>1, <1>4, <1>5 DEF Distinct, r, n

\* pop_front.
LEMMA Popped ==
    ASSUME NEW S, NEW q \in Seq(S), Distinct(q), q # <<>>
    PROVE  /\ Tail(q) \in Seq(S) /\ Distinct(Tail(q))
           /\ Head(q) \in ToSet(q) /\ Head(q) \in S
           /\ ToSet(Tail(q)) = ToSet(q) \ {Head(q)}
           /\ Len(Tail(q)) = Len(q) - 1 /\ Len(q) > 0
<1> DEFINE r == Tail(q)
           n == Len(q)
<1>1. /\ r \in Seq(S) /\ Len(r) = n - 1 /\ n \in Nat /\ n > 0
      /\ \A i \in 1..(n - 1) : r[i] = q[i + 1]
      /\ Head(q) = q[1] /\ Head(q) \in S
  BY HeadTailProperties, EmptySeq, Elements
<1>2. ToSet(q) = {q[i] : i \in 1..n} /\ ToSet(r) = {r[i] : i \in 1..Len(r)}
  BY <1>1, Elements
<1> HIDE DEF r, n
<1>3. \A i, j \in 1..n : q[i] = q[j] => i = j
  BY DEF Distinct, n
<1>4. ASSUME NEW i \in 1..Len(r), NEW j \in 1..Len(r), r[i] = r[j]
      PROVE  i = j
  <2>1. i + 1 \in 1..n /\ j + 1 \in 1..n /\ q[i + 1] = q[j + 1]
    BY <1>1, <1>4
  <2>2. i + 1 = j + 1
    BY <1>3, <2>1
  <2> QED BY <2>2, <1>1
<1>5. ASSUME NEW x \in ToSet(r) PROVE x \in ToSet(q) \ {Head(q)}
  <2>1. PICK i \in 1..Len(r) : x = r[i]
    BY <1>2
  <2>2. i + 1 \in 1..n /\ i + 1 # 1 /\ 1 \in 1..n /\ x = q[i + 1]
    BY <2>1, <1>1
  <2> QED BY <1>1, <1>2, <1>3, <2>2
<1>6. ASSUME NEW x \in ToSet(q) \ {Head(q)} PROVE x \in ToSet(r)
  <2>1. PICK i \in 1..n : x = q[i]
    BY <1>2
  <2>2. i - 1 \in 1..Len(r) /\ (i - 1) + 1 = i
    BY <2>1, <1>1
  <2>3. r[i - 1] = x
    BY <2>1, <2>2, <1>1
  <2> QED BY <1>2, <2>2, <2>3
<1>7. Head(q) \in ToSet(q)
  BY <1>1, <1>2
<1> QED BY <1>1, <1>4, <1>5, <1>6, <1>7 DEF Distinct, r, n

\* Two lists put together.
LEMMA Joined ==
    ASSUME NEW S, NEW q \in Seq(S), Distinct(q), NEW r \in Seq(S), Distinct(r),
           ToSet(q) \cap ToSet(r) = {}
    PROVE  /\ q \o r \in Seq(S) /\ Distinct(q \o r)
           /\ ToSet(q \o r) = ToSet(q) \cup ToSet(r)
<1> DEFINE t == q \o r
           m == Len(q)
           n == Len(r)
<1>1. /\ t \in Seq(S) /\ Len(t) = m + n /\ m \in Nat /\ n \in Nat
      /\ \A i \in 1..(m + n) : t[i] = IF i <= m THEN q[i] ELSE r[i - m]
  BY ConcatProperties, LenProperties
<1>2. /\ ToSet(q) = {q[i] : i \in 1..m} /\ ToSet(r) = {r[i] : i \in 1..n}
      /\ ToSet(t) = {t[i] : i \in 1..(m + n)}
  BY <1>1, Elements
<1>3. /\ \A i, j \in 1..m : q[i] = q[j] => i = j
      /\ \A i, j \in 1..n : r[i] = r[j] => i = j
  BY DEF Distinct
<1> HIDE DEF t, m, n
<1>4. /\ \A i \in 1..(m + n) : i <= m => i \in 1..m /\ t[i] = q[i]
      /\ \A i \in 1..(m + n) : ~(i <= m) => i - m \in 1..n /\ t[i] = r[i - m]
  BY <1>1
<1>5. ASSUME NEW i \in 1..(m + n), NEW j \in 1..(m + n), t[i] = t[j]
      PROVE  i = j
  <2>1. CASE i <= m /\ j <= m
    BY <2>1, <1>3, <1>4, <1>5
  <2>2. CASE ~(i <= m) /\ ~(j <= m)
    <3>1. i - m = j - m
      BY <2>2, <1>3, <1>4, <1>5
    <3> QED BY <3>1, <1>1
  <2>3. CASE i <= m /\ ~(j <= m)
    BY <2>3, <1>2, <1>4, <1>5
  <2>4. CASE ~(i <= m) /\ j <= m
    BY <2>4, <1>2, <1>4, <1>5
  <2> QED BY <2>1, <2>2, <2>3, <2>4
<1>6. ASSUME NEW x \in ToSet(t) PROVE x \in ToSet(q) \cup ToSet(r)
  BY <1>2, <1>4
<1>7. ASSUME NEW x \in ToSet(q) PROVE x \in ToSet(t)
  <2>1. PICK i \in 1..m : x = q[i]
    BY <1>2
  <2>2. i \in 1..(m + n) /\ t[i] = q[i]
    BY <1>1
  <2> QED BY <1>2, <2>1, <2>2
<1>8. ASSUME NEW x \in ToSet(r) PROVE x \in ToSet(t)
  <2>1. PICK i \in 1..n : x = r[i]
    BY <1>2
  <2>2. i + m \in 1..(m + n) /\ ~(i + m <= m) /\ (i + m) - m = i
    BY <1>1
  <2>3. t[i + m] = r[i]
    BY <1>4, <2>2
  <2> QED BY <1>2, <2>1, <2>2, <2>3
<1> QED BY <1>1, <1>5, <1>6, <1>7, <1>8 DEF Distinct, t, m, n

\* An element is at one position, or at none.
LEMMA PositionCount ==
    ASSUME NEW S, NEW q \in Seq(S), Distinct(q), NEW s
    PROVE  Cardinality({j \in 1..Len(q) : q[j] = s}) = IF s \in ToSet(q) THEN 1 ELSE 0
<1> DEFINE P == {j \in 1..Len(q) : q[j] = s}
<1>1. ToSet(q) = {q[i] : i \in 1..Len(q)}
  BY Elements
<1>2. CASE s \in ToSet(q)
  <2>1. PICK i \in 1..Len(q) : q[i] = s
    BY <1>1, <1>2
  <2>2. P = {i}
    BY <2>1 DEF Distinct
  <2> QED BY <1>2, <2>2, FS_Singleton
<1>3. CASE s \notin ToSet(q)
  <2>1. P = {}
    BY <1>1, <1>3
  <2> QED BY <1>3, <2>1, FS_EmptySet
<1> QED BY <1>2, <1>3

-----------------------------------------------------------------------------
(***************************************************************************)
(* The inductive invariant of the pool                                      *)
(***************************************************************************)

\* The type invariant but for the bound on how often a statement took effect.
OpType ==
    [kind : Kinds,
     state : {"fresh", "queued", "held", "done", "dropped", "leaked"},
     promise : {"none", "pending", "set", "broken"},
     applied : [Statements -> Nat],
     losses : Nat,
     waits : BOOLEAN,
     called : {"no", "set", "broken"}]

Types ==
    /\ mpc \in MainPc
    /\ opened \subseteq Conns /\ dying \in opened \cup {None}
    /\ dpc \in {"none", "cancel", "join"} /\ missing \in BOOLEAN
    /\ queue \in Seq(Ops) /\ shutdown \in BOOLEAN
    /\ token \in [Conns -> BOOLEAN]
    /\ pc \in [Conns -> WorkPc]
    /\ held \in [Conns -> Ops \cup {None}]
    /\ k \in [Conns -> 1..(TransSize + 1)]
    /\ pend \in [Conns -> (SUBSET Statements) \cup {None}]
    /\ attempt \in [Conns -> 0..MaxRetry]
    /\ deadlockLock \in Conns \cup {None}
    /\ lost \in 0..MaxLost
    /\ op \in [Ops -> OpType]
    /\ callbacks \in CallbackList /\ update \in CallbackList
    /\ kept \in CallbackList

\* Where the main thread is, and what that says of the pool.
Lifecycle ==
    /\ dpc = "none" <=> dying = None
    /\ dpc # "none" => mpc \in {"closing", "failing", "aborted"}
    /\ mpc \in {"opening", "failing", "failed"} =>
          \A o \in Ops : op[o].state = "fresh"
    /\ mpc \notin {"processing", "aborted"} => update = <<>> /\ kept = <<>>

\* An operation is in the queue once, or in the hands of one worker.
Owners ==
    /\ Distinct(queue)
    /\ \A o \in Ops :
          /\ op[o].state = "queued" <=> o \in ToSet(queue)
          /\ op[o].state = "held" <=> \E c \in Conns : held[c] = o
    /\ \A c, d \in Conns : held[c] # None /\ held[c] = held[d] => c = d

\* Where a worker is, and what it holds.
Worker(c) ==
    /\ pc[c] \in {"none", "pop", "sleep", "exit"} => held[c] = None
    /\ pc[c] \in {"plain", "begin", "statement", "lock", "delete"} => held[c] # None
    /\ c \notin opened => pc[c] \in {"none", "exit"}
    /\ pend[c] # None => pc[c] = "statement"
    /\ attempt[c] > 0 => pc[c] \in {"begin", "statement", "delete"}
    /\ deadlockLock = c <=> attempt[c] > 0 /\ pc[c] # "delete"

\* Nothing was done yet.
Unworked(x) ==
    /\ \A s \in Statements : x.applied[s] = 0
    /\ x.losses = 0
    /\ x.promise \notin {"set", "broken"}

\* What was done had no effect but for lost connections.
Undone(x) ==
    /\ \A s \in Statements : x.applied[s] <= x.losses
    /\ x.kind = "transaction" => x.promise # "set"

\* All or nothing, but for lost connections.
Whole(x) ==
    /\ \A s \in Statements : x.applied[s] <= 1 + x.losses
    /\ x.kind = "transaction" /\ x.losses = 0 =>
         /\ \A s, t \in Statements : x.applied[s] = x.applied[t]
         /\ x.promise = "set" => x.applied[1] = 1

\* How far the worker is with the operation x: while its transaction is open on
\* the server, that holds the statements before k; after a reconnect the next
\* statements take effect at once.
Progress(c, x) ==
    /\ pc[c] = "popped" => Unworked(x)
    /\ pc[c] = "plain" => Undone(x) /\ x.kind # "transaction"
    /\ pc[c] \in {"begin", "lock", "statement"} => Undone(x) /\ x.kind = "transaction"
    /\ pc[c] = "statement" /\ pend[c] # None => pend[c] = 1..(k[c] - 1)
    /\ pc[c] = "statement" /\ pend[c] = None =>
          /\ x.losses > 0
          /\ \A s \in Statements : s >= k[c] => x.applied[s] < x.losses
    /\ pc[c] = "delete" => ~(x.kind = "query" /\ x.promise = "pending")

Working == \A c \in Conns : Worker(c) /\ (held[c] # None => Progress(c, op[held[c]]))

\* The history of an operation, wherever it is.
History ==
    \A o \in Ops :
        /\ op[o].losses <= lost
        /\ Whole(op[o])
        /\ op[o].state \in {"fresh", "queued"} => Unworked(op[o])
        /\ op[o].state = "fresh" =>
              op[o].promise = "none" /\ ~op[o].waits /\ op[o].called = "no"
        /\ op[o].kind = "query" => op[o].called # "broken"
        /\ op[o].kind = "query" /\ op[o].promise = "broken" =>
              mpc \in {"closing", "closed", "aborted"}

\* The operations that the callbacks of a list wait for.
Futures(l) == [j \in 1..Len(l) |-> l[j].future]

\* Each callback that waits is in one of the processor's lists, once.
Waiting ==
    /\ Distinct(Futures(callbacks)) /\ Distinct(Futures(update)) /\ Distinct(Futures(kept))
    /\ ToSet(Futures(callbacks)) \cap ToSet(Futures(update)) = {}
    /\ ToSet(Futures(callbacks)) \cap ToSet(Futures(kept)) = {}
    /\ ToSet(Futures(update)) \cap ToSet(Futures(kept)) = {}
    /\ \A o \in Ops :
          (op[o].waits /\ op[o].called = "no")
             <=> o \in ToSet(Futures(callbacks)) \cup ToSet(Futures(update))
                          \cup ToSet(Futures(kept))

PoolInv == Types /\ Lifecycle /\ Owners /\ Working /\ History /\ Waiting

-----------------------------------------------------------------------------
(***************************************************************************)
(* The operators on operations and callback lists                           *)
(***************************************************************************)

\* A new operation.
LEMMA NewFields ==
    ASSUME NEW kind \in Kinds
    PROVE  /\ NewOp(kind) \in OpType
           /\ NewOp(kind).kind = kind /\ NewOp(kind).state = "fresh"
           /\ NewOp(kind).promise \in {"none", "pending"}
           /\ kind = "ping" => NewOp(kind).promise = "none"
           /\ \A s \in Statements : NewOp(kind).applied[s] = 0
           /\ NewOp(kind).losses = 0 /\ ~NewOp(kind).waits
           /\ NewOp(kind).called = "no"
BY DEF NewOp, OpType, Kinds

\* An operation as it is queued.
QueuedOp(kind, waits) == [NewOp(kind) EXCEPT !.state = "queued", !.waits = waits]

\* Its fields.
LEMMA QueuedFields ==
    ASSUME NEW kind \in Kinds, NEW waits \in BOOLEAN
    PROVE  /\ QueuedOp(kind, waits) \in OpType
           /\ QueuedOp(kind, waits).kind = kind
           /\ QueuedOp(kind, waits).state = "queued"
           /\ QueuedOp(kind, waits).promise \in {"none", "pending"}
           /\ \A s \in Statements : QueuedOp(kind, waits).applied[s] = 0
           /\ QueuedOp(kind, waits).losses = 0
           /\ QueuedOp(kind, waits).waits = waits
           /\ QueuedOp(kind, waits).called = "no"
<1>0. PICK x : x = QueuedOp(kind, waits)
  OBVIOUS
<1> DEFINE n == NewOp(kind)
<1>1. /\ n \in OpType /\ n.kind = kind /\ n.promise \in {"none", "pending"}
      /\ \A s \in Statements : n.applied[s] = 0
      /\ n.losses = 0 /\ n.called = "no"
  BY NewFields
<1> HIDE DEF n
<1>2. x = [n EXCEPT !.state = "queued", !.waits = waits]
  BY <1>0 DEF n, QueuedOp
<1>3. /\ x \in OpType /\ x.kind = kind /\ x.state = "queued"
      /\ x.promise \in {"none", "pending"}
      /\ \A s \in Statements : x.applied[s] = 0
      /\ x.losses = 0 /\ x.waits = waits /\ x.called = "no"
  BY <1>1, <1>2 DEF OpType
<1> QED BY <1>0, <1>3

\* What an operation writes is a set of statements.
LEMMA WritesStatements ==
    ASSUME NEW x PROVE Writes(x) \in SUBSET Statements
BY PoolAssumption DEF Writes, Statements

\* What the statements in S change.
LEMMA ApplyFields ==
    ASSUME NEW x \in OpType, NEW S
    PROVE  /\ Apply(x, S) \in OpType
           /\ \A s \in Statements : Apply(x, S).applied[s] =
                 IF s \in S THEN x.applied[s] + 1 ELSE x.applied[s]
           /\ Apply(x, S).kind = x.kind /\ Apply(x, S).state = x.state
           /\ Apply(x, S).promise = x.promise /\ Apply(x, S).losses = x.losses
           /\ Apply(x, S).waits = x.waits /\ Apply(x, S).called = x.called
<1> DEFINE f == [s \in Statements |-> IF s \in S THEN x.applied[s] + 1 ELSE x.applied[s]]
<1>1. f \in [Statements -> Nat]
  BY DEF OpType
<1>2. Apply(x, S) = [x EXCEPT !.applied = f]
  BY DEF Apply
<1>3. \A s \in Statements : f[s] = IF s \in S THEN x.applied[s] + 1 ELSE x.applied[s]
  OBVIOUS
<1> HIDE DEF f
<1> QED BY <1>1, <1>2, <1>3 DEF OpType

\* A connection lost.
LEMMA LossFields ==
    ASSUME NEW x \in OpType, NEW S
    PROVE  /\ Lose(x, S) \in OpType /\ Lose(x, S).losses = x.losses + 1
           /\ \A s \in Statements : Lose(x, S).applied[s] =
                 IF s \in S THEN x.applied[s] + 1 ELSE x.applied[s]
           /\ Lose(x, S).kind = x.kind /\ Lose(x, S).state = x.state
           /\ Lose(x, S).promise = x.promise /\ Lose(x, S).waits = x.waits
           /\ Lose(x, S).called = x.called
<1>1. PICK z : z = Apply(x, S)
  OBVIOUS
<1>2. /\ z \in OpType
      /\ \A s \in Statements : z.applied[s] =
            IF s \in S THEN x.applied[s] + 1 ELSE x.applied[s]
      /\ z.kind = x.kind /\ z.state = x.state /\ z.promise = x.promise
      /\ z.losses = x.losses /\ z.waits = x.waits /\ z.called = x.called
  BY <1>1, ApplyFields
<1>3. PICK y : y = Lose(x, S)
  OBVIOUS
<1>4. y = [z EXCEPT !.losses = @ + 1]
  BY <1>1, <1>3 DEF Lose
<1>5. /\ y \in OpType /\ y.losses = z.losses + 1
      /\ y.kind = z.kind /\ y.state = z.state /\ y.promise = z.promise
      /\ y.applied = z.applied /\ y.waits = z.waits /\ y.called = z.called
  BY <1>2, <1>4 DEF OpType
<1>6. /\ y \in OpType /\ y.losses = x.losses + 1
      /\ \A s \in Statements : y.applied[s] =
            IF s \in S THEN x.applied[s] + 1 ELSE x.applied[s]
      /\ y.kind = x.kind /\ y.state = x.state /\ y.promise = x.promise
      /\ y.waits = x.waits /\ y.called = x.called
  BY <1>2, <1>5
<1> QED BY <1>3, <1>6

\* What answering an operation does to its fields.
LEMMA AnswerFields ==
    ASSUME NEW x \in OpType
    PROVE  /\ Answer(x) \in OpType
           /\ Answer(x).promise = IF x.promise = "pending" THEN "set" ELSE x.promise
           /\ Answer(x).kind = x.kind /\ Answer(x).state = x.state
           /\ Answer(x).applied = x.applied /\ Answer(x).losses = x.losses
           /\ Answer(x).waits = x.waits /\ Answer(x).called = x.called
BY DEF OpType, Answer

\* What deleting an operation does to its fields.
LEMMA DeleteFields ==
    ASSUME NEW x \in OpType, NEW state \in {"done", "dropped"}
    PROVE  /\ Delete(x, state) \in OpType
           /\ Delete(x, state).promise = IF x.promise = "pending" THEN "broken" ELSE x.promise
           /\ Delete(x, state).kind = x.kind /\ Delete(x, state).state = state
           /\ Delete(x, state).applied = x.applied
           /\ Delete(x, state).losses = x.losses
           /\ Delete(x, state).waits = x.waits /\ Delete(x, state).called = x.called
BY DEF OpType, Delete

\* The futures of a list of callbacks.
LEMMA FuturesOf ==
    ASSUME NEW l \in CallbackList
    PROVE  /\ Futures(l) \in Seq(Ops) /\ Len(Futures(l)) = Len(l)
           /\ \A j \in 1..Len(l) : Futures(l)[j] = l[j].future
<1> DEFINE R == [future : Ops, left : ChainLengths]
<1>1. Len(l) \in Nat /\ \A j \in 1..Len(l) : l[j] \in R
  BY ElementOfSeq, LenProperties DEF CallbackList
<1>2. \A j \in 1..Len(l) : l[j].future \in Ops
  BY <1>1
<1> QED BY <1>1, <1>2 DEF Futures

\* The futures of a list with one more callback.
LEMMA FuturesAppend ==
    ASSUME NEW l \in CallbackList, NEW o \in Ops, NEW n \in ChainLengths
    PROVE  /\ Append(l, [future |-> o, left |-> n]) \in CallbackList
           /\ Futures(Append(l, [future |-> o, left |-> n])) = Append(Futures(l), o)
<1> DEFINE x == [future |-> o, left |-> n]
           m == Append(l, x)
<1>1. x \in [future : Ops, left : ChainLengths] /\ x.future = o
  OBVIOUS
<1> HIDE DEF x
<1>2. /\ m \in CallbackList /\ Len(m) = Len(l) + 1 /\ Len(l) \in Nat
      /\ \A j \in 1..Len(l) : m[j] = l[j]
      /\ m[Len(l) + 1] = x
  BY <1>1, AppendProperties, LenProperties DEF CallbackList
<1> HIDE DEF m
<1>3. /\ Futures(l) \in Seq(Ops) /\ Len(Futures(l)) = Len(l)
      /\ \A j \in 1..Len(l) : Futures(l)[j] = l[j].future
      /\ Futures(m) \in Seq(Ops) /\ Len(Futures(m)) = Len(m)
      /\ \A j \in 1..Len(m) : Futures(m)[j] = m[j].future
  BY <1>2, FuturesOf
<1>4. /\ Append(Futures(l), o) \in Seq(Ops) /\ Len(Append(Futures(l), o)) = Len(l) + 1
      /\ \A j \in 1..Len(l) : Append(Futures(l), o)[j] = Futures(l)[j]
      /\ Append(Futures(l), o)[Len(l) + 1] = o
  BY <1>3, AppendProperties
<1>5. \A j \in 1..Len(m) : Futures(m)[j] = Append(Futures(l), o)[j]
  <2> DEFINE a == Append(Futures(l), o)
  <2> HIDE DEF a
  <2> SUFFICES ASSUME NEW j \in 1..Len(m) PROVE Futures(m)[j] = a[j]
    BY DEF a
  <2>1. CASE j \in 1..Len(l)
    BY <2>1, <1>2, <1>3, <1>4 DEF a
  <2>2. CASE j = Len(l) + 1
    BY <2>2, <1>1, <1>2, <1>3, <1>4 DEF a
  <2>3. Len(l) \in Nat /\ j \in 1..(Len(l) + 1)
    BY <1>2
  <2> QED BY <2>1, <2>2, <2>3
<1> QED BY <1>2, <1>3, <1>4, <1>5, SeqEqual DEF m, x

\* The futures of a list without its first callback.
LEMMA FuturesTail ==
    ASSUME NEW l \in CallbackList, l # <<>>
    PROVE  /\ Tail(l) \in CallbackList
           /\ Futures(Tail(l)) = Tail(Futures(l))
           /\ Futures(l) # <<>> /\ Head(Futures(l)) = Head(l).future
           /\ Head(l) \in [future : Ops, left : ChainLengths]
<1> DEFINE m == Tail(l)
<1>1. /\ m \in CallbackList /\ Len(m) = Len(l) - 1 /\ Len(l) \in Nat /\ Len(l) > 0
      /\ \A j \in 1..Len(m) : m[j] = l[j + 1]
      /\ Head(l) = l[1] /\ Head(l) \in [future : Ops, left : ChainLengths]
  <2> DEFINE R == [future : Ops, left : ChainLengths]
  <2>1. l \in Seq(R) /\ Len(l) \in Nat
    BY LenProperties DEF CallbackList
  <2> HIDE DEF R
  <2>2. Len(l) # 0
    BY <2>1, EmptySeq
  <2>3. /\ Tail(l) \in Seq(R) /\ Len(Tail(l)) = Len(l) - 1 /\ Head(l) \in R
        /\ \A j \in 1..Len(Tail(l)) : Tail(l)[j] = l[j + 1]
    BY <2>1, HeadTailProperties
  <2>4. Head(l) = l[1]
    BY <2>1
  <2> QED BY <2>1, <2>2, <2>3, <2>4 DEF CallbackList, R
<1> HIDE DEF m
<1>2. /\ Futures(l) \in Seq(Ops) /\ Len(Futures(l)) = Len(l)
      /\ \A j \in 1..Len(l) : Futures(l)[j] = l[j].future
      /\ Futures(m) \in Seq(Ops) /\ Len(Futures(m)) = Len(m)
      /\ \A j \in 1..Len(m) : Futures(m)[j] = m[j].future
  BY <1>1, FuturesOf
<1>3. Futures(l) # <<>>
  BY <1>1, <1>2, EmptySeq
<1>4. /\ Tail(Futures(l)) \in Seq(Ops) /\ Len(Tail(Futures(l))) = Len(l) - 1
      /\ \A j \in 1..Len(m) : Tail(Futures(l))[j] = Futures(l)[j + 1]
      /\ Head(Futures(l)) = Futures(l)[1]
  BY <1>1, <1>2, <1>3, HeadTailProperties
<1>5. \A j \in 1..Len(m) : Futures(m)[j] = Tail(Futures(l))[j]
  BY <1>1, <1>2, <1>4, SMTT(30)
<1> QED BY <1>1, <1>2, <1>3, <1>4, <1>5, SeqEqual DEF m

\* The futures of two lists put together.
LEMMA FuturesConcat ==
    ASSUME NEW l \in CallbackList, NEW m \in CallbackList
    PROVE  /\ l \o m \in CallbackList
           /\ Futures(l \o m) = Futures(l) \o Futures(m)
<1> DEFINE t == l \o m
<1>1. /\ t \in CallbackList /\ Len(t) = Len(l) + Len(m)
      /\ Len(l) \in Nat /\ Len(m) \in Nat
      /\ \A j \in 1..Len(t) : t[j] = IF j <= Len(l) THEN l[j] ELSE m[j - Len(l)]
  BY ConcatProperties, LenProperties DEF CallbackList
<1> HIDE DEF t
<1>2. /\ Futures(l) \in Seq(Ops) /\ Len(Futures(l)) = Len(l)
      /\ \A j \in 1..Len(l) : Futures(l)[j] = l[j].future
      /\ Futures(m) \in Seq(Ops) /\ Len(Futures(m)) = Len(m)
      /\ \A j \in 1..Len(m) : Futures(m)[j] = m[j].future
      /\ Futures(t) \in Seq(Ops) /\ Len(Futures(t)) = Len(t)
      /\ \A j \in 1..Len(t) : Futures(t)[j] = t[j].future
  BY <1>1, FuturesOf
<1> DEFINE u == Futures(l) \o Futures(m)
<1>3. /\ u \in Seq(Ops) /\ Len(u) = Len(l) + Len(m)
      /\ \A j \in 1..Len(t) : u[j] = IF j <= Len(l) THEN Futures(l)[j]
                                                    ELSE Futures(m)[j - Len(l)]
  <2>1. /\ u \in Seq(Ops) /\ Len(u) = Len(Futures(l)) + Len(Futures(m))
        /\ \A j \in 1..(Len(Futures(l)) + Len(Futures(m))) :
              u[j] = IF j <= Len(Futures(l)) THEN Futures(l)[j]
                                             ELSE Futures(m)[j - Len(Futures(l))]
    <3> DEFINE f == Futures(l)
               g == Futures(m)
    <3>1. f \in Seq(Ops) /\ g \in Seq(Ops)
      BY <1>2
    <3> HIDE DEF f, g
    <3>2. /\ f \o g \in Seq(Ops) /\ Len(f \o g) = Len(f) + Len(g)
          /\ \A j \in 1..(Len(f) + Len(g)) :
                (f \o g)[j] = IF j <= Len(f) THEN f[j] ELSE g[j - Len(f)]
      BY <3>1, ConcatProperties
    <3> QED BY <3>2 DEF f, g
  <2> HIDE DEF u
  <2> QED BY <1>1, <1>2, <2>1
<1> HIDE DEF u
<1>4. \A j \in 1..Len(t) : Futures(t)[j] = u[j]
  <2> TAKE j \in 1..Len(t)
  <2>1. CASE j <= Len(l)
    <3>1. j \in 1..Len(l) /\ t[j] = l[j] /\ u[j] = Futures(l)[j]
      BY <2>1, <1>1, <1>3
    <3> QED BY <3>1, <1>2
  <2>2. CASE ~(j <= Len(l))
    <3>1. j - Len(l) \in 1..Len(m)
      BY <2>2, <1>1
    <3>2. Futures(t)[j] = m[j - Len(l)].future
      BY <2>2, <1>1, <1>2
    <3>3. u[j] = Futures(m)[j - Len(l)]
      BY <2>2, <1>3
    <3> QED BY <3>1, <3>2, <3>3, <1>2
  <2> QED BY <2>1, <2>2
<1> QED BY <1>1, <1>2, <1>3, <1>4, SeqEqual DEF t, u

-----------------------------------------------------------------------------
(***************************************************************************)
(* Frames: what a step leaves alone                                         *)
(***************************************************************************)

\* The invariant holds before the pool is opened.
LEMMA PoolInit == Init => PoolInv
<1> SUFFICES ASSUME Init PROVE PoolInv
  OBVIOUS
<1>1. /\ \A o \in Ops : op[o] = NewOp("ping")
      /\ op = [o \in Ops |-> NewOp("ping")]
      /\ queue = <<>> /\ callbacks = <<>> /\ update = <<>> /\ kept = <<>>
  BY DEF Init
<1>2. /\ NewOp("ping") \in OpType
      /\ NewOp("ping").kind = "ping" /\ NewOp("ping").state = "fresh"
      /\ NewOp("ping").promise = "none"
      /\ \A s \in Statements : NewOp("ping").applied[s] = 0
      /\ NewOp("ping").losses = 0 /\ ~NewOp("ping").waits
      /\ NewOp("ping").called = "no"
  <2>1. "ping" \in Kinds
    BY DEF Kinds
  <2> QED BY <2>1, NewFields
<1>3. <<>> \in Seq(Ops) /\ <<>> \in CallbackList /\ ToSet(<<>>) = {} /\ Len(<<>>) = 0
  BY DEF CallbackList, ToSet
<1>4. Futures(<<>>) = <<>>
  BY <1>3, FuturesOf, EmptySeq
<1>5. Distinct(<<>>)
  BY <1>3 DEF Distinct
<1>6. Types
  <2>1. /\ token \in [Conns -> BOOLEAN] /\ pc \in [Conns -> WorkPc]
        /\ held \in [Conns -> Ops \cup {None}]
        /\ pend \in [Conns -> (SUBSET Statements) \cup {None}]
    BY DEF Init, WorkPc
  <2>2. /\ k \in [Conns -> 1..(TransSize + 1)]
        /\ attempt \in [Conns -> 0..MaxRetry]
        /\ 0 \in 0..MaxLost
    BY PoolAssumption DEF Init
  <2>3. op \in [Ops -> OpType]
    BY <1>1, <1>2
  <2> QED BY <1>1, <1>3, <2>1, <2>2, <2>3 DEF Init, Types, MainPc
<1>7. Lifecycle
  BY <1>1, <1>2, PoolAssumption DEF Init, Lifecycle
<1>8. Owners
  BY <1>1, <1>2, <1>3, <1>5, PoolAssumption DEF Init, Owners
<1>9. Working
  BY PoolAssumption DEF Init, Working, Worker
<1>10. History
  <2>1. Whole(NewOp("ping")) /\ Unworked(NewOp("ping"))
    BY <1>2 DEF Whole, Unworked
  <2>2. lost = 0
    BY DEF Init
  <2> QED BY <1>1, <1>2, <2>1, <2>2 DEF History
<1>11. Waiting
  BY <1>1, <1>2, <1>3, <1>4, <1>5 DEF Waiting
<1> QED BY <1>6, <1>7, <1>8, <1>9, <1>10, <1>11 DEF PoolInv

\* What the invariant says of an operation's state does not depend on more.
SameOp(x, y) ==
    /\ x.kind = y.kind /\ x.promise = y.promise
    /\ x.applied = y.applied /\ x.losses = y.losses

\* What was done of an operation is as before when nothing of it was done since.
LEMMA SameMeans ==
    ASSUME NEW x, NEW y, SameOp(x, y)
    PROVE  /\ Unworked(x) => Unworked(y)
           /\ Undone(x) => Undone(y)
           /\ Whole(x) => Whole(y)
BY DEF SameOp, Unworked, Undone, Whole

\* No worker does anything but wake up.
LEMMA NobodyWorks ==
    ASSUME PoolInv, UNCHANGED <<workVars, deadlockLock, opened>>,
           \A d \in Conns : pc'[d] = pc[d] \/ (pc[d] = "sleep" /\ pc'[d] = "pop"),
           \A o \in Ops : op[o].state = "held" => SameOp(op[o], op'[o])
    PROVE  Working'
<1> SUFFICES ASSUME NEW d \in Conns
             PROVE  Worker(d)' /\ (held'[d] # None => Progress(d, op[held[d]])')
  BY DEF Working
<1>1. /\ held'[d] = held[d] /\ k'[d] = k[d] /\ pend'[d] = pend[d]
      /\ attempt'[d] = attempt[d]
  BY DEF workVars
<1>2. Worker(d) /\ (held[d] # None => Progress(d, op[held[d]]))
  BY DEF PoolInv, Working
<1>3. pc[d] = "sleep" => held[d] = None
  BY <1>2 DEF Worker
<1>4. Worker(d)'
  BY <1>1, <1>2 DEF Worker
<1>5. ASSUME held[d] # None PROVE Progress(d, op[held[d]])'
  <2>1. held[d] \in Ops /\ op[held[d]].state = "held"
    BY <1>5 DEF PoolInv, Types, Owners
  <2>2. SameOp(op[held[d]], op'[held[d]])
    BY <2>1
  <2>3. pc'[d] = pc[d]
    BY <1>3, <1>5
  <2> HIDE DEF Progress
  <2>4. Progress(d, op[held[d]])
    BY <1>2, <1>5
  <2> QED BY <1>1, <2>2, <2>3, <2>4, SameMeans DEF Progress, SameOp
<1> QED BY <1>1, <1>4, <1>5

\* One worker c does something, with the operation it holds.
LEMMA OneWorks ==
    ASSUME PoolInv, NEW c \in Conns,
           \A d \in Conns \ {c} :
              /\ pc'[d] = pc[d] /\ held'[d] = held[d] /\ k'[d] = k[d]
              /\ pend'[d] = pend[d] /\ attempt'[d] = attempt[d]
              /\ deadlockLock' = d <=> deadlockLock = d,
           UNCHANGED opened,
           \A o \in Ops : op[o].state = "held" /\ o # held[c] => op'[o] = op[o],
           Worker(c)', held'[c] # None => Progress(c, op[held[c]])'
    PROVE  Working'
<1> SUFFICES ASSUME NEW d \in Conns, d # c
             PROVE  Worker(d)' /\ (held'[d] # None => Progress(d, op[held[d]])')
  BY DEF Working
<1>1. /\ pc'[d] = pc[d] /\ held'[d] = held[d] /\ k'[d] = k[d]
      /\ pend'[d] = pend[d] /\ attempt'[d] = attempt[d]
      /\ deadlockLock' = d <=> deadlockLock = d
  OBVIOUS
<1>2. Worker(d) /\ (held[d] # None => Progress(d, op[held[d]]))
  BY DEF PoolInv, Working
<1>3. Worker(d)'
  BY <1>1, <1>2 DEF Worker
<1>4. ASSUME held[d] # None PROVE Progress(d, op[held[d]])'
  <2>1. held[d] \in Ops /\ op[held[d]].state = "held" /\ held[d] # held[c]
    BY <1>4 DEF PoolInv, Types, Owners
  <2>2. op'[held[d]] = op[held[d]]
    BY <2>1
  <2>3. Progress(d, op[held[d]])
    BY <1>2, <1>4
  <2> QED BY <1>1, <2>2, <2>3 DEF Progress
<1> QED BY <1>1, <1>3, <1>4

\* Operations that change in nothing but their place.
LEMMA SameHistory ==
    ASSUME PoolInv, NEW o \in Ops,
           SameOp(op[o], op'[o]), op'[o].waits = op[o].waits, op'[o].called = op[o].called,
           op'[o].state \in {"fresh", "queued"} => op'[o].state = op[o].state,
           lost' = lost,
           op[o].kind = "query" /\ op[o].promise = "broken" =>
              mpc' \in {"closing", "closed", "aborted"}
    PROVE  /\ op'[o].losses <= lost'
           /\ Whole(op'[o])
           /\ op'[o].state \in {"fresh", "queued"} => Unworked(op'[o])
           /\ op'[o].state = "fresh" =>
                 op'[o].promise = "none" /\ ~op'[o].waits /\ op'[o].called = "no"
           /\ op'[o].kind = "query" => op'[o].called # "broken"
           /\ op'[o].kind = "query" /\ op'[o].promise = "broken" =>
                 mpc' \in {"closing", "closed", "aborted"}
<1>1. /\ op[o].losses <= lost /\ Whole(op[o])
      /\ op[o].state \in {"fresh", "queued"} => Unworked(op[o])
      /\ op[o].state = "fresh" =>
            op[o].promise = "none" /\ ~op[o].waits /\ op[o].called = "no"
      /\ op[o].kind = "query" => op[o].called # "broken"
  BY DEF PoolInv, History
<1> QED BY <1>1, SameMeans DEF SameOp

-----------------------------------------------------------------------------
(***************************************************************************)
(* The invariant is inductive: the main thread                              *)
(***************************************************************************)

\* A step that leaves all operations alone keeps what is said of them.
LEMMA OpsStay ==
    ASSUME PoolInv, UNCHANGED <<op, lost>>,
           mpc \in {"closing", "closed", "aborted"} =>
              mpc' \in {"closing", "closed", "aborted"}
    PROVE  History'
BY DEF PoolInv, History

\* OpenConnections starts, or fails to start, one more connection.
LEMMA OpenConnectionStep ==
    ASSUME PoolInv, NEW c \in Conns, OpenConnection(c)
    PROVE  PoolInv'
<1>1. /\ mpc = "opening" /\ c \notin opened
      /\ opened' = opened \cup {c}
      /\ pc' = [pc EXCEPT ![c] = "pop"]
      /\ token' = [token EXCEPT ![c] = FALSE]
      /\ mpc' = mpc \/ mpc' = "failing"
      /\ UNCHANGED <<dying, dpc, missing, queueVars, workVars, deadlockLock, lost,
                     op, procVars>>
  BY DEF OpenConnection
<1>2. Types'
  BY <1>1 DEF PoolInv, Types, MainPc, WorkPc, queueVars, workVars, procVars
<1>3. Lifecycle'
  BY <1>1 DEF PoolInv, Lifecycle, procVars
<1>4. Owners'
  BY <1>1 DEF PoolInv, Owners, queueVars, workVars
<1>5. History'
  BY <1>1, OpsStay
<1>6. Waiting'
  BY <1>1 DEF PoolInv, Waiting, procVars
<1>7. Working'
  <2> SUFFICES ASSUME NEW d \in Conns
               PROVE  Worker(d)' /\ (held'[d] # None => Progress(d, op[held[d]])')
    BY DEF Working
  <2>1. /\ Worker(d) /\ (held[d] # None => Progress(d, op[held[d]]))
        /\ d \in opened' <=> d \in opened \/ d = c
        /\ held' = held /\ k' = k /\ pend' = pend /\ attempt' = attempt /\ op' = op
        /\ deadlockLock' = deadlockLock
        /\ pc'[d] = IF d = c THEN "pop" ELSE pc[d]
    BY <1>1 DEF PoolInv, Types, Working, workVars
  <2>2. d = c => pc[d] \in {"none", "exit"}
    BY <1>1, <2>1 DEF Worker
  <2>3. Worker(d)'
    BY <2>1, <2>2 DEF Worker
  <2>4. d = c => held[d] = None
    BY <2>1, <2>2 DEF Worker
  <2>5. held[d] # None => Progress(d, op[held[d]])'
    BY <2>1, <2>4 DEF Progress
  <2> QED BY <2>1, <2>3, <2>5
<1> QED BY <1>2, <1>3, <1>4, <1>5, <1>6, <1>7 DEF PoolInv

\* Steps of the main thread that touch neither workers nor operations.
LEMMA MainMoves ==
    ASSUME PoolInv, Lifecycle', Types',
           UNCHANGED <<queueVars, pc, workVars, deadlockLock, lost, op, procVars, opened>>,
           mpc \in {"closing", "closed", "aborted"} =>
              mpc' \in {"closing", "closed", "aborted"}
    PROVE  PoolInv'
<1>1. Owners' /\ Waiting'
  BY DEF PoolInv, Owners, Waiting, queueVars, workVars, procVars
<1>2. History'
  BY OpsStay
<1>3. \A o \in Ops : SameOp(op[o], op'[o])
  BY DEF SameOp
<1>4. Working'
  BY <1>3, NobodyWorks
<1> QED BY <1>1, <1>2, <1>4 DEF PoolInv

\* OpenConnections has opened all connections.
LEMMA PoolOpenedStep ==
    ASSUME PoolInv, PoolOpened
    PROVE  PoolInv'
<1>1. Types' /\ Lifecycle'
  BY DEF PoolOpened, PoolInv, Types, Lifecycle, MainPc, queueVars, workVars, procVars
<1> QED BY <1>1, MainMoves DEF PoolOpened

\* DatabaseLoader opens the pool again.
LEMMA OpenAgainStep ==
    ASSUME PoolInv, OpenAgain
    PROVE  PoolInv'
<1>1. Types' /\ Lifecycle'
  BY DEF OpenAgain, PoolInv, Types, Lifecycle, MainPc, queueVars, workVars, procVars
<1> QED BY <1>1, MainMoves DEF OpenAgain

\* Close begins.
LEMMA CloseStep ==
    ASSUME PoolInv, Close
    PROVE  PoolInv'
<1>1. Types' /\ Lifecycle'
  BY DEF Close, PoolInv, Types, Lifecycle, MainPc, queueVars, workVars, procVars
<1> QED BY <1>1, MainMoves DEF Close

\* The destructor of a worker sets its token.
LEMMA SetTokenStep ==
    ASSUME PoolInv, NEW c \in Conns, SetToken(c)
    PROVE  PoolInv'
<1>1. Types' /\ Lifecycle'
  BY PoolAssumption
  DEF SetToken, PoolInv, Types, Lifecycle, MainPc, queueVars, workVars, procVars
<1> QED BY <1>1, MainMoves DEF SetToken

\* The server gives up.
LEMMA AbortStep ==
    ASSUME PoolInv, NEW c \in Conns, Abort(c)
    PROVE  PoolInv'
<1>1. Types' /\ Lifecycle'
  BY DEF Abort, PoolInv, Types, Lifecycle, MainPc, queueVars, workVars, procVars
<1> QED BY <1>1, MainMoves DEF Abort

\* Nothing changes.
LEMMA StutterStep ==
    ASSUME PoolInv, UNCHANGED vars
    PROVE  PoolInv'
<1>1. Types' /\ Lifecycle'
  BY DEF vars, PoolInv, Types, Lifecycle, mainVars, queueVars, workVars, procVars
<1> QED BY <1>1, MainMoves DEF vars, mainVars

\* A worker wakes up for no reason.
LEMMA SpuriousWakeupStep ==
    ASSUME PoolInv, NEW c \in Conns, SpuriousWakeup(c)
    PROVE  PoolInv'
<1>1. /\ pc[c] = "sleep" /\ pc' = [pc EXCEPT ![c] = "pop"]
      /\ UNCHANGED <<mainVars, queueVars, token, workVars, deadlockLock, lost, op,
                     procVars>>
  BY DEF SpuriousWakeup
<1>2. Types' /\ Lifecycle' /\ Owners' /\ Waiting'
  BY <1>1 DEF PoolInv, Types, Lifecycle, Owners, Waiting, WorkPc, mainVars, queueVars,
              workVars, procVars
<1>3. History'
  BY <1>1, OpsStay DEF mainVars
<1>4. \A d \in Conns : pc'[d] = pc[d] \/ (pc[d] = "sleep" /\ pc'[d] = "pop")
  BY <1>1 DEF PoolInv, Types
<1>5. \A o \in Ops : SameOp(op[o], op'[o])
  BY <1>1 DEF SameOp
<1>6. Working'
  BY <1>1, <1>4, <1>5, NobodyWorks DEF mainVars
<1> QED BY <1>2, <1>3, <1>6 DEF PoolInv

\* The destructor of a worker has joined its thread.
LEMMA JoinStep ==
    ASSUME PoolInv, mpc # "aborted", Join
    PROVE  PoolInv'
<1>1. /\ dpc = "join" /\ pc[dying] = "exit"
      /\ opened' = opened \ {dying} /\ dying' = None /\ dpc' = "none"
      /\ UNCHANGED <<missing, queueVars, token, pc, workVars, deadlockLock, lost,
                     op, procVars>>
  BY DEF Join
<1>3. mpc \in {"closing", "failing"}
  BY <1>1 DEF PoolInv, Lifecycle
<1>2. /\ mpc' \in {mpc, "failed", "closed"}
      /\ mpc' = "failed" => mpc = "failing"
      /\ mpc' = "closed" => mpc = "closing"
  BY <1>3 DEF Join
<1>4. Types'
  BY <1>1, <1>2 DEF PoolInv, Types, MainPc, queueVars, workVars, procVars
<1>6. mpc' \in {mpc, "failed", "closed"} /\ op' = op /\ update' = update /\ kept' = kept
  BY <1>1, <1>2 DEF procVars
<1>7. Owners' /\ Waiting'
  BY <1>1 DEF PoolInv, Owners, Waiting, queueVars, workVars, procVars
<1>8. History'
  BY <1>1, <1>2, <1>3, OpsStay
<1>9. Working'
  <2> SUFFICES ASSUME NEW d \in Conns
               PROVE  Worker(d)' /\ (held'[d] # None => Progress(d, op[held[d]])')
    BY DEF Working
  <2>1. /\ Worker(d) /\ (held[d] # None => Progress(d, op[held[d]]))
        /\ d \notin opened' <=> d \notin opened \/ d = dying
        /\ held' = held /\ k' = k /\ pend' = pend /\ attempt' = attempt /\ op' = op
        /\ deadlockLock' = deadlockLock /\ pc' = pc
    BY <1>1 DEF PoolInv, Working, workVars
  <2>2. Worker(d)'
    BY <1>1, <2>1 DEF Worker
  <2>3. held[d] # None => Progress(d, op[held[d]])'
    BY <2>1 DEF Progress
  <2> QED BY <2>1, <2>2, <2>3
<1>10. Lifecycle'
  BY <1>1, <1>2, <1>3, <1>6 DEF PoolInv, Lifecycle
<1> QED BY <1>4, <1>7, <1>8, <1>9, <1>10 DEF PoolInv

\* Cancel deletes the operations of the queue.
LEMMA CancelStep ==
    ASSUME PoolInv, Cancel
    PROVE  PoolInv'
<1>1. /\ dpc = "cancel" /\ dpc' = "join"
      /\ queue' = <<>> /\ shutdown' = TRUE
      /\ op' = [o \in Ops |-> IF o \in ToSet(queue) THEN Delete(op[o], "dropped")
                                                    ELSE op[o]]
      /\ pc' = [c \in Conns |-> IF c \in Sleepers(pc) THEN "pop" ELSE pc[c]]
      /\ UNCHANGED <<mpc, opened, dying, missing, token, workVars, deadlockLock,
                     lost, procVars>>
  BY DEF Cancel
<1>2. mpc \in {"closing", "failing", "aborted"} /\ dying # None
  BY <1>1 DEF PoolInv, Lifecycle
<1>3. \A d \in Conns : pc'[d] = pc[d] \/ (pc[d] = "sleep" /\ pc'[d] = "pop")
  BY <1>1 DEF Sleepers
<1>4. op \in [Ops -> OpType]
  BY DEF PoolInv, Types
<1>5. ASSUME NEW o \in Ops
      PROVE  /\ op'[o] \in OpType /\ op'[o].kind = op[o].kind
             /\ op'[o].applied = op[o].applied /\ op'[o].losses = op[o].losses
             /\ op'[o].waits = op[o].waits /\ op'[o].called = op[o].called
             /\ op'[o].promise = op[o].promise
                   \/ (op[o].promise = "pending" /\ op'[o].promise = "broken")
             /\ op[o].state = "queued" => op'[o].state = "dropped"
             /\ op[o].state # "queued" => op'[o] = op[o]
  <2>1. op[o].state = "queued" <=> o \in ToSet(queue)
    BY DEF PoolInv, Owners
  <2>2. CASE o \in ToSet(queue)
    <3>1. op'[o] = Delete(op[o], "dropped")
      BY <1>1, <2>2
    <3>2. op[o] \in OpType /\ "dropped" \in {"done", "dropped"}
      BY <1>4
    <3> DEFINE x == op[o]
    <3> HIDE DEF x
    <3>3. /\ Delete(x, "dropped") \in OpType
          /\ Delete(x, "dropped").kind = x.kind /\ Delete(x, "dropped").state = "dropped"
          /\ Delete(x, "dropped").promise =
                IF x.promise = "pending" THEN "broken" ELSE x.promise
      BY <3>2, DeleteFields DEF x
    <3>4. /\ Delete(x, "dropped").applied = x.applied
          /\ Delete(x, "dropped").losses = x.losses
          /\ Delete(x, "dropped").waits = x.waits
          /\ Delete(x, "dropped").called = x.called
      BY <3>2, DeleteFields DEF x
    <3> QED BY <2>1, <2>2, <3>1, <3>3, <3>4 DEF x
  <2>3. CASE o \notin ToSet(queue)
    BY <1>1, <1>4, <2>1, <2>3
  <2> QED BY <2>2, <2>3
<1>6. op' = [o \in Ops |-> op'[o]]
  BY <1>1
<1>7. Types'
  <2>1. op' \in [Ops -> OpType]
    BY <1>5, <1>6
  <2>2. pc' \in [Conns -> WorkPc]
    BY <1>1 DEF PoolInv, Types, WorkPc
  <2> QED BY <1>1, <2>1, <2>2 DEF PoolInv, Types, workVars, procVars
<1>8. Lifecycle'
  <2>1. mpc = "failing" => \A o \in Ops : op'[o].state = "fresh"
    BY <1>5 DEF PoolInv, Lifecycle
  <2> QED BY <1>1, <1>2, <2>1 DEF PoolInv, Lifecycle, procVars
<1>9. Owners'
  <2>1. ToSet(queue') = {} /\ Distinct(queue')
    BY <1>1 DEF ToSet, Distinct
  <2>2. \A o \in Ops : op'[o].state # "queued"
    BY <1>5
  <2>3. \A o \in Ops : op'[o].state = "held" <=> op[o].state = "held"
    BY <1>5
  <2> QED BY <1>1, <2>1, <2>2, <2>3 DEF PoolInv, Owners, workVars
<1>10. Waiting'
  BY <1>1, <1>5 DEF PoolInv, Waiting, procVars
<1>11. Working'
  <2>1. \A o \in Ops : op[o].state = "held" => SameOp(op[o], op'[o])
    BY <1>5 DEF SameOp
  <2> QED BY <1>1, <1>3, <2>1, NobodyWorks
<1>12. History'
  <2> SUFFICES ASSUME NEW o \in Ops
               PROVE  /\ op'[o].losses <= lost'
                      /\ Whole(op'[o])
                      /\ op'[o].state \in {"fresh", "queued"} => Unworked(op'[o])
                      /\ op'[o].state = "fresh" =>
                            op'[o].promise = "none" /\ ~op'[o].waits /\ op'[o].called = "no"
                      /\ op'[o].kind = "query" => op'[o].called # "broken"
                      /\ op'[o].kind = "query" /\ op'[o].promise = "broken" =>
                            mpc' \in {"closing", "closed", "aborted"}
    BY DEF History
  <2>1. /\ op[o].losses <= lost /\ Whole(op[o])
        /\ op[o].state \in {"fresh", "queued"} => Unworked(op[o])
        /\ op[o].state = "fresh" =>
              op[o].promise = "none" /\ ~op[o].waits /\ op[o].called = "no"
        /\ op[o].kind = "query" => op[o].called # "broken"
        /\ op[o].kind = "query" /\ op[o].promise = "broken" =>
              mpc \in {"closing", "closed", "aborted"}
    BY DEF PoolInv, History
  <2>2. CASE op[o].state = "queued"
    <3>1. Whole(op'[o])
      BY <1>5, <2>1 DEF Whole
    <3>2. mpc # "failing"
      BY <2>2 DEF PoolInv, Lifecycle
    <3> QED BY <1>1, <1>2, <1>5, <2>1, <2>2, <3>1, <3>2
  <2>3. CASE op[o].state # "queued"
    BY <1>1, <1>5, <2>1, <2>3
  <2> QED BY <2>2, <2>3
<1> QED BY <1>7, <1>8, <1>9, <1>10, <1>11, <1>12 DEF PoolInv

-----------------------------------------------------------------------------
(***************************************************************************)
(* The invariant is inductive: users and the callback processor             *)
(***************************************************************************)

\* What Push adds, and whom it wakes.
LEMMA Pushing ==
    ASSUME PoolInv, NEW o \in Ops, op[o].state = "fresh",
           NEW kind \in Kinds, NEW waits \in BOOLEAN,
           NEW ops \in [Ops -> OpType], Push(o, kind, waits, ops)
    PROVE  /\ queue' \in Seq(Ops) /\ Distinct(queue')
           /\ ToSet(queue') = ToSet(queue) \cup {o}
           /\ op' \in [Ops -> OpType]
           /\ \A x \in Ops \ {o} : op'[x] = ops[x]
           /\ op'[o].kind = kind /\ op'[o].state = "queued"
           /\ op'[o].promise \in {"none", "pending"}
           /\ \A s \in Statements : op'[o].applied[s] = 0
           /\ op'[o].losses = 0 /\ op'[o].waits = waits /\ op'[o].called = "no"
           /\ pc' \in [Conns -> WorkPc]
           /\ \A d \in Conns : pc'[d] = pc[d] \/ (pc[d] = "sleep" /\ pc'[d] = "pop")
<1>1. /\ queue' = Append(queue, o)
      /\ op' = [ops EXCEPT ![o] = [NewOp(kind) EXCEPT !.state = "queued",
                                                      !.waits = waits]]
      /\ pc' \in IF Sleepers(pc) = {} THEN {pc}
                 ELSE {[pc EXCEPT ![c] = "pop"] : c \in Sleepers(pc)}
  BY DEF Push
<1>2. /\ queue \in Seq(Ops) /\ Distinct(queue) /\ o \notin ToSet(queue)
      /\ pc \in [Conns -> WorkPc]
  BY DEF PoolInv, Types, Owners
<1>3. /\ queue' \in Seq(Ops) /\ Distinct(queue')
      /\ ToSet(queue') = ToSet(queue) \cup {o}
  BY <1>1, <1>2, Pushed
<1>0. PICK x : x = QueuedOp(kind, waits)
  OBVIOUS
<1>4. /\ x \in OpType
      /\ x.kind = kind /\ x.state = "queued"
      /\ x.promise \in {"none", "pending"}
      /\ \A s \in Statements : x.applied[s] = 0
      /\ x.losses = 0 /\ x.waits = waits /\ x.called = "no"
  BY <1>0, QueuedFields
<1>5. op' = [ops EXCEPT ![o] = x]
  BY <1>1, <1>0 DEF QueuedOp
<1>6. /\ op' \in [Ops -> OpType] /\ op'[o] = x
      /\ \A y \in Ops \ {o} : op'[y] = ops[y]
  BY <1>4, <1>5
<1>7. /\ pc' \in [Conns -> WorkPc]
      /\ \A d \in Conns : pc'[d] = pc[d] \/ (pc[d] = "sleep" /\ pc'[d] = "pop")
  <2>1. CASE pc' = pc
    BY <2>1, <1>2
  <2>2. ASSUME NEW c \in Sleepers(pc), pc' = [pc EXCEPT ![c] = "pop"]
        PROVE  /\ pc' \in [Conns -> WorkPc]
               /\ \A d \in Conns : pc'[d] = pc[d] \/ (pc[d] = "sleep" /\ pc'[d] = "pop")
    BY <2>2, <1>2 DEF Sleepers, WorkPc
  <2> QED BY <1>1, <2>1, <2>2
<1> QED BY <1>3, <1>4, <1>6, <1>7

\* An operation o is queued; a callback for it is put in a list if it waits, and
\* the function that was called for the operation p, if any, is over.
LEMMA PushKeeps ==
    ASSUME PoolInv, NEW o \in Ops, op[o].state = "fresh",
           NEW kind \in Kinds, NEW waits \in BOOLEAN,
           NEW ops \in [Ops -> OpType], Push(o, kind, waits, ops),
           NEW P \in SUBSET Ops, o \notin P,
           \A x \in Ops : /\ SameOp(op[x], ops[x]) /\ ops[x].state = op[x].state
                          /\ ops[x].waits = op[x].waits
                          /\ ops[x].called = IF x \in P THEN "set" ELSE op[x].called,
           \A x \in P : op[x].state # "fresh",
           mpc \in {"running", "processing"},
           UNCHANGED <<mpc, opened, held, k, pend, attempt, deadlockLock, lost>>
    PROVE  Owners' /\ Working' /\ History'
<1>1. /\ queue' \in Seq(Ops) /\ Distinct(queue')
      /\ ToSet(queue') = ToSet(queue) \cup {o}
      /\ op' \in [Ops -> OpType]
      /\ \A x \in Ops \ {o} : op'[x] = ops[x]
      /\ op'[o].kind = kind /\ op'[o].state = "queued"
      /\ op'[o].promise \in {"none", "pending"}
      /\ \A s \in Statements : op'[o].applied[s] = 0
      /\ op'[o].losses = 0 /\ op'[o].waits = waits /\ op'[o].called = "no"
      /\ pc' \in [Conns -> WorkPc]
      /\ \A d \in Conns : pc'[d] = pc[d] \/ (pc[d] = "sleep" /\ pc'[d] = "pop")
  BY Pushing
<1>2. \A x \in Ops : x # o => op'[x].state = op[x].state /\ SameOp(op[x], op'[x])
  BY <1>1
<1>3. Owners'
  BY <1>1, <1>2 DEF PoolInv, Owners
<1>4. Working'
  <2>1. \A x \in Ops : op[x].state = "held" => SameOp(op[x], op'[x])
    BY <1>2
  <2> QED BY <1>1, <2>1, NobodyWorks DEF workVars
<1>5. ASSUME NEW x \in Ops
      PROVE  /\ op'[x].losses <= lost'
             /\ Whole(op'[x])
             /\ op'[x].state \in {"fresh", "queued"} => Unworked(op'[x])
             /\ op'[x].state = "fresh" =>
                   op'[x].promise = "none" /\ ~op'[x].waits /\ op'[x].called = "no"
             /\ op'[x].kind = "query" => op'[x].called # "broken"
             /\ op'[x].kind = "query" /\ op'[x].promise = "broken" =>
                   mpc' \in {"closing", "closed", "aborted"}
  <2>1. CASE x = o
    <3>1. 0 <= lost
      BY PoolAssumption DEF PoolInv, Types
    <3>2. Whole(op'[o]) /\ Unworked(op'[o])
      BY <1>1 DEF Whole, Unworked
    <3> QED BY <1>1, <2>1, <3>1, <3>2
  <2>2. CASE x # o
    <3>1. /\ op[x].losses <= lost /\ Whole(op[x])
          /\ op[x].state \in {"fresh", "queued"} => Unworked(op[x])
          /\ op[x].state = "fresh" =>
                op[x].promise = "none" /\ ~op[x].waits /\ op[x].called = "no"
          /\ op[x].kind = "query" => op[x].called # "broken"
          /\ op[x].kind = "query" /\ op[x].promise = "broken" =>
                mpc \in {"closing", "closed", "aborted"}
      BY DEF PoolInv, History
    <3>2. /\ op'[x] = ops[x] /\ SameOp(op[x], op'[x]) /\ op'[x].state = op[x].state
          /\ op'[x].waits = op[x].waits
          /\ op'[x].called = IF x \in P THEN "set" ELSE op[x].called
      BY <1>1, <2>2
    <3>3. /\ Whole(op'[x])
          /\ op'[x].state \in {"fresh", "queued"} => Unworked(op'[x])
      BY <3>1, <3>2, SameMeans
    <3> QED BY <3>1, <3>2, <3>3 DEF SameOp
  <2> QED BY <2>1, <2>2
<1>6. History'
  BY <1>5 DEF History
<1> QED BY <1>3, <1>4, <1>6

\* An operation is put into the queue.
LEMMA EnqueueStep ==
    ASSUME PoolInv, NEW o \in Ops, NEW kind \in Kinds, Enqueue(o, kind)
    PROVE  PoolInv'
<1>1. /\ mpc \in {"running", "processing"} /\ op[o].state = "fresh"
      /\ Push(o, kind, FALSE, op)
      /\ UNCHANGED <<mainVars, shutdown, token, workVars, deadlockLock, lost, procVars>>
  BY DEF Enqueue, Running
<1>2. op \in [Ops -> OpType] /\ FALSE \in BOOLEAN /\ \A x \in Ops : SameOp(op[x], op[x])
  BY DEF PoolInv, Types, SameOp
<1>3. Owners' /\ Working' /\ History'
  <2>1. UNCHANGED <<mpc, opened, held, k, pend, attempt, deadlockLock, lost>>
    BY <1>1 DEF mainVars, workVars
  <2>2. {} \in SUBSET Ops
    OBVIOUS
  <2> DEFINE P == {}
  <2>3. /\ P \in SUBSET Ops /\ o \notin P
        /\ \A x \in P : op[x].state # "fresh"
        /\ \A x \in Ops : /\ SameOp(op[x], op[x]) /\ op[x].state = op[x].state
                          /\ op[x].waits = op[x].waits
                          /\ op[x].called = IF x \in P THEN "set" ELSE op[x].called
    BY <1>2
  <2> HIDE DEF P
  <2> QED BY <1>1, <1>2, <2>1, <2>3, PushKeeps
<1>4. /\ queue' \in Seq(Ops) /\ op' \in [Ops -> OpType]
      /\ pc' \in [Conns -> WorkPc]
      /\ \A x \in Ops \ {o} : op'[x] = op[x]
      /\ ~op'[o].waits
  <2>1. PICK waits \in BOOLEAN : waits = FALSE
    OBVIOUS
  <2>2. Push(o, kind, waits, op)
    BY <1>1, <2>1
  <2>3. /\ queue' \in Seq(Ops) /\ op' \in [Ops -> OpType]
        /\ pc' \in [Conns -> WorkPc]
        /\ \A x \in Ops \ {o} : op'[x] = op[x]
        /\ op'[o].waits = waits
    BY <1>1, <1>2, <2>2, Pushing
  <2> QED BY <2>1, <2>3
<1>5. Types' /\ Lifecycle'
  BY <1>1, <1>4 DEF PoolInv, Types, Lifecycle, mainVars, workVars, procVars
<1>6. ~op[o].waits
  BY <1>1 DEF PoolInv, History
<1>7. Waiting'
  BY <1>1, <1>4, <1>6 DEF PoolInv, Waiting, procVars
<1> QED BY <1>3, <1>5, <1>7 DEF PoolInv

\* A callback is put into the processor's list.
LEMMA AddQueryStep ==
    ASSUME PoolInv, NEW o \in Ops, NEW kind \in Kinds, NEW n \in ChainLengths,
           AddQuery(o, kind, n)
    PROVE  PoolInv'
<1>1. /\ mpc = "running" /\ op[o].state = "fresh"
      /\ Push(o, kind, TRUE, op)
      /\ callbacks' = Append(callbacks, [future |-> o, left |-> n])
      /\ UNCHANGED <<mainVars, shutdown, token, workVars, deadlockLock, lost,
                     update, kept>>
  BY DEF AddQuery
<1>2. op \in [Ops -> OpType] /\ TRUE \in BOOLEAN /\ \A x \in Ops : SameOp(op[x], op[x])
  BY DEF PoolInv, Types, SameOp
<1>3. Owners' /\ Working' /\ History'
  <2>1. UNCHANGED <<mpc, opened, held, k, pend, attempt, deadlockLock, lost>>
    BY <1>1 DEF mainVars, workVars
  <2> DEFINE P == {}
  <2>2. /\ P \in SUBSET Ops /\ o \notin P
        /\ \A x \in P : op[x].state # "fresh"
        /\ \A x \in Ops : /\ SameOp(op[x], op[x]) /\ op[x].state = op[x].state
                          /\ op[x].waits = op[x].waits
                          /\ op[x].called = IF x \in P THEN "set" ELSE op[x].called
    BY <1>2
  <2> HIDE DEF P
  <2> QED BY <1>1, <1>2, <2>1, <2>2, PushKeeps
<1>4. /\ queue' \in Seq(Ops) /\ op' \in [Ops -> OpType]
      /\ pc' \in [Conns -> WorkPc]
      /\ \A x \in Ops \ {o} : op'[x] = op[x]
      /\ op'[o].waits /\ op'[o].called = "no"
  BY <1>1, <1>2, Pushing, ZenonT(40)
<1>5. /\ callbacks' \in CallbackList
      /\ Futures(callbacks') = Append(Futures(callbacks), o)
  BY <1>1, FuturesAppend DEF PoolInv, Types
<1>6. Types' /\ Lifecycle'
  BY <1>1, <1>4, <1>5 DEF PoolInv, Types, Lifecycle, mainVars, workVars
<1>7. o \notin ToSet(Futures(callbacks)) \cup ToSet(Futures(update)) \cup ToSet(Futures(kept))
  BY <1>1 DEF PoolInv, History, Waiting
<1>8. Waiting'
  <2>1. Futures(callbacks) \in Seq(Ops) /\ Distinct(Futures(callbacks))
    BY FuturesOf DEF PoolInv, Types, Waiting
  <2>2. /\ Distinct(Futures(callbacks'))
        /\ ToSet(Futures(callbacks')) = ToSet(Futures(callbacks)) \cup {o}
    BY <1>5, <1>7, <2>1, Pushed
  <2> QED BY <1>1, <1>4, <1>7, <2>2, SMTT(30) DEF PoolInv, Waiting
<1> QED BY <1>3, <1>6, <1>8 DEF PoolInv

\* Taking the next callback out of the list that is processed.
LEMMA Taking ==
    ASSUME PoolInv, update # <<>>, update' = Tail(update)
    PROVE  LET o == Head(update).future
           IN  /\ update' \in CallbackList /\ o \in Ops
               /\ Head(update) \in [future : Ops, left : ChainLengths]
               /\ Distinct(Futures(update'))
               /\ ToSet(Futures(update')) = ToSet(Futures(update)) \ {o}
               /\ o \in ToSet(Futures(update))
               /\ op[o].waits /\ op[o].called = "no" /\ op[o].state # "fresh"
<1>1. update \in CallbackList
  BY DEF PoolInv, Types
<1>2. /\ Tail(update) \in CallbackList
      /\ Futures(Tail(update)) = Tail(Futures(update))
      /\ Futures(update) # <<>> /\ Head(Futures(update)) = Head(update).future
      /\ Head(update) \in [future : Ops, left : ChainLengths]
  BY <1>1, FuturesTail
<1>3. Futures(update) \in Seq(Ops) /\ Distinct(Futures(update))
  BY <1>1, FuturesOf DEF PoolInv, Waiting
<1> DEFINE f == Futures(update)
<1> HIDE DEF f
<1>4. /\ Distinct(Tail(f)) /\ Head(f) \in ToSet(f)
      /\ ToSet(Tail(f)) = ToSet(f) \ {Head(f)}
  BY <1>2, <1>3, Popped DEF f
<1>5. Head(update).future \in Ops
  BY <1>2
<1>6. /\ op[Head(update).future].waits /\ op[Head(update).future].called = "no"
      /\ op[Head(update).future].state # "fresh"
  BY <1>2, <1>4, <1>5 DEF PoolInv, Waiting, History, f
<1> QED BY <1>2, <1>4, <1>5, <1>6 DEF f

\* Steps of the processor that call no function.
LEMMA ProcessorMoves ==
    ASSUME PoolInv, Types', Lifecycle', Waiting',
           UNCHANGED <<opened, dying, dpc, missing, queueVars, token, pc, workVars,
                       deadlockLock, lost, op>>,
           mpc \in {"running", "processing"}
    PROVE  PoolInv'
<1>1. Owners'
  BY DEF PoolInv, Owners, queueVars, workVars
<1>2. History'
  BY OpsStay
<1>3. \A o \in Ops : SameOp(op[o], op'[o])
  BY DEF SameOp
<1>4. Working'
  BY <1>3, NobodyWorks
<1> QED BY <1>1, <1>2, <1>4 DEF PoolInv

\* ProcessReadyQueries takes the list.
LEMMA ProcessReadyQueriesStep ==
    ASSUME PoolInv, ProcessReadyQueries
    PROVE  PoolInv'
<1>1. /\ mpc = "running" /\ mpc' = "processing"
      /\ update' = callbacks /\ callbacks' = <<>>
      /\ UNCHANGED <<opened, dying, dpc, missing, queueVars, token, pc, workVars,
                     deadlockLock, lost, op, kept>>
  BY DEF ProcessReadyQueries
<1>2. update = <<>> /\ kept = <<>>
  BY <1>1 DEF PoolInv, Lifecycle
<1>3. callbacks' \in CallbackList /\ update' \in CallbackList
  BY <1>1 DEF PoolInv, Types, CallbackList
<1>4. Futures(<<>>) = <<>> /\ ToSet(<<>>) = {} /\ Distinct(<<>>)
  <2>1. <<>> \in CallbackList /\ ToSet(<<>>) = {} /\ Len(<<>>) = 0
    BY DEF CallbackList, ToSet
  <2> QED BY <2>1, FuturesOf, EmptySeq DEF Distinct
<1>5. Waiting'
  BY <1>1, <1>2, <1>4 DEF PoolInv, Waiting
<1>6. Types' /\ Lifecycle'
  BY <1>1, <1>2, <1>3
  DEF PoolInv, Types, Lifecycle, MainPc, queueVars, workVars
<1> QED BY <1>1, <1>5, <1>6, ProcessorMoves

\* A callback whose future is not ready is kept.
LEMMA NotReadyStep ==
    ASSUME PoolInv, NotReady
    PROVE  PoolInv'
<1>1. /\ mpc = "processing" /\ update # <<>>
      /\ kept' = Append(kept, Head(update))
      /\ update' = Tail(update)
      /\ UNCHANGED <<mainVars, queueVars, token, pc, workVars, deadlockLock, lost,
                     op, callbacks>>
  BY DEF NotReady
<1>2. PICK o : o = Head(update).future
  OBVIOUS
<1>3. /\ update' \in CallbackList /\ o \in Ops
      /\ Head(update) \in [future : Ops, left : ChainLengths]
      /\ Distinct(Futures(update'))
      /\ ToSet(Futures(update')) = ToSet(Futures(update)) \ {o}
      /\ o \in ToSet(Futures(update))
  BY <1>1, <1>2, Taking
<1>4. kept' \in CallbackList /\ Futures(kept') = Append(Futures(kept), o)
  <2>1. PICK n \in ChainLengths : Head(update) = [future |-> o, left |-> n]
    BY <1>2, <1>3
  <2> QED BY <1>1, <1>3, <2>1, FuturesAppend, ZenonT(40) DEF PoolInv, Types
<1>5. o \notin ToSet(Futures(kept)) /\ o \notin ToSet(Futures(callbacks))
  BY <1>3 DEF PoolInv, Waiting
<1>6. /\ Distinct(Futures(kept'))
      /\ ToSet(Futures(kept')) = ToSet(Futures(kept)) \cup {o}
  <2>1. Futures(kept) \in Seq(Ops) /\ Distinct(Futures(kept))
    BY FuturesOf DEF PoolInv, Types, Waiting
  <2> QED BY <1>3, <1>4, <1>5, <2>1, Pushed
<1>7. Waiting'
  BY <1>1, <1>3, <1>5, <1>6 DEF PoolInv, Waiting
<1>8. Types' /\ Lifecycle'
  BY <1>1, <1>3, <1>4 DEF PoolInv, Types, Lifecycle, mainVars, queueVars, workVars
<1> QED BY <1>1, <1>7, <1>8, ProcessorMoves DEF mainVars

\* ProcessReadyQueries puts back the callbacks it kept.
LEMMA EndProcessStep ==
    ASSUME PoolInv, EndProcess
    PROVE  PoolInv'
<1>1. /\ mpc = "processing" /\ update = <<>> /\ mpc' = "running"
      /\ callbacks' = callbacks \o kept /\ kept' = <<>>
      /\ UNCHANGED <<opened, dying, dpc, missing, queueVars, token, pc, workVars,
                     deadlockLock, lost, op, update>>
  BY DEF EndProcess
<1>2. /\ callbacks' \in CallbackList /\ kept' \in CallbackList
      /\ Futures(callbacks') = Futures(callbacks) \o Futures(kept)
  BY <1>1, FuturesConcat DEF PoolInv, Types, CallbackList
<1>3. /\ Distinct(Futures(callbacks'))
      /\ ToSet(Futures(callbacks')) = ToSet(Futures(callbacks)) \cup ToSet(Futures(kept))
  <2> DEFINE f == Futures(callbacks)
             g == Futures(kept)
  <2>1. /\ f \in Seq(Ops) /\ g \in Seq(Ops) /\ Distinct(f) /\ Distinct(g)
        /\ ToSet(f) \cap ToSet(g) = {}
    BY FuturesOf DEF PoolInv, Types, Waiting
  <2> HIDE DEF f, g
  <2>2. Distinct(f \o g) /\ ToSet(f \o g) = ToSet(f) \cup ToSet(g)
    BY <2>1, Joined
  <2> QED BY <1>2, <2>2 DEF f, g
<1>4. Futures(<<>>) = <<>> /\ ToSet(<<>>) = {} /\ Distinct(<<>>)
  <2>1. <<>> \in CallbackList /\ ToSet(<<>>) = {} /\ Len(<<>>) = 0
    BY DEF CallbackList, ToSet
  <2> QED BY <2>1, FuturesOf, EmptySeq DEF Distinct
<1>5. Waiting'
  BY <1>1, <1>3, <1>4 DEF PoolInv, Waiting
<1>6. Types' /\ Lifecycle'
  BY <1>1, <1>2 DEF PoolInv, Types, Lifecycle, MainPc, queueVars, workVars
<1> QED BY <1>1, <1>5, <1>6, ProcessorMoves
\* A callback is called: only that is noted of the operation it waited for.
Noted(o, v) == [op EXCEPT ![o].called = v]

\* What that changes.
LEMMA CalledOnly ==
    ASSUME op \in [Ops -> OpType], NEW o \in Ops, NEW v \in {"no", "set", "broken"},
           NEW ops, ops = Noted(o, v)
    PROVE  /\ ops \in [Ops -> OpType]
           /\ \A x \in Ops :
                 /\ SameOp(op[x], ops[x]) /\ ops[x].state = op[x].state
                 /\ ops[x].waits = op[x].waits
                 /\ ops[x].called = IF x = o THEN v ELSE op[x].called
<1>1. PICK y : y = [op[o] EXCEPT !.called = v]
  OBVIOUS
<1>2. op[o] \in OpType
  OBVIOUS
<1>3. /\ y \in OpType /\ SameOp(op[o], y) /\ y.state = op[o].state
      /\ y.waits = op[o].waits /\ y.called = v
  BY <1>1, <1>2 DEF OpType, SameOp
<1>4. ops = [op EXCEPT ![o] = y]
  BY <1>1 DEF Noted
<1>5. /\ ops \in [Ops -> OpType] /\ ops[o] = y
      /\ \A x \in Ops \ {o} : ops[x] = op[x]
  BY <1>3, <1>4
<1> QED BY <1>3, <1>5 DEF SameOp

\* A callback is called and done.
LEMMA CompletedStep ==
    ASSUME PoolInv, Completed
    PROVE  PoolInv'
<1>1. PICK o : o = Head(update).future
  OBVIOUS
<1>2. /\ mpc = "processing" /\ update # <<>>
      /\ op[o].promise \in {"set", "broken"}
      /\ op' = [op EXCEPT ![o].called = op[o].promise]
      /\ mpc' = IF op[o].kind = "query" /\ op[o].promise = "broken"
                  THEN "aborted" ELSE mpc
      /\ update' = Tail(update)
      /\ UNCHANGED <<opened, dying, dpc, missing, queueVars, token, pc, workVars,
                     deadlockLock, lost, callbacks, kept>>
  BY <1>1 DEF Completed, Ready
<1>3. /\ update' \in CallbackList /\ o \in Ops
      /\ Distinct(Futures(update'))
      /\ ToSet(Futures(update')) = ToSet(Futures(update)) \ {o}
      /\ o \in ToSet(Futures(update))
      /\ op[o].waits /\ op[o].called = "no" /\ op[o].state # "fresh"
  BY <1>1, <1>2, Taking
<1>4. ~(op[o].kind = "query" /\ op[o].promise = "broken") /\ mpc' = mpc
  BY <1>2, <1>3 DEF PoolInv, History
<1>5. PICK v : v = op[o].promise
  OBVIOUS
<1>6. v \in {"no", "set", "broken"} /\ op' = Noted(o, v)
  BY <1>2, <1>5 DEF Noted
<1>7. op \in [Ops -> OpType]
  BY DEF PoolInv, Types
<1>8. /\ op' \in [Ops -> OpType]
      /\ \A x \in Ops :
            /\ SameOp(op[x], op'[x]) /\ op'[x].state = op[x].state
            /\ op'[x].waits = op[x].waits
            /\ op'[x].called = IF x = o THEN v ELSE op[x].called
  BY <1>3, <1>6, <1>7, CalledOnly
<1>9. Types' /\ Lifecycle'
  BY <1>2, <1>3, <1>4, <1>8 DEF PoolInv, Types, Lifecycle, queueVars, workVars
<1>10. Owners'
  BY <1>2, <1>8 DEF PoolInv, Owners, queueVars, workVars
<1>11. Working'
  BY <1>2, <1>8, NobodyWorks
<1>12. History'
  <2> SUFFICES ASSUME NEW x \in Ops
               PROVE  /\ op'[x].losses <= lost'
                      /\ Whole(op'[x])
                      /\ op'[x].state \in {"fresh", "queued"} => Unworked(op'[x])
                      /\ op'[x].state = "fresh" =>
                            op'[x].promise = "none" /\ ~op'[x].waits /\ op'[x].called = "no"
                      /\ op'[x].kind = "query" => op'[x].called # "broken"
                      /\ op'[x].kind = "query" /\ op'[x].promise = "broken" =>
                            mpc' \in {"closing", "closed", "aborted"}
    BY DEF History
  <2>1. /\ op[x].losses <= lost /\ Whole(op[x])
        /\ op[x].state \in {"fresh", "queued"} => Unworked(op[x])
        /\ op[x].state = "fresh" =>
              op[x].promise = "none" /\ ~op[x].waits /\ op[x].called = "no"
        /\ op[x].kind = "query" => op[x].called # "broken"
        /\ op[x].kind = "query" /\ op[x].promise = "broken" =>
              mpc \in {"closing", "closed", "aborted"}
    BY DEF PoolInv, History
  <2>2. /\ SameOp(op[x], op'[x]) /\ op'[x].state = op[x].state
        /\ op'[x].waits = op[x].waits
        /\ op'[x].called = IF x = o THEN v ELSE op[x].called
    BY <1>8
  <2>3. /\ Whole(op'[x])
        /\ op'[x].state \in {"fresh", "queued"} => Unworked(op'[x])
    BY <2>1, <2>2, SameMeans
  <2>4. op'[x].kind = op[x].kind /\ op'[x].promise = op[x].promise
        /\ op'[x].losses = op[x].losses
    BY <2>2 DEF SameOp
  <2>5. op[x].kind = "query" => op'[x].called # "broken"
    BY <1>4, <1>5, <2>1, <2>2
  <2> QED BY <1>2, <1>3, <1>4, <2>1, <2>2, <2>3, <2>4, <2>5
<1>13. Waiting'
  <2>1. o \notin ToSet(Futures(callbacks)) /\ o \notin ToSet(Futures(kept))
    BY <1>3 DEF PoolInv, Waiting
  <2>2. op'[o].called # "no"
    BY <1>2, <1>3, <1>5, <1>8
  <2> QED BY <1>2, <1>3, <1>8, <2>1, <2>2 DEF PoolInv, Waiting
<1> QED BY <1>9, <1>10, <1>11, <1>12, <1>13 DEF PoolInv

\* A callback is called and its function adds another operation n.
LEMMA CallAdds ==
    ASSUME PoolInv, mpc = "processing", update # <<>>, update' = Tail(update),
           NEW o, o = Head(update).future,
           NEW n \in Ops, op[n].state = "fresh", NEW kind \in Kinds,
           NEW ops, ops = Noted(o, "set"), NEW waits \in BOOLEAN,
           Push(n, kind, waits, ops),
           UNCHANGED <<mpc, opened, held, k, pend, attempt, deadlockLock, lost>>
    PROVE  /\ Owners' /\ Working' /\ History'
           /\ queue' \in Seq(Ops) /\ op' \in [Ops -> OpType]
           /\ pc' \in [Conns -> WorkPc]
           /\ n \notin ToSet(Futures(callbacks)) \cup ToSet(Futures(update))
                         \cup ToSet(Futures(kept))
           /\ \A x \in Ops : (op'[x].waits /\ op'[x].called = "no")
                 <=> (x = n /\ waits) \/ (x # o /\ op[x].waits /\ op[x].called = "no")
<1>1. o \in Ops /\ op[o].waits /\ op[o].called = "no" /\ op[o].state # "fresh"
  BY Taking
<1>3. PICK v \in {"no", "set", "broken"} : v = "set"
  OBVIOUS
<1>4. op \in [Ops -> OpType]
  BY DEF PoolInv, Types
<1>5. ops = Noted(o, v)
  BY <1>3
<1>6. /\ ops \in [Ops -> OpType]
      /\ \A x \in Ops :
            /\ SameOp(op[x], ops[x]) /\ ops[x].state = op[x].state
            /\ ops[x].waits = op[x].waits
            /\ ops[x].called = IF x = o THEN v ELSE op[x].called
  BY <1>1, <1>4, <1>5, CalledOnly
<1>7. n # o
  BY <1>1
<1>9. Owners' /\ Working' /\ History'
  <2> DEFINE P == {o}
  <2>1. /\ P \in SUBSET Ops /\ n \notin P
        /\ \A x \in P : op[x].state # "fresh"
        /\ \A x \in Ops : /\ SameOp(op[x], ops[x]) /\ ops[x].state = op[x].state
                          /\ ops[x].waits = op[x].waits
                          /\ ops[x].called = IF x \in P THEN "set" ELSE op[x].called
    BY <1>1, <1>3, <1>6, <1>7
  <2>2. mpc \in {"running", "processing"}
    OBVIOUS
  <2> HIDE DEF P
  <2> QED BY <1>6, <2>1, <2>2, PushKeeps
<1>10. /\ queue' \in Seq(Ops) /\ op' \in [Ops -> OpType]
       /\ pc' \in [Conns -> WorkPc]
       /\ \A x \in Ops \ {n} : op'[x] = ops[x]
       /\ op'[n].waits = waits /\ op'[n].called = "no"
  BY <1>6, Pushing
<1>11. n \notin ToSet(Futures(callbacks)) \cup ToSet(Futures(update))
                  \cup ToSet(Futures(kept))
  BY DEF PoolInv, History, Waiting
<1>12. ASSUME NEW x \in Ops
       PROVE  (op'[x].waits /\ op'[x].called = "no")
                 <=> (x = n /\ waits) \/ (x # o /\ op[x].waits /\ op[x].called = "no")
  <2>1. CASE x = n
    <3>1. op'[x].waits = waits /\ op'[x].called = "no"
      BY <1>10, <2>1
    <3>2. CASE waits = TRUE
      BY <2>1, <3>1, <3>2
    <3>3. CASE waits = FALSE
      BY <1>7, <2>1, <3>1, <3>3 DEF PoolInv, History
    <3> QED BY <3>2, <3>3
  <2>2. CASE x # n
    <3>1. op'[x] = ops[x]
      BY <1>10, <2>2
    <3> QED BY <1>3, <1>6, <2>2, <3>1
  <2> QED BY <2>1, <2>2
<1> QED BY <1>9, <1>10, <1>11, <1>12

\* A callback is called and adds a query.
LEMMA CompletedAddingStep ==
    ASSUME PoolInv, NEW n \in Ops, CompletedAdding(n)
    PROVE  PoolInv'
<1>1. PICK o : o = Head(update).future
  OBVIOUS
<1>a. PICK ops : ops = Noted(o, "set")
  OBVIOUS
<1>b. PICK waits \in BOOLEAN : waits = TRUE
  OBVIOUS
<1>2. PICK kind : kind = "transaction"
  OBVIOUS
<1>3. /\ mpc = "processing" /\ update # <<>> /\ op[n].state = "fresh"
      /\ Push(n, kind, waits, ops)
      /\ callbacks' = Append(callbacks, [future |-> n, left |-> 1])
      /\ update' = Tail(update)
      /\ UNCHANGED <<mainVars, shutdown, token, workVars, deadlockLock, lost, kept>>
  BY <1>1, <1>2, <1>a, <1>b DEF CompletedAdding, Noted
<1>4. kind \in Kinds
  BY <1>2 DEF Kinds
<1>5. UNCHANGED <<mpc, opened, held, k, pend, attempt, deadlockLock, lost>>
  BY <1>3 DEF mainVars, workVars
<1>6. /\ Owners' /\ Working' /\ History'
      /\ queue' \in Seq(Ops) /\ op' \in [Ops -> OpType]
      /\ pc' \in [Conns -> WorkPc]
      /\ n \notin ToSet(Futures(callbacks)) \cup ToSet(Futures(update))
                    \cup ToSet(Futures(kept))
      /\ \A x \in Ops : (op'[x].waits /\ op'[x].called = "no")
            <=> (x = n /\ waits) \/ (x # o /\ op[x].waits /\ op[x].called = "no")
  BY <1>a, <1>1, <1>3, <1>4, <1>5, CallAdds
<1>7. /\ update' \in CallbackList /\ o \in Ops
      /\ Distinct(Futures(update'))
      /\ ToSet(Futures(update')) = ToSet(Futures(update)) \ {o}
      /\ o \in ToSet(Futures(update))
  BY <1>1, <1>3, Taking
<1>8. /\ callbacks' \in CallbackList
      /\ Futures(callbacks') = Append(Futures(callbacks), n)
  <2>1. PICK j \in ChainLengths : j = 1
    BY DEF ChainLengths
  <2>2. callbacks \in CallbackList
    BY DEF PoolInv, Types
  <2> QED BY <1>3, <2>1, <2>2, FuturesAppend
<1>9. /\ Distinct(Futures(callbacks'))
      /\ ToSet(Futures(callbacks')) = ToSet(Futures(callbacks)) \cup {n}
  <2>1. Futures(callbacks) \in Seq(Ops) /\ Distinct(Futures(callbacks))
    BY FuturesOf DEF PoolInv, Types, Waiting
  <2> QED BY <1>6, <1>8, <2>1, Pushed
<1>10. Types' /\ Lifecycle'
  <2>1. \A x \in Ops : mpc' \notin {"opening", "failing", "failed"}
    BY <1>3, <1>5
  <2> QED BY <1>3, <1>6, <1>7, <1>8, <2>1 DEF PoolInv, Types, Lifecycle, mainVars, workVars
<1>11. Waiting'
  BY <1>b, <1>3, <1>6, <1>7, <1>9 DEF PoolInv, Waiting
<1> QED BY <1>6, <1>10, <1>11 DEF PoolInv

\* A callback is called and goes on with a chained query.
LEMMA NextStepStep ==
    ASSUME PoolInv, NEW n \in Ops, NextStep(n)
    PROVE  PoolInv'
<1>1. PICK o : o = Head(update).future
  OBVIOUS
<1>a. PICK ops : ops = Noted(o, "set")
  OBVIOUS
<1>b. PICK waits \in BOOLEAN : waits = TRUE
  OBVIOUS
<1>2. PICK kind : kind = "query"
  OBVIOUS
<1>3. PICK j : j = IF Head(update).left > 1 THEN Head(update).left - 1 ELSE 1
  OBVIOUS
<1>4. /\ mpc = "processing" /\ update # <<>> /\ op[n].state = "fresh"
      /\ Push(n, kind, waits, ops)
      /\ kept' = Append(kept, [future |-> n, left |-> j])
      /\ update' = Tail(update)
      /\ UNCHANGED <<mainVars, shutdown, token, workVars, deadlockLock, lost, callbacks>>
  BY <1>1, <1>2, <1>3, <1>a, <1>b DEF NextStep, Noted
<1>5. kind \in Kinds
  BY <1>2 DEF Kinds
<1>6. UNCHANGED <<mpc, opened, held, k, pend, attempt, deadlockLock, lost>>
  BY <1>4 DEF mainVars, workVars
<1>7. /\ Owners' /\ Working' /\ History'
      /\ queue' \in Seq(Ops) /\ op' \in [Ops -> OpType]
      /\ pc' \in [Conns -> WorkPc]
      /\ n \notin ToSet(Futures(callbacks)) \cup ToSet(Futures(update))
                    \cup ToSet(Futures(kept))
      /\ \A x \in Ops : (op'[x].waits /\ op'[x].called = "no")
            <=> (x = n /\ waits) \/ (x # o /\ op[x].waits /\ op[x].called = "no")
  BY <1>a, <1>1, <1>4, <1>5, <1>6, CallAdds
<1>8. /\ update' \in CallbackList /\ o \in Ops
      /\ Head(update) \in [future : Ops, left : ChainLengths]
      /\ Distinct(Futures(update'))
      /\ ToSet(Futures(update')) = ToSet(Futures(update)) \ {o}
      /\ o \in ToSet(Futures(update))
  BY <1>1, <1>4, Taking
<1>9. kept' \in CallbackList /\ Futures(kept') = Append(Futures(kept), n)
  <2>1. j \in ChainLengths
    BY <1>3, <1>8 DEF ChainLengths
  <2>2. kept \in CallbackList
    BY DEF PoolInv, Types
  <2> QED BY <1>4, <2>1, <2>2, FuturesAppend
<1>10. /\ Distinct(Futures(kept'))
       /\ ToSet(Futures(kept')) = ToSet(Futures(kept)) \cup {n}
  <2>1. Futures(kept) \in Seq(Ops) /\ Distinct(Futures(kept))
    BY FuturesOf DEF PoolInv, Types, Waiting
  <2> QED BY <1>7, <1>9, <2>1, Pushed
<1>11. Types' /\ Lifecycle'
  BY <1>4, <1>7, <1>8, <1>9 DEF PoolInv, Types, Lifecycle, mainVars, workVars
<1>12. Waiting'
  BY <1>b, <1>4, <1>7, <1>8, <1>10 DEF PoolInv, Waiting
<1> QED BY <1>7, <1>11, <1>12 DEF PoolInv
-----------------------------------------------------------------------------
(***************************************************************************)
(* The invariant is inductive: the workers                                  *)
(***************************************************************************)

\* What worker c may do to an operation x: to the one it holds, or to the one
\* it pops.
Handled(c, x) ==
    /\ op[x].state # "fresh" /\ (op[x].state = "held" => x = held[c])
    /\ op'[x].kind = op[x].kind /\ op'[x].waits = op[x].waits
    /\ op'[x].called = op[x].called
    /\ op'[x].state \notin {"fresh", "queued"}
    /\ op'[x].losses <= lost' /\ Whole(op'[x])
    /\ op[x].kind = "query" =>
          op'[x].promise # "broken" \/ op'[x].promise = op[x].promise

\* What a step of worker c must show to keep the invariant.
LEMMA WorkerMoves ==
    ASSUME PoolInv, NEW c \in Conns,
           UNCHANGED <<mainVars, shutdown, token, procVars>>,
           op' \in [Ops -> OpType],
           \A x \in Ops : op'[x] = op[x] \/ Handled(c, x),
           queue' \in Seq(Ops),
           pc' \in [Conns -> WorkPc],
           held' \in [Conns -> Ops \cup {None}],
           k' \in [Conns -> 1..(TransSize + 1)],
           pend' \in [Conns -> (SUBSET Statements) \cup {None}],
           attempt' \in [Conns -> 0..MaxRetry],
           deadlockLock' \in Conns \cup {None},
           lost' \in 0..MaxLost, lost <= lost',
           Owners',
           \A d \in Conns \ {c} :
              /\ pc'[d] = pc[d] /\ held'[d] = held[d] /\ k'[d] = k[d]
              /\ pend'[d] = pend[d] /\ attempt'[d] = attempt[d]
              /\ deadlockLock' = d <=> deadlockLock = d,
           Worker(c)', held'[c] # None => Progress(c, op[held[c]])'
    PROVE  PoolInv'
<1>1. Types'
  BY DEF PoolInv, Types, mainVars, procVars
<1>2. Lifecycle'
  <2>1. ASSUME mpc \in {"opening", "failing", "failed"}, NEW x \in Ops
        PROVE  op'[x].state = "fresh"
    <3>1. op[x].state = "fresh"
      BY <2>1 DEF PoolInv, Lifecycle
    <3> QED BY <3>1 DEF Handled
  <2> QED BY <2>1 DEF PoolInv, Lifecycle, mainVars, procVars
<1>3. Working'
  <2>1. \A o \in Ops : op[o].state = "held" /\ o # held[c] => op'[o] = op[o]
    BY DEF Handled
  <2>2. UNCHANGED opened
    BY DEF mainVars
  <2> QED BY <2>1, <2>2, OneWorks
<1>4. History'
  <2> SUFFICES ASSUME NEW x \in Ops
               PROVE  /\ op'[x].losses <= lost'
                      /\ Whole(op'[x])
                      /\ op'[x].state \in {"fresh", "queued"} => Unworked(op'[x])
                      /\ op'[x].state = "fresh" =>
                            op'[x].promise = "none" /\ ~op'[x].waits /\ op'[x].called = "no"
                      /\ op'[x].kind = "query" => op'[x].called # "broken"
                      /\ op'[x].kind = "query" /\ op'[x].promise = "broken" =>
                            mpc' \in {"closing", "closed", "aborted"}
    BY DEF History
  <2>1. /\ op[x].losses <= lost /\ Whole(op[x])
        /\ op[x].state \in {"fresh", "queued"} => Unworked(op[x])
        /\ op[x].state = "fresh" =>
              op[x].promise = "none" /\ ~op[x].waits /\ op[x].called = "no"
        /\ op[x].kind = "query" => op[x].called # "broken"
        /\ op[x].kind = "query" /\ op[x].promise = "broken" =>
              mpc \in {"closing", "closed", "aborted"}
    BY DEF PoolInv, History
  <2>2. mpc' = mpc
    BY DEF mainVars
  <2>3. CASE op'[x] = op[x]
    <3>1. op[x].losses \in Nat /\ lost \in Nat /\ lost' \in Nat
      BY PoolAssumption DEF PoolInv, Types, OpType
    <3>2. op'[x].losses <= lost'
      BY <2>1, <2>3, <3>1
    <3> QED BY <2>1, <2>2, <2>3, <3>2
  <2>4. CASE Handled(c, x)
    BY <2>1, <2>2, <2>4 DEF Handled
  <2> QED BY <2>3, <2>4
<1>5. Waiting'
  <2>1. \A x \in Ops : op'[x].waits = op[x].waits /\ op'[x].called = op[x].called
    BY DEF Handled
  <2> QED BY <2>1 DEF PoolInv, Waiting, procVars
<1> QED BY <1>1, <1>2, <1>3, <1>4, <1>5 DEF PoolInv

\* No operation changes hands.
LEMMA OwnersStay ==
    ASSUME PoolInv, UNCHANGED <<queue, held>>,
           \A x \in Ops : op'[x].state = op[x].state
    PROVE  Owners'
BY DEF PoolInv, Owners

\* A worker that is busy holds an operation, and owns nothing another does.
LEMMA Busy ==
    ASSUME PoolInv, NEW c \in Conns
    PROVE  /\ Worker(c)
           /\ held[c] # None => /\ held[c] \in Ops /\ op[held[c]].state = "held"
                                /\ op[held[c]] \in OpType
                                /\ Progress(c, op[held[c]])
                                /\ Whole(op[held[c]])
                                /\ op[held[c]].losses <= lost
           /\ \A d \in Conns : deadlockLock = d /\ deadlockLock = c => d = c
           /\ None \notin Conns /\ None \notin Ops
BY PoolAssumption DEF PoolInv, Types, Owners, Working, History

\* A worker takes an operation from the queue, sleeps, or finds it shut down.
LEMMA WaitAndPopStep ==
    ASSUME PoolInv, NEW c \in Conns, WaitAndPop(c)
    PROVE  PoolInv'
<1>1. /\ pc[c] = "pop"
      /\ UNCHANGED <<mainVars, shutdown, token, k, pend, attempt, deadlockLock,
                     lost, procVars>>
  BY DEF WaitAndPop
<1>2. /\ pc \in [Conns -> WorkPc] /\ held \in [Conns -> Ops \cup {None}]
      /\ op \in [Ops -> OpType] /\ queue \in Seq(Ops) /\ lost \in 0..MaxLost
      /\ k \in [Conns -> 1..(TransSize + 1)]
      /\ pend \in [Conns -> (SUBSET Statements) \cup {None}]
      /\ attempt \in [Conns -> 0..MaxRetry]
      /\ deadlockLock \in Conns \cup {None}
  BY DEF PoolInv, Types
<1>3. Worker(c) /\ held[c] = None
  BY <1>1, Busy DEF Worker
<1>4. lost <= lost'
  BY <1>1, <1>2
<1>5. CASE queue = <<>> \/ shutdown
  <2>1. PICK p \in {"popped", "sleep"} : pc' = [pc EXCEPT ![c] = p]
    BY <1>5 DEF WaitAndPop
  <2>2. UNCHANGED <<held, queue, op>>
    BY <1>5 DEF WaitAndPop
  <2>3. /\ pc' \in [Conns -> WorkPc] /\ pc'[c] = p
        /\ \A d \in Conns \ {c} : pc'[d] = pc[d]
    BY <1>2, <2>1 DEF WorkPc
  <2>4. Owners'
    BY <2>2, OwnersStay
  <2>5. Worker(c)' /\ held'[c] = None
    BY <1>1, <1>3, <2>2, <2>3 DEF Worker, mainVars
  <2> QED BY <1>1, <1>2, <1>4, <2>2, <2>3, <2>4, <2>5, WorkerMoves
<1>6. CASE ~(queue = <<>> \/ shutdown)
  <2>1. PICK h : h = Head(queue)
    OBVIOUS
  <2>2. /\ pc' = [pc EXCEPT ![c] = "popped"]
        /\ held' = [held EXCEPT ![c] = h]
        /\ queue' = Tail(queue)
        /\ op' = [op EXCEPT ![h].state = "held"]
    BY <1>6, <2>1 DEF WaitAndPop
  <2>3. /\ queue' \in Seq(Ops) /\ Distinct(queue') /\ h \in ToSet(queue) /\ h \in Ops
        /\ ToSet(queue') = ToSet(queue) \ {h}
    BY <1>2, <1>6, <2>1, <2>2, Popped DEF PoolInv, Owners
  <2>4. op[h].state = "queued" /\ op[h].losses <= lost /\ Whole(op[h]) /\ Unworked(op[h])
    BY <2>3 DEF PoolInv, Owners, History
  <2>5. PICK y : y = [op[h] EXCEPT !.state = "held"]
    OBVIOUS
  <2>6. /\ y \in OpType /\ y.state = "held" /\ SameOp(op[h], y)
        /\ y.waits = op[h].waits /\ y.called = op[h].called
    <3>1. op[h] \in OpType
      BY <1>2, <2>3
    <3> QED BY <2>5, <3>1 DEF OpType, SameOp
  <2>7. op' = [op EXCEPT ![h] = y]
    BY <2>2, <2>5
  <2>8. /\ op' \in [Ops -> OpType] /\ op'[h] = y
        /\ \A x \in Ops \ {h} : op'[x] = op[x]
    BY <1>2, <2>3, <2>6, <2>7
  <2>9. /\ pc' \in [Conns -> WorkPc] /\ pc'[c] = "popped"
        /\ held' \in [Conns -> Ops \cup {None}] /\ held'[c] = h
        /\ \A d \in Conns \ {c} : pc'[d] = pc[d] /\ held'[d] = held[d]
    BY <1>2, <2>2, <2>3 DEF WorkPc
  <2>10. h \in Ops /\ None \notin Ops
    BY <2>3, PoolAssumption
  <2>11. Owners'
    <3>1. \A d \in Conns : held[d] # h
      BY <2>4, <2>3 DEF PoolInv, Owners
    <3>2. ASSUME NEW o \in Ops
          PROVE  /\ op'[o].state = "queued" <=> o \in ToSet(queue')
                 /\ op'[o].state = "held" <=> \E d \in Conns : held'[d] = o
      <4>1. /\ op[o].state = "queued" <=> o \in ToSet(queue)
            /\ op[o].state = "held" <=> \E d \in Conns : held[d] = o
        BY DEF PoolInv, Owners
      <4>2. CASE o = h
        BY <2>3, <2>6, <2>8, <2>9, <4>2
      <4>3. CASE o # h
        BY <1>3, <2>3, <2>8, <2>9, <2>10, <4>1, <4>3
      <4> QED BY <4>2, <4>3
    <3>3. \A d, e \in Conns : held'[d] # None /\ held'[d] = held'[e] => d = e
      BY <2>9, <3>1 DEF PoolInv, Owners
    <3> QED BY <2>3, <3>2, <3>3 DEF Owners
  <2>12. \A x \in Ops : op'[x] = op[x] \/ Handled(c, x)
    <3>1. Whole(y)
      BY <2>4, <2>6, SameMeans
    <3>2. Handled(c, h)
      BY <1>1, <2>4, <2>6, <2>8, <3>1 DEF Handled, SameOp
    <3> QED BY <2>8, <3>2
  <2>13. Worker(c)'
    BY <1>1, <1>3, <2>9, <2>10 DEF Worker, mainVars
  <2>14. Progress(c, op[held[c]])'
    <3>1. Unworked(y)
      BY <2>4, <2>6, SameMeans
    <3> QED BY <2>8, <2>9, <3>1 DEF Progress
  <2> QED BY <1>1, <1>2, <1>4, <2>3, <2>8, <2>9, <2>11, <2>12, <2>13, <2>14, WorkerMoves
<1> QED BY <1>5, <1>6
\* A worker gives up the operation it holds.
LEMMA Released ==
    ASSUME PoolInv, NEW c \in Conns, NEW h \in Ops, h = held[c], UNCHANGED queue,
           op'[h].state \notin {"queued", "held"},
           \A x \in Ops \ {h} : op'[x] = op[x],
           held'[c] = None,
           \A d \in Conns \ {c} : held'[d] = held[d]
    PROVE  Owners'
<1>1. h # None /\ None \notin Ops
  BY PoolAssumption
<1>2. ASSUME NEW o \in Ops
      PROVE  /\ op'[o].state = "queued" <=> o \in ToSet(queue')
             /\ op'[o].state = "held" <=> \E d \in Conns : held'[d] = o
  <2>1. /\ op[o].state = "queued" <=> o \in ToSet(queue)
        /\ op[o].state = "held" <=> \E d \in Conns : held[d] = o
        /\ \A d \in Conns : held[d] # None /\ held[d] = held[c] => d = c
    BY DEF PoolInv, Owners
  <2>2. CASE o = h
    <3>1. op[o].state = "held"
      BY <2>1, <2>2
    <3>2. \A d \in Conns : held'[d] # o
      BY <1>1, <2>1, <2>2
    <3> QED BY <2>1, <2>2, <3>1, <3>2
  <2>3. CASE o # h
    <3>1. \A d \in Conns : held'[d] = o <=> held[d] = o
      BY <1>1, <2>3
    <3> QED BY <2>1, <2>3, <3>1
  <2> QED BY <2>2, <2>3
<1>3. \A d, e \in Conns : held'[d] # None /\ held'[d] = held'[e] => d = e
  BY DEF PoolInv, Owners
<1>4. Distinct(queue')
  BY DEF PoolInv, Owners
<1> QED BY <1>2, <1>3, <1>4 DEF Owners

\* A worker turns the operation it holds into y, and keeps it.
LEMMA Works ==
    ASSUME PoolInv, NEW c \in Conns, held[c] # None, NEW y \in OpType,
           UNCHANGED <<mainVars, queueVars, token, held, procVars>>,
           op' = [op EXCEPT ![held[c]] = y],
           y.kind = op[held[c]].kind, y.state = op[held[c]].state,
           y.waits = op[held[c]].waits, y.called = op[held[c]].called,
           y.losses <= lost', Whole(y),
           y.promise # "broken" \/ y.promise = op[held[c]].promise,
           pc' \in [Conns -> WorkPc],
           k' \in [Conns -> 1..(TransSize + 1)],
           pend' \in [Conns -> (SUBSET Statements) \cup {None}],
           attempt' \in [Conns -> 0..MaxRetry],
           deadlockLock' \in Conns \cup {None},
           lost' \in 0..MaxLost, lost <= lost',
           \A d \in Conns \ {c} :
              /\ pc'[d] = pc[d] /\ k'[d] = k[d]
              /\ pend'[d] = pend[d] /\ attempt'[d] = attempt[d]
              /\ deadlockLock' = d <=> deadlockLock = d,
           Worker(c)', Progress(c, y)'
    PROVE  PoolInv'
<1>1. PICK h : h = held[c]
  OBVIOUS
<1>2. h \in Ops /\ op[h].state = "held" /\ op \in [Ops -> OpType] /\ queue \in Seq(Ops)
  BY <1>1, Busy DEF PoolInv, Types
<1>3. /\ op' \in [Ops -> OpType] /\ op'[h] = y
      /\ \A x \in Ops \ {h} : op'[x] = op[x]
  BY <1>1, <1>2
<1>4. queue' = queue /\ shutdown' = shutdown /\ held' = held
  BY DEF queueVars
<1>5. held \in [Conns -> Ops \cup {None}]
  BY DEF PoolInv, Types
<1>6. Owners'
  <2>1. \A x \in Ops : op'[x].state = op[x].state
    BY <1>1, <1>3
  <2> QED BY <1>4, <2>1, OwnersStay
<1>7. \A x \in Ops : op'[x] = op[x] \/ Handled(c, x)
  <2>1. Handled(c, h)
    BY <1>1, <1>2, <1>3 DEF Handled
  <2> QED BY <1>3, <2>1
<1>8. Progress(c, op[held[c]])'
  BY <1>1, <1>3, <1>4 DEF Progress
<1>9. \A d \in Conns \ {c} : held'[d] = held[d]
  BY <1>4
<1> QED BY <1>2, <1>3, <1>4, <1>5, <1>6, <1>7, <1>8, <1>9, WorkerMoves

\* A worker looks at its token after the pop.
LEMMA CheckTokenStep ==
    ASSUME PoolInv, NEW c \in Conns, CheckToken(c)
    PROVE  PoolInv'
<1>1. /\ pc[c] = "popped"
      /\ UNCHANGED <<mainVars, queueVars, token, k, pend, attempt, deadlockLock,
                     lost, procVars>>
  BY DEF CheckToken
<1>2. /\ pc \in [Conns -> WorkPc] /\ held \in [Conns -> Ops \cup {None}]
      /\ op \in [Ops -> OpType] /\ queue \in Seq(Ops) /\ lost \in 0..MaxLost
      /\ k \in [Conns -> 1..(TransSize + 1)]
      /\ pend \in [Conns -> (SUBSET Statements) \cup {None}]
      /\ attempt \in [Conns -> 0..MaxRetry]
      /\ deadlockLock \in Conns \cup {None}
  BY DEF PoolInv, Types
<1>3. queue' = queue /\ shutdown' = shutdown /\ lost <= lost'
  BY <1>1, <1>2 DEF queueVars
<1>4. Worker(c) /\ pend[c] = None /\ attempt[c] = 0
  BY <1>1, <1>2, Busy DEF Worker
<1>5. CASE held[c] = None
  <2>1. pc' = [pc EXCEPT ![c] = "exit"] /\ held' = [held EXCEPT ![c] = None] /\ op' = op
    BY <1>5 DEF CheckToken
  <2>2. /\ pc' \in [Conns -> WorkPc] /\ pc'[c] = "exit"
        /\ held' = held
        /\ \A d \in Conns \ {c} : pc'[d] = pc[d]
    BY <1>2, <1>5, <2>1 DEF WorkPc
  <2>3. Owners'
    BY <1>3, <2>1, <2>2, OwnersStay
  <2>4. Worker(c)'
    BY <1>1, <1>4, <1>5, <2>2 DEF Worker, mainVars
  <2>5. held'[c] = None
    BY <1>5, <2>2
  <2> QED BY <1>1, <1>2, <1>3, <2>1, <2>2, <2>3, <2>4, <2>5, WorkerMoves
<1>6. CASE held[c] # None /\ token[c]
  <2>1. PICK h : h = held[c]
    OBVIOUS
  <2>2. /\ h \in Ops /\ op[h].state = "held" /\ op[h] \in OpType /\ Whole(op[h])
        /\ op[h].losses <= lost
    BY <1>6, <2>1, Busy
  <2>3. PICK y : y = [op[h] EXCEPT !.state = "leaked"]
    OBVIOUS
  <2>4. /\ y \in OpType /\ y.state = "leaked" /\ SameOp(op[h], y)
        /\ y.waits = op[h].waits /\ y.called = op[h].called
    BY <2>2, <2>3 DEF OpType, SameOp
  <2>5. /\ pc' = [pc EXCEPT ![c] = "exit"] /\ held' = [held EXCEPT ![c] = None]
        /\ op' = [op EXCEPT ![h] = y]
    BY <1>6, <2>1, <2>3 DEF CheckToken
  <2>6. /\ op' \in [Ops -> OpType] /\ op'[h] = y
        /\ \A x \in Ops \ {h} : op'[x] = op[x]
    BY <1>2, <2>2, <2>4, <2>5
  <2>7. /\ pc' \in [Conns -> WorkPc] /\ pc'[c] = "exit"
        /\ held' \in [Conns -> Ops \cup {None}] /\ held'[c] = None
        /\ \A d \in Conns \ {c} : pc'[d] = pc[d] /\ held'[d] = held[d]
    BY <1>2, <2>5 DEF WorkPc
  <2>8. Owners'
    BY <1>3, <1>6, <2>1, <2>2, <2>4, <2>6, <2>7, PoolAssumption, Released
  <2>9. \A x \in Ops : op'[x] = op[x] \/ Handled(c, x)
    <3>1. Whole(y)
      BY <2>2, <2>4, SameMeans
    <3>2. Handled(c, h)
      BY <1>1, <2>1, <2>2, <2>4, <2>6, <3>1 DEF Handled, SameOp
    <3> QED BY <2>6, <3>2
  <2>10. Worker(c)'
    BY <1>1, <1>4, <2>7 DEF Worker, mainVars
  <2> QED BY <1>1, <1>2, <1>3, <2>6, <2>7, <2>8, <2>9, <2>10, WorkerMoves
<1>7. CASE held[c] # None /\ ~token[c]
  <2>1. PICK p : p = IF op[held[c]].kind = "transaction" THEN "begin" ELSE "plain"
    OBVIOUS
  <2>2. pc' = [pc EXCEPT ![c] = p] /\ held' = held /\ op' = op
    BY <1>7, <2>1 DEF CheckToken
  <2>3. /\ pc' \in [Conns -> WorkPc] /\ pc'[c] = p /\ p \in {"begin", "plain"}
        /\ \A d \in Conns \ {c} : pc'[d] = pc[d]
    BY <1>2, <2>1, <2>2 DEF WorkPc
  <2>4. Owners'
    BY <1>3, <2>2, OwnersStay
  <2>5. Worker(c)'
    BY <1>1, <1>4, <1>7, <2>2, <2>3 DEF Worker, mainVars
  <2>6. Progress(c, op[held[c]])'
    <3>1. Unworked(op[held[c]]) /\ op[held[c]] \in OpType
      BY <1>1, <1>7, Busy DEF Progress
    <3>2. Undone(op[held[c]])
      BY <3>1 DEF Unworked, Undone, OpType
    <3>3. op[held[c]].kind = "transaction" <=> p = "begin"
      BY <2>1
    <3> QED BY <2>2, <2>3, <3>2, <3>3 DEF Progress
  <2>7. \A d \in Conns \ {c} : held'[d] = held[d]
    BY <2>2
  <2> QED BY <1>1, <1>2, <1>3, <2>2, <2>3, <2>4, <2>5, <2>6, <2>7, WorkerMoves
<1> QED BY <1>5, <1>6, <1>7

\* A worker deletes the operation it has executed.
LEMMA DeleteOperationStep ==
    ASSUME PoolInv, NEW c \in Conns, DeleteOperation(c)
    PROVE  PoolInv'
<1>1. /\ pc[c] = "delete"
      /\ held' = [held EXCEPT ![c] = None]
      /\ attempt' = [attempt EXCEPT ![c] = 0] /\ k' = [k EXCEPT ![c] = 1]
      /\ pc' = [pc EXCEPT ![c] = "pop"]
      /\ UNCHANGED <<mainVars, queueVars, token, pend, deadlockLock, lost, procVars>>
  BY DEF DeleteOperation
<1>2. /\ pc \in [Conns -> WorkPc] /\ held \in [Conns -> Ops \cup {None}]
      /\ op \in [Ops -> OpType] /\ queue \in Seq(Ops) /\ lost \in 0..MaxLost
      /\ k \in [Conns -> 1..(TransSize + 1)]
      /\ pend \in [Conns -> (SUBSET Statements) \cup {None}]
      /\ attempt \in [Conns -> 0..MaxRetry]
      /\ deadlockLock \in Conns \cup {None}
  BY DEF PoolInv, Types
<1>3. queue' = queue /\ shutdown' = shutdown /\ lost <= lost'
  BY <1>1, <1>2 DEF queueVars
<1>4. Worker(c) /\ pend[c] = None /\ held[c] # None /\ deadlockLock # c
  BY <1>1, <1>2, Busy DEF Worker
<1>5. PICK h : h = held[c]
  OBVIOUS
<1>6. /\ h \in Ops /\ op[h].state = "held" /\ op[h] \in OpType /\ Whole(op[h])
      /\ op[h].losses <= lost /\ Progress(c, op[h])
  BY <1>4, <1>5, Busy
<1>7. PICK y : y = Delete(op[h], "done")
  OBVIOUS
<1>8. /\ y \in OpType /\ y.state = "done"
      /\ y.promise = IF op[h].promise = "pending" THEN "broken" ELSE op[h].promise
      /\ y.kind = op[h].kind /\ y.applied = op[h].applied /\ y.losses = op[h].losses
      /\ y.waits = op[h].waits /\ y.called = op[h].called
  <2>1. PICK x : x = op[h]
    OBVIOUS
  <2>2. PICK st \in {"done", "dropped"} : st = "done"
    OBVIOUS
  <2>3. y = Delete(x, st) /\ x \in OpType
    BY <1>6, <1>7, <2>1, <2>2
  <2>4. /\ y \in OpType /\ y.state = st
        /\ y.promise = IF x.promise = "pending" THEN "broken" ELSE x.promise
        /\ y.kind = x.kind /\ y.applied = x.applied /\ y.losses = x.losses
        /\ y.waits = x.waits /\ y.called = x.called
    BY <2>3, DeleteFields
  <2> QED BY <2>1, <2>2, <2>4
<1>9. op' = [op EXCEPT ![h] = y]
  BY <1>5, <1>7 DEF DeleteOperation
<1>10. /\ op' \in [Ops -> OpType] /\ op'[h] = y
       /\ \A x \in Ops \ {h} : op'[x] = op[x]
  BY <1>2, <1>6, <1>8, <1>9
<1>11. /\ pc' \in [Conns -> WorkPc] /\ pc'[c] = "pop"
       /\ held' \in [Conns -> Ops \cup {None}] /\ held'[c] = None
       /\ \A d \in Conns \ {c} : pc'[d] = pc[d] /\ held'[d] = held[d]
  BY <1>1, <1>2 DEF WorkPc
<1>12. /\ attempt' \in [Conns -> 0..MaxRetry] /\ attempt'[c] = 0
       /\ k' \in [Conns -> 1..(TransSize + 1)]
       /\ \A d \in Conns \ {c} : attempt'[d] = attempt[d] /\ k'[d] = k[d]
  BY <1>1, <1>2, PoolAssumption
<1>13. Owners'
  BY <1>3, <1>5, <1>6, <1>8, <1>10, <1>11, PoolAssumption, Released
<1>14. \A x \in Ops : op'[x] = op[x] \/ Handled(c, x)
  <2>1. Whole(y)
    BY <1>6, <1>8 DEF Whole
  <2>2. op[h].kind = "query" => op[h].promise # "pending"
    BY <1>1, <1>6 DEF Progress
  <2>3. Handled(c, h)
    BY <1>1, <1>5, <1>6, <1>8, <1>10, <2>1, <2>2 DEF Handled
  <2> QED BY <1>10, <2>3
<1>15. Worker(c)'
  BY <1>1, <1>4, <1>11, <1>12 DEF Worker, mainVars
<1> QED BY <1>1, <1>2, <1>3, <1>10, <1>11, <1>12, <1>13, <1>14, <1>15, WorkerMoves
\* The types of what workers change.
WorkTypes ==
    /\ pc \in [Conns -> WorkPc] /\ held \in [Conns -> Ops \cup {None}]
    /\ op \in [Ops -> OpType] /\ lost \in 0..MaxLost
    /\ k \in [Conns -> 1..(TransSize + 1)]
    /\ pend \in [Conns -> (SUBSET Statements) \cup {None}]
    /\ attempt \in [Conns -> 0..MaxRetry]
    /\ deadlockLock \in Conns \cup {None}
    /\ lost \in Int /\ TransSize \in Nat /\ MaxRetry \in Nat

\* The types of what a worker step reads.
LEMMA WorkerTypes == PoolInv => WorkTypes
BY PoolAssumption DEF PoolInv, Types, WorkTypes

\* A worker executes a statement or a query outside a transaction.
LEMMA ExecutePlainStep ==
    ASSUME PoolInv, NEW c \in Conns, ExecutePlain(c)
    PROVE  PoolInv'
<1>0. WorkTypes
  BY WorkerTypes
<1>1. /\ pc[c] = "plain" /\ pc' = [pc EXCEPT ![c] = "delete"]
      /\ UNCHANGED <<mainVars, queueVars, token, workVars, deadlockLock, lost, procVars>>
  BY DEF ExecutePlain
<1>2. Worker(c) /\ held[c] # None
  BY <1>1, Busy DEF Worker
<1>3. PICK x : x = op[held[c]]
  OBVIOUS
<1>4. x \in OpType /\ Progress(c, x) /\ x.losses <= lost
  BY <1>2, <1>3, Busy
<1>5. Undone(x) /\ x.kind # "transaction"
  BY <1>1, <1>4 DEF Progress
<1>6. PICK S : op' = [op EXCEPT ![held[c]] = Answer(Apply(x, S))]
  BY <1>3 DEF ExecutePlain
<1>7. PICK z : z = Apply(x, S)
  OBVIOUS
<1>8. /\ z \in OpType /\ z.kind = x.kind /\ z.state = x.state /\ z.promise = x.promise
      /\ z.losses = x.losses /\ z.waits = x.waits /\ z.called = x.called
      /\ \A s \in Statements : z.applied[s] = IF s \in S THEN x.applied[s] + 1
                                                         ELSE x.applied[s]
  BY <1>4, <1>7, ApplyFields
<1>9. PICK y : y = Answer(z)
  OBVIOUS
<1>10. /\ y \in OpType /\ y.kind = z.kind /\ y.state = z.state
       /\ y.promise = IF z.promise = "pending" THEN "set" ELSE z.promise
       /\ y.losses = z.losses /\ y.waits = z.waits /\ y.called = z.called
       /\ y.applied = z.applied
  BY <1>8, <1>9, AnswerFields
<1>11. Whole(y)
  <2>1. \A s \in Statements : x.applied[s] \in Nat /\ x.losses \in Nat
    BY <1>4 DEF OpType
  <2> QED BY <1>5, <1>8, <1>10, <2>1 DEF Whole, Undone
<1>12. /\ pc' \in [Conns -> WorkPc] /\ pc'[c] = "delete"
       /\ \A d \in Conns \ {c} : pc'[d] = pc[d]
  BY <1>0, <1>1 DEF WorkTypes, WorkPc
<1>13. /\ k' = k /\ held' = held /\ pend' = pend /\ attempt' = attempt
       /\ deadlockLock' = deadlockLock /\ lost' = lost /\ opened' = opened
  BY <1>1 DEF workVars, mainVars
<1>14. Worker(c)'
  <2>1. attempt[c] \in 0..MaxRetry
    BY <1>0 DEF WorkTypes
  <2> QED BY <1>1, <1>2, <1>12, <1>13, <2>1 DEF Worker
<1>15. Progress(c, y)'
  BY <1>8, <1>10, <1>12 DEF Progress
<1>16. op' = [op EXCEPT ![held[c]] = y]
  BY <1>6, <1>7, <1>9
<1>17. lost <= lost' /\ y.losses <= lost'
  BY <1>0, <1>4, <1>8, <1>10, <1>13 DEF WorkTypes
<1>18. y.promise # "broken" \/ y.promise = op[held[c]].promise
  BY <1>3, <1>8, <1>10
<1>19. /\ y.kind = op[held[c]].kind /\ y.state = op[held[c]].state
       /\ y.waits = op[held[c]].waits /\ y.called = op[held[c]].called
  BY <1>3, <1>8, <1>10
<1> QED
  BY <1>0, <1>1, <1>2, <1>10, <1>11, <1>12, <1>13, <1>14, <1>15, <1>16, <1>17, <1>18,
     <1>19, Works DEF WorkTypes

\* The connection is lost under such a statement.
LEMMA LosePlainStep ==
    ASSUME PoolInv, NEW c \in Conns, LosePlain(c)
    PROVE  PoolInv'
<1>0. WorkTypes
  BY WorkerTypes
<1>1. /\ pc[c] = "plain" /\ lost < MaxLost /\ lost' = lost + 1
      /\ UNCHANGED <<mainVars, queueVars, token, pc, workVars, deadlockLock, procVars>>
  BY DEF LosePlain
<1>2. Worker(c) /\ held[c] # None
  BY <1>1, Busy DEF Worker
<1>3. PICK x : x = op[held[c]]
  OBVIOUS
<1>4. x \in OpType /\ Progress(c, x) /\ x.losses <= lost
  BY <1>2, <1>3, Busy
<1>5. Undone(x) /\ x.kind # "transaction"
  BY <1>1, <1>4 DEF Progress
<1>6. PICK S : op' = [op EXCEPT ![held[c]] = Lose(x, S)]
  BY <1>3 DEF LosePlain
<1>7. PICK y : y = Lose(x, S)
  OBVIOUS
<1>8. /\ y \in OpType /\ y.losses = x.losses + 1
      /\ y.kind = x.kind /\ y.state = x.state /\ y.promise = x.promise
      /\ y.waits = x.waits /\ y.called = x.called
      /\ \A s \in Statements : y.applied[s] = IF s \in S THEN x.applied[s] + 1
                                                         ELSE x.applied[s]
  BY <1>4, <1>7, LossFields
<1>11. Whole(y) /\ Undone(y)
  <2>1. \A s \in Statements : x.applied[s] \in Nat /\ x.losses \in Nat
    BY <1>4 DEF OpType
  <2>2. x.losses \in Nat
    BY <1>4 DEF OpType
  <2>3. Undone(y)
    BY <1>5, <1>8, <2>1, <2>2 DEF Undone
  <2>4. Whole(y)
    BY <1>5, <1>8, <2>1, <2>2 DEF Whole, Undone
  <2> QED BY <2>3, <2>4
<1>13. /\ k' = k /\ held' = held /\ pend' = pend /\ attempt' = attempt /\ pc' = pc
       /\ deadlockLock' = deadlockLock /\ opened' = opened
  BY <1>1 DEF workVars, mainVars
<1>14. Worker(c)'
  BY <1>2, <1>13 DEF Worker
<1>15. Progress(c, y)'
  BY <1>1, <1>5, <1>8, <1>11, <1>13 DEF Progress
<1>16. op' = [op EXCEPT ![held[c]] = y]
  BY <1>6, <1>7
<1>17. lost <= lost' /\ y.losses <= lost' /\ lost' \in 0..MaxLost
  <2>1. x.losses \in Nat /\ MaxLost \in Nat
    BY <1>4, PoolAssumption DEF OpType
  <2> QED BY <1>0, <1>1, <1>4, <1>8, <2>1 DEF WorkTypes
<1>18. y.promise # "broken" \/ y.promise = op[held[c]].promise
  BY <1>3, <1>8
<1>19. /\ y.kind = op[held[c]].kind /\ y.state = op[held[c]].state
       /\ y.waits = op[held[c]].waits /\ y.called = op[held[c]].called
  BY <1>3, <1>8
<1> QED
  BY <1>0, <1>1, <1>2, <1>8, <1>11, <1>13, <1>14, <1>15, <1>16, <1>17, <1>18,
     <1>19, Works DEF WorkTypes

\* START TRANSACTION.
LEMMA BeginTransactionStep ==
    ASSUME PoolInv, NEW c \in Conns, BeginTransaction(c)
    PROVE  PoolInv'
<1>0. WorkTypes
  BY WorkerTypes
<1>1. /\ pc[c] = "begin" /\ pc' = [pc EXCEPT ![c] = "statement"]
      /\ k' = [k EXCEPT ![c] = 1] /\ pend' = [pend EXCEPT ![c] = {}]
      /\ UNCHANGED <<mainVars, queueVars, token, held, attempt, deadlockLock, lost,
                     procVars>>
  BY DEF BeginTransaction
<1>2. Worker(c) /\ held[c] # None /\ pend[c] = None
  BY <1>1, Busy DEF Worker
<1>3. PICK y : y = op[held[c]]
  OBVIOUS
<1>4. y \in OpType /\ Progress(c, y) /\ y.losses <= lost /\ Whole(y)
  BY <1>2, <1>3, Busy
<1>5. op' = [op EXCEPT ![held[c]] = y]
  BY <1>2, <1>3 DEF BeginTransaction
<1>6. /\ pc' \in [Conns -> WorkPc] /\ pc'[c] = "statement"
      /\ pend' \in [Conns -> (SUBSET Statements) \cup {None}] /\ pend'[c] = {}
      /\ \A d \in Conns \ {c} : pc'[d] = pc[d] /\ pend'[d] = pend[d]
  BY <1>0, <1>1 DEF WorkTypes, WorkPc
<1>7. /\ k' \in [Conns -> 1..(TransSize + 1)] /\ k'[c] = 1
      /\ \A d \in Conns \ {c} : k'[d] = k[d]
  BY <1>0, <1>1 DEF WorkTypes
<1>8. held' = held /\ attempt' = attempt /\ deadlockLock' = deadlockLock
      /\ lost' = lost /\ opened' = opened
  BY <1>1 DEF mainVars
<1>9. {} # None /\ {} = 1..(1 - 1)
  BY PoolAssumption
<1>10. Worker(c)'
  BY <1>1, <1>2, <1>6, <1>8 DEF Worker
<1>11. Progress(c, y)'
  BY <1>1, <1>4, <1>6, <1>7, <1>9 DEF Progress
<1>12. lost <= lost' /\ y.losses <= lost'
  BY <1>0, <1>4, <1>8 DEF WorkTypes
<1>13. /\ y.kind = op[held[c]].kind /\ y.state = op[held[c]].state
       /\ y.waits = op[held[c]].waits /\ y.called = op[held[c]].called
       /\ y.promise # "broken" \/ y.promise = op[held[c]].promise
  BY <1>3
<1>14. UNCHANGED <<mainVars, queueVars, token, held, procVars>>
  BY <1>1
<1>15. \A d \in Conns \ {c} :
          /\ pc'[d] = pc[d] /\ k'[d] = k[d]
          /\ pend'[d] = pend[d] /\ attempt'[d] = attempt[d]
          /\ deadlockLock' = d <=> deadlockLock = d
  BY <1>6, <1>7, <1>8
<1>16. /\ attempt' \in [Conns -> 0..MaxRetry] /\ lost' \in 0..MaxLost
       /\ deadlockLock' \in Conns \cup {None}
  BY <1>0, <1>8 DEF WorkTypes
<1> QED
  BY <1>2, <1>4, <1>5, <1>6, <1>7, <1>8, <1>10, <1>11, <1>12, <1>13, <1>14, <1>15, <1>16,
     Works
\* A worker moves on without touching its operation.
LEMMA Moves ==
    ASSUME PoolInv, NEW c \in Conns, held[c] # None,
           UNCHANGED <<mainVars, queueVars, token, held, procVars, op, lost>>,
           pc' \in [Conns -> WorkPc],
           k' \in [Conns -> 1..(TransSize + 1)],
           pend' \in [Conns -> (SUBSET Statements) \cup {None}],
           attempt' \in [Conns -> 0..MaxRetry],
           deadlockLock' \in Conns \cup {None},
           \A d \in Conns \ {c} :
              /\ pc'[d] = pc[d] /\ k'[d] = k[d]
              /\ pend'[d] = pend[d] /\ attempt'[d] = attempt[d]
              /\ deadlockLock' = d <=> deadlockLock = d,
           Worker(c)',
           \A y \in OpType : Progress(c, y) => Progress(c, y)'
    PROVE  PoolInv'
<1>1. PICK y : y = op[held[c]]
  OBVIOUS
<1>2. /\ y \in OpType /\ y.losses <= lost /\ Whole(y) /\ Progress(c, y)
      /\ held[c] \in Ops /\ WorkTypes
  BY <1>1, Busy, WorkerTypes
<1>3. op' = [op EXCEPT ![held[c]] = y]
  BY <1>1, <1>2 DEF WorkTypes
<1>4. Progress(c, y)'
  BY <1>2
<1>5. lost <= lost' /\ y.losses <= lost' /\ lost' \in 0..MaxLost
  BY <1>2 DEF WorkTypes
<1>6. /\ y.kind = op[held[c]].kind /\ y.state = op[held[c]].state
      /\ y.waits = op[held[c]].waits /\ y.called = op[held[c]].called
      /\ y.promise # "broken" \/ y.promise = op[held[c]].promise
  BY <1>1
<1>7. UNCHANGED <<mainVars, queueVars, token, held, procVars>>
  OBVIOUS
<1> QED BY <1>2, <1>3, <1>4, <1>5, <1>6, <1>7, Works

\* A statement of a transaction is executed.
LEMMA ExecuteStatementStep ==
    ASSUME PoolInv, NEW c \in Conns, ExecuteStatement(c)
    PROVE  PoolInv'
<1>0. WorkTypes
  BY WorkerTypes
<1>1. /\ pc[c] = "statement" /\ k[c] <= TransSize
      /\ k' = [k EXCEPT ![c] = @ + 1]
      /\ UNCHANGED <<mainVars, queueVars, token, pc, held, attempt, deadlockLock,
                     lost, procVars>>
  BY DEF ExecuteStatement
<1>2. Worker(c) /\ held[c] # None
  BY <1>1, Busy DEF Worker
<1>3. /\ k' \in [Conns -> 1..(TransSize + 1)] /\ k'[c] = k[c] + 1 /\ k[c] \in Nat
      /\ k[c] \in Statements
      /\ \A d \in Conns \ {c} : k'[d] = k[d]
  BY <1>0, <1>1 DEF WorkTypes, Statements
<1>4. /\ held' = held /\ attempt' = attempt /\ deadlockLock' = deadlockLock
      /\ lost' = lost /\ opened' = opened /\ pc' = pc
  BY <1>1 DEF mainVars
<1>5. UNCHANGED <<mainVars, queueVars, token, held, procVars>>
  BY <1>1
<1>6. /\ attempt' \in [Conns -> 0..MaxRetry] /\ lost' \in 0..MaxLost /\ lost <= lost'
      /\ deadlockLock' \in Conns \cup {None} /\ pc' \in [Conns -> WorkPc]
  BY <1>0, <1>4 DEF WorkTypes
<1>7. CASE pend[c] = None
  <2>1. PICK x : x = op[held[c]]
    OBVIOUS
  <2>2. x \in OpType /\ Progress(c, x) /\ x.losses <= lost
    BY <1>2, <2>1, Busy
  <2>3. /\ Undone(x) /\ x.kind = "transaction" /\ x.losses > 0
        /\ \A s \in Statements : s >= k[c] => x.applied[s] < x.losses
    BY <1>1, <1>7, <2>2 DEF Progress
  <2>4. PICK S : S = {k[c]}
    OBVIOUS
  <2>5. PICK y : y = Apply(x, S)
    OBVIOUS
  <2>6. op' = [op EXCEPT ![held[c]] = y] /\ pend' = pend
    BY <1>7, <2>1, <2>4, <2>5 DEF ExecuteStatement
  <2>7. /\ y \in OpType /\ y.kind = x.kind /\ y.state = x.state /\ y.promise = x.promise
        /\ y.losses = x.losses /\ y.waits = x.waits /\ y.called = x.called
        /\ \A s \in Statements : y.applied[s] = IF s \in S THEN x.applied[s] + 1
                                                           ELSE x.applied[s]
    BY <2>2, <2>5, ApplyFields
  <2>8. \A s \in Statements : x.applied[s] \in Nat /\ s \in Nat
    <3>1. \A s \in Statements : s \in Nat
      BY <1>0 DEF WorkTypes, Statements
    <3> QED BY <2>2, <3>1 DEF OpType
  <2>9. x.losses \in Nat
    BY <2>2 DEF OpType
  <2>10. /\ \A s \in Statements : y.applied[s] <= y.losses
         /\ \A s \in Statements : s >= k[c] + 1 => y.applied[s] < y.losses
    <3> SUFFICES ASSUME NEW s \in Statements
                 PROVE  /\ y.applied[s] <= y.losses
                        /\ s >= k[c] + 1 => y.applied[s] < y.losses
      OBVIOUS
    <3>1. x.applied[s] <= x.losses /\ (s >= k[c] => x.applied[s] < x.losses)
      BY <2>3 DEF Undone
    <3>2. CASE s = k[c]
      BY <1>3, <2>4, <2>7, <2>8, <2>9, <3>1, <3>2
    <3>3. CASE s # k[c]
      BY <1>3, <2>4, <2>7, <2>8, <2>9, <3>1, <3>3
    <3> QED BY <3>2, <3>3
  <2>11. Undone(y) /\ Whole(y)
    <3>1. \A s \in Statements : y.applied[s] \in Nat
      BY <2>7 DEF OpType
    <3> QED BY <2>3, <2>7, <2>9, <2>10, <3>1 DEF Undone, Whole
  <2>12. pend' \in [Conns -> (SUBSET Statements) \cup {None}] /\ pend'[c] = None
    BY <1>0, <1>7, <2>6 DEF WorkTypes
  <2>13. Worker(c)'
    BY <1>2, <1>4, <2>6 DEF Worker
  <2>14. Progress(c, y)'
    BY <1>1, <1>3, <1>4, <2>3, <2>7, <2>10, <2>11, <2>12 DEF Progress
  <2>15. /\ y.kind = op[held[c]].kind /\ y.state = op[held[c]].state
         /\ y.waits = op[held[c]].waits /\ y.called = op[held[c]].called
         /\ y.promise # "broken" \/ y.promise = op[held[c]].promise
    BY <2>1, <2>7
  <2>16. \A d \in Conns \ {c} :
            /\ pc'[d] = pc[d] /\ k'[d] = k[d]
            /\ pend'[d] = pend[d] /\ attempt'[d] = attempt[d]
            /\ deadlockLock' = d <=> deadlockLock = d
    BY <1>3, <1>4, <2>6
  <2>17. y.losses <= lost'
    BY <1>4, <2>2, <2>7
  <2> QED BY <1>2, <1>3, <1>5, <1>6, <2>6, <2>7, <2>11, <2>12, <2>13, <2>14, <2>15,
             <2>16, <2>17, Works
<1>8. CASE pend[c] # None
  <2>1. pend' = [pend EXCEPT ![c] = @ \cup {k[c]}] /\ op' = op
    BY <1>8 DEF ExecuteStatement
  <2>2. pend[c] \in SUBSET Statements /\ pend[c] = 1..(k[c] - 1)
    BY <1>0, <1>1, <1>2, <1>8, Busy DEF WorkTypes, Progress
  <2>3. /\ pend' \in [Conns -> (SUBSET Statements) \cup {None}]
        /\ pend'[c] = pend[c] \cup {k[c]}
        /\ \A d \in Conns \ {c} : pend'[d] = pend[d]
    <3>1. PICK S : S = pend[c] \cup {k[c]}
      OBVIOUS
    <3>2. S \in SUBSET Statements /\ pend' = [pend EXCEPT ![c] = S]
      BY <1>3, <2>1, <2>2, <3>1
    <3> QED BY <1>0, <3>1, <3>2 DEF WorkTypes
  <2>4. pend'[c] = 1..(k'[c] - 1)
    <3>1. PICK n : n = k[c]
      OBVIOUS
    <3>2. n \in Nat /\ n >= 1 /\ k'[c] = n + 1 /\ pend'[c] = (1..(n - 1)) \cup {n}
      BY <1>0, <1>3, <2>2, <2>3, <3>1 DEF WorkTypes
    <3>3. (1..(n - 1)) \cup {n} = 1..n /\ (n + 1) - 1 = n
      BY <3>2
    <3> QED BY <3>2, <3>3
  <2>5. pend'[c] # None
    BY <1>3, <2>2, <2>3, PoolAssumption DEF Statements
  <2>6. Worker(c)'
    BY <1>1, <1>2, <1>4, <2>5 DEF Worker
  <2>7. \A y \in OpType : Progress(c, y) => Progress(c, y)'
    BY <1>1, <1>4, <2>4, <2>5 DEF Progress
  <2>8. \A d \in Conns \ {c} :
           /\ pc'[d] = pc[d] /\ k'[d] = k[d]
           /\ pend'[d] = pend[d] /\ attempt'[d] = attempt[d]
           /\ deadlockLock' = d <=> deadlockLock = d
    BY <1>3, <1>4, <2>3
  <2>9. op' = op /\ lost' = lost
    BY <1>4, <2>1
  <2> QED BY <1>2, <1>3, <1>5, <1>6, <2>3, <2>6, <2>7, <2>8, <2>9, Moves
<1> QED BY <1>7, <1>8

\* A worker takes _deadlockLock to retry.
LEMMA LockDeadlockStep ==
    ASSUME PoolInv, NEW c \in Conns, LockDeadlock(c)
    PROVE  PoolInv'
<1>0. WorkTypes
  BY WorkerTypes
<1>1. /\ pc[c] = "lock" /\ deadlockLock = None /\ deadlockLock' = c
      /\ attempt' = [attempt EXCEPT ![c] = 1]
      /\ pc' = [pc EXCEPT ![c] = "begin"]
      /\ UNCHANGED <<mainVars, queueVars, token, held, k, pend, lost, op, procVars>>
  BY DEF LockDeadlock
<1>2. Worker(c) /\ held[c] # None
  BY <1>1, Busy DEF Worker
<1>3. /\ pc' \in [Conns -> WorkPc] /\ pc'[c] = "begin"
      /\ \A d \in Conns \ {c} : pc'[d] = pc[d]
  BY <1>0, <1>1 DEF WorkTypes, WorkPc
<1>4. /\ attempt' \in [Conns -> 0..MaxRetry] /\ attempt'[c] = 1
      /\ \A d \in Conns \ {c} : attempt'[d] = attempt[d]
  BY <1>0, <1>1, PoolAssumption DEF WorkTypes
<1>5. held' = held /\ k' = k /\ pend' = pend /\ opened' = opened
  BY <1>1 DEF mainVars
<1>6. UNCHANGED <<mainVars, queueVars, token, held, procVars, op, lost>>
  BY <1>1
<1>7. Worker(c)'
  BY <1>1, <1>2, <1>3, <1>4, <1>5 DEF Worker
<1>8. \A y \in OpType : Progress(c, y) => Progress(c, y)'
  BY <1>1, <1>3 DEF Progress
<1>9. /\ k' \in [Conns -> 1..(TransSize + 1)]
      /\ pend' \in [Conns -> (SUBSET Statements) \cup {None}]
      /\ deadlockLock' \in Conns \cup {None}
  BY <1>0, <1>1, <1>5 DEF WorkTypes
<1>10. \A d \in Conns \ {c} :
          /\ pc'[d] = pc[d] /\ k'[d] = k[d]
          /\ pend'[d] = pend[d] /\ attempt'[d] = attempt[d]
          /\ deadlockLock' = d <=> deadlockLock = d
  BY <1>1, <1>3, <1>4, <1>5, Busy
<1> QED BY <1>2, <1>3, <1>4, <1>6, <1>7, <1>8, <1>9, <1>10, Moves

\* The lock is released by its owner only.
LEMMA Unlocking ==
    ASSUME PoolInv, NEW c \in Conns, pc[c] = "statement", Unlock(c)
    PROVE  /\ deadlockLock' \in Conns \cup {None} /\ deadlockLock' # c
           /\ \A d \in Conns \ {c} : deadlockLock' = d <=> deadlockLock = d
<1>1. /\ deadlockLock = c <=> attempt[c] > 0
      /\ None \notin Conns /\ deadlockLock \in Conns \cup {None}
  BY Busy, WorkerTypes DEF Worker, WorkTypes
<1>2. CASE attempt[c] > 0
  BY <1>1, <1>2 DEF Unlock
<1>3. CASE ~(attempt[c] > 0)
  BY <1>1, <1>3 DEF Unlock
<1> QED BY <1>2, <1>3

\* A statement of a transaction fails: rollback, and retry or give up.
LEMMA FailStatementStep ==
    ASSUME PoolInv, NEW c \in Conns, FailStatement(c)
    PROVE  PoolInv'
<1>0. WorkTypes
  BY WorkerTypes
<1>1. /\ pc[c] = "statement" /\ pend' = [pend EXCEPT ![c] = None]
      /\ UNCHANGED <<mainVars, queueVars, token, held, k, lost, op, procVars>>
  BY DEF FailStatement
<1>2. Worker(c) /\ held[c] # None
  BY <1>1, Busy DEF Worker
<1>3. /\ pend' \in [Conns -> (SUBSET Statements) \cup {None}] /\ pend'[c] = None
      /\ \A d \in Conns \ {c} : pend'[d] = pend[d]
  BY <1>0, <1>1 DEF WorkTypes
<1>4. /\ held' = held /\ k' = k /\ opened' = opened
      /\ k' \in [Conns -> 1..(TransSize + 1)]
  BY <1>0, <1>1 DEF mainVars, WorkTypes
<1>5. UNCHANGED <<mainVars, queueVars, token, held, procVars, op, lost>>
  BY <1>1
<1>6. PICK p \in {"lock", "begin", "delete"} : pc' = [pc EXCEPT ![c] = p]
  BY DEF FailStatement
<1>7. /\ pc' \in [Conns -> WorkPc] /\ pc'[c] = p
      /\ \A d \in Conns \ {c} : pc'[d] = pc[d]
  BY <1>0, <1>6 DEF WorkTypes, WorkPc
<1>8. /\ attempt' \in [Conns -> 0..MaxRetry] /\ deadlockLock' \in Conns \cup {None}
      /\ \A d \in Conns \ {c} : /\ attempt'[d] = attempt[d]
                                /\ deadlockLock' = d <=> deadlockLock = d
      /\ deadlockLock' = c <=> attempt'[c] > 0 /\ p # "delete"
      /\ attempt'[c] > 0 => p # "lock"
  <2>1. attempt[c] \in 0..MaxRetry /\ (deadlockLock = c <=> attempt[c] > 0)
    BY <1>0, <1>1, <1>2 DEF WorkTypes, Worker
  <2>2. CASE attempt[c] = 0 /\ pc'[c] = "lock" /\ UNCHANGED <<attempt, deadlockLock>>
    BY <1>0, <1>7, <2>1, <2>2 DEF WorkTypes
  <2>3. CASE /\ attempt[c] \in 1..(MaxRetry - 1) /\ pc'[c] = "begin"
             /\ attempt' = [attempt EXCEPT ![c] = @ + 1] /\ UNCHANGED deadlockLock
    BY <1>0, <1>7, <2>1, <2>3 DEF WorkTypes
  <2>4. CASE pc'[c] = "delete" /\ Unlock(c) /\ UNCHANGED attempt
    BY <1>0, <1>1, <1>7, <2>1, <2>4, Unlocking DEF WorkTypes
  <2>5. \/ attempt[c] = 0 /\ pc'[c] = "lock" /\ UNCHANGED <<attempt, deadlockLock>>
        \/ /\ attempt[c] \in 1..(MaxRetry - 1) /\ pc'[c] = "begin"
           /\ attempt' = [attempt EXCEPT ![c] = @ + 1] /\ UNCHANGED deadlockLock
        \/ pc'[c] = "delete" /\ Unlock(c) /\ UNCHANGED attempt
    BY <1>0 DEF FailStatement, WorkTypes
  <2> QED BY <2>2, <2>3, <2>4, <2>5
<1>9. Worker(c)'
  BY <1>1, <1>2, <1>3, <1>4, <1>7, <1>8 DEF Worker
<1>10. \A y \in OpType : Progress(c, y) => Progress(c, y)'
  BY <1>1, <1>6, <1>7 DEF Progress
<1>11. \A d \in Conns \ {c} :
          /\ pc'[d] = pc[d] /\ k'[d] = k[d]
          /\ pend'[d] = pend[d] /\ attempt'[d] = attempt[d]
          /\ deadlockLock' = d <=> deadlockLock = d
  BY <1>3, <1>4, <1>7, <1>8
<1> QED BY <1>2, <1>3, <1>4, <1>5, <1>7, <1>8, <1>9, <1>10, <1>11, Moves
\* The connection is lost inside a transaction.
LEMMA LoseTransactionStep ==
    ASSUME PoolInv, NEW c \in Conns, LoseTransaction(c)
    PROVE  PoolInv'
<1>0. WorkTypes
  BY WorkerTypes
<1>1. /\ pc[c] = "statement" /\ lost < MaxLost /\ lost' = lost + 1
      /\ pend' = [pend EXCEPT ![c] = None]
      /\ UNCHANGED <<mainVars, queueVars, token, pc, held, k, attempt, deadlockLock,
                     procVars>>
  BY DEF LoseTransaction
<1>2. Worker(c) /\ held[c] # None
  BY <1>1, Busy DEF Worker
<1>3. PICK x : x = op[held[c]]
  OBVIOUS
<1>4. x \in OpType /\ Progress(c, x) /\ x.losses <= lost
  BY <1>2, <1>3, Busy
<1>5. /\ Undone(x) /\ x.kind = "transaction"
      /\ pend[c] = None => /\ x.losses > 0
                           /\ \A s \in Statements : s >= k[c] => x.applied[s] < x.losses
  BY <1>1, <1>4 DEF Progress
<1>6. PICK S : /\ op' = [op EXCEPT ![held[c]] = Lose(x, S)]
               /\ pend[c] # None /\ k[c] <= TransSize => S = {}
  <2>1. CASE pend[c] # None /\ k[c] <= TransSize
    BY <1>3, <2>1 DEF LoseTransaction
  <2>2. CASE ~(pend[c] # None /\ k[c] <= TransSize)
    BY <1>3, <2>2 DEF LoseTransaction
  <2> QED BY <2>1, <2>2
<1>7. PICK y : y = Lose(x, S)
  OBVIOUS
<1>8. /\ y \in OpType /\ y.losses = x.losses + 1
      /\ y.kind = x.kind /\ y.state = x.state /\ y.promise = x.promise
      /\ y.waits = x.waits /\ y.called = x.called
      /\ \A s \in Statements : y.applied[s] = IF s \in S THEN x.applied[s] + 1
                                                         ELSE x.applied[s]
  BY <1>4, <1>7, LossFields
<1>9. x.losses \in Nat /\ y.losses \in Nat /\ k[c] \in Nat
  BY <1>0, <1>4, <1>8 DEF OpType, WorkTypes
<1>10. \A s \in Statements : x.applied[s] \in Nat /\ y.applied[s] \in Nat
  BY <1>4, <1>8 DEF OpType
<1>11. \A s \in Statements : s \in Nat /\ s <= TransSize
  BY <1>0 DEF WorkTypes, Statements
<1>12. ASSUME NEW s \in Statements
       PROVE  /\ y.applied[s] <= y.losses
              /\ s >= k[c] => y.applied[s] < y.losses
  <2>1. x.applied[s] <= x.losses
    BY <1>5 DEF Undone
  <2>2. y.applied[s] = IF s \in S THEN x.applied[s] + 1 ELSE x.applied[s]
    BY <1>8
  <2>3. y.applied[s] <= y.losses
    BY <1>8, <1>9, <1>10, <2>1, <2>2
  <2>4. ASSUME s >= k[c], pend[c] = None PROVE y.applied[s] < y.losses
    <3>1. x.applied[s] < x.losses
      BY <1>5, <2>4
    <3> QED BY <1>8, <1>9, <1>10, <2>2, <3>1
  <2>5. ASSUME s >= k[c], pend[c] # None PROVE y.applied[s] < y.losses
    <3>1. k[c] <= TransSize
      BY <1>0, <1>9, <1>11, <2>5 DEF WorkTypes
    <3>2. y.applied[s] = x.applied[s]
      BY <1>6, <2>2, <2>5, <3>1
    <3> QED BY <1>8, <1>9, <1>10, <2>1, <3>2
  <2> QED BY <2>3, <2>4, <2>5
<1>13. Undone(y) /\ Whole(y) /\ y.losses > 0
  <2>1. y.losses > 0
    BY <1>8, <1>9
  <2>2. \A s \in Statements : y.applied[s] <= 1 + y.losses
    BY <1>9, <1>10, <1>12
  <2> QED BY <1>5, <1>8, <1>9, <1>12, <2>1, <2>2 DEF Undone, Whole
<1>14. /\ pend' \in [Conns -> (SUBSET Statements) \cup {None}] /\ pend'[c] = None
       /\ \A d \in Conns \ {c} : pend'[d] = pend[d]
  BY <1>0, <1>1 DEF WorkTypes
<1>15. /\ held' = held /\ k' = k /\ attempt' = attempt /\ deadlockLock' = deadlockLock
       /\ pc' = pc /\ opened' = opened
  BY <1>1 DEF mainVars
<1>16. Worker(c)'
  BY <1>2, <1>14, <1>15 DEF Worker
<1>17. Progress(c, y)'
  BY <1>1, <1>5, <1>8, <1>12, <1>13, <1>14, <1>15 DEF Progress
<1>18. op' = [op EXCEPT ![held[c]] = y]
  BY <1>6, <1>7
<1>19. lost <= lost' /\ y.losses <= lost' /\ lost' \in 0..MaxLost
  BY <1>0, <1>1, <1>4, <1>8, <1>9, PoolAssumption DEF WorkTypes
<1>20. /\ y.kind = op[held[c]].kind /\ y.state = op[held[c]].state
       /\ y.waits = op[held[c]].waits /\ y.called = op[held[c]].called
       /\ y.promise # "broken" \/ y.promise = op[held[c]].promise
  BY <1>3, <1>8
<1>21. \A d \in Conns \ {c} :
          /\ pc'[d] = pc[d] /\ k'[d] = k[d]
          /\ pend'[d] = pend[d] /\ attempt'[d] = attempt[d]
          /\ deadlockLock' = d <=> deadlockLock = d
  BY <1>14, <1>15
<1>22. UNCHANGED <<mainVars, queueVars, token, held, procVars>>
  BY <1>1
<1>23. /\ pc' \in [Conns -> WorkPc] /\ k' \in [Conns -> 1..(TransSize + 1)]
       /\ attempt' \in [Conns -> 0..MaxRetry] /\ deadlockLock' \in Conns \cup {None}
  BY <1>0, <1>15 DEF WorkTypes
<1> QED BY <1>2, <1>8, <1>13, <1>14, <1>16, <1>17, <1>18, <1>19, <1>20, <1>21, <1>22,
           <1>23, Works

\* COMMIT.
LEMMA CommitTransactionStep ==
    ASSUME PoolInv, NEW c \in Conns, CommitTransaction(c)
    PROVE  PoolInv'
<1>0. WorkTypes
  BY WorkerTypes
<1>1. /\ pc[c] = "statement" /\ k[c] > TransSize
      /\ pend' = [pend EXCEPT ![c] = None]
      /\ pc' = [pc EXCEPT ![c] = "delete"] /\ Unlock(c)
      /\ UNCHANGED <<mainVars, queueVars, token, held, k, attempt, lost, procVars>>
  BY DEF CommitTransaction
<1>2. Worker(c) /\ held[c] # None
  BY <1>1, Busy DEF Worker
<1>3. PICK x : x = op[held[c]]
  OBVIOUS
<1>4. x \in OpType /\ Progress(c, x) /\ x.losses <= lost
  BY <1>2, <1>3, Busy
<1>5. /\ Undone(x) /\ x.kind = "transaction"
      /\ pend[c] = None => x.losses > 0
      /\ pend[c] # None => pend[c] = 1..(k[c] - 1)
  BY <1>1, <1>4 DEF Progress
<1>6. PICK z : z = IF pend[c] = None THEN x ELSE Apply(x, pend[c])
  OBVIOUS
<1>7. PICK y : y = IF attempt[c] = 0 THEN Answer(z) ELSE z
  OBVIOUS
<1>8. op' = [op EXCEPT ![held[c]] = y]
  BY <1>3, <1>6, <1>7 DEF CommitTransaction
<1>9. pend[c] # None => pend[c] = Statements
  <2>1. k[c] = TransSize + 1
    BY <1>0, <1>1 DEF WorkTypes
  <2> QED BY <1>0, <1>5, <2>1 DEF Statements, WorkTypes
<1>10. /\ z \in OpType /\ z.kind = x.kind /\ z.state = x.state /\ z.promise = x.promise
       /\ z.losses = x.losses /\ z.waits = x.waits /\ z.called = x.called
       /\ \A s \in Statements : z.applied[s] = IF pend[c] = None THEN x.applied[s]
                                                                 ELSE x.applied[s] + 1
  <2>1. CASE pend[c] = None
    BY <1>4, <1>6, <2>1
  <2>2. CASE pend[c] # None
    <3>1. PICK S : S = Statements
      OBVIOUS
    <3>2. z = Apply(x, S)
      BY <1>6, <1>9, <2>2, <3>1
    <3>3. /\ z \in OpType /\ z.kind = x.kind /\ z.state = x.state /\ z.promise = x.promise
          /\ z.losses = x.losses /\ z.waits = x.waits /\ z.called = x.called
          /\ \A s \in Statements : z.applied[s] = IF s \in S THEN x.applied[s] + 1
                                                             ELSE x.applied[s]
      BY <1>4, <3>2, ApplyFields
    <3> QED BY <2>2, <3>1, <3>3
  <2> QED BY <2>1, <2>2
<1>11. /\ y \in OpType /\ y.kind = z.kind /\ y.state = z.state
       /\ y.promise \in {z.promise, "set"}
       /\ y.losses = z.losses /\ y.waits = z.waits /\ y.called = z.called
       /\ y.applied = z.applied
  <2>1. CASE attempt[c] = 0
    <3>1. y = Answer(z)
      BY <1>7, <2>1
    <3>2. /\ y \in OpType /\ y.kind = z.kind /\ y.state = z.state
          /\ y.promise = IF z.promise = "pending" THEN "set" ELSE z.promise
          /\ y.losses = z.losses /\ y.waits = z.waits /\ y.called = z.called
          /\ y.applied = z.applied
      BY <1>10, <3>1, AnswerFields
    <3> QED BY <3>2
  <2>2. CASE attempt[c] # 0
    BY <1>7, <1>10, <2>2
  <2> QED BY <2>1, <2>2
<1>12. x.losses \in Nat /\ \A s \in Statements : x.applied[s] \in Nat
  BY <1>4 DEF OpType
<1>13. Whole(y)
  <2>1. ASSUME NEW s \in Statements
        PROVE  /\ y.applied[s] <= 1 + y.losses
               /\ y.losses = 0 => y.applied[s] = 1
    <3>1. x.applied[s] <= x.losses /\ x.applied[s] \in Nat
      BY <1>5, <1>12 DEF Undone
    <3>2. y.applied[s] = IF pend[c] = None THEN x.applied[s] ELSE x.applied[s] + 1
      BY <1>10, <1>11
    <3>3. y.losses = x.losses
      BY <1>10, <1>11
    <3> QED BY <1>5, <1>12, <3>1, <3>2, <3>3
  <2>2. 1 \in Statements
    BY PoolAssumption DEF Statements
  <2> QED BY <2>1, <2>2 DEF Whole
<1>14. /\ pend' \in [Conns -> (SUBSET Statements) \cup {None}] /\ pend'[c] = None
       /\ pc' \in [Conns -> WorkPc] /\ pc'[c] = "delete"
       /\ \A d \in Conns \ {c} : pend'[d] = pend[d] /\ pc'[d] = pc[d]
  BY <1>0, <1>1 DEF WorkTypes, WorkPc
<1>15. held' = held /\ k' = k /\ attempt' = attempt /\ opened' = opened /\ lost' = lost
  BY <1>1 DEF mainVars
<1>16. /\ deadlockLock' \in Conns \cup {None} /\ deadlockLock' # c
       /\ \A d \in Conns \ {c} : deadlockLock' = d <=> deadlockLock = d
  BY <1>1, Unlocking
<1>17. Worker(c)'
  BY <1>1, <1>2, <1>14, <1>15, <1>16 DEF Worker
<1>18. Progress(c, y)'
  BY <1>5, <1>10, <1>11, <1>14 DEF Progress
<1>19. lost <= lost' /\ y.losses <= lost' /\ lost' \in 0..MaxLost
  BY <1>0, <1>4, <1>10, <1>11, <1>15 DEF WorkTypes
<1>20. /\ y.kind = op[held[c]].kind /\ y.state = op[held[c]].state
       /\ y.waits = op[held[c]].waits /\ y.called = op[held[c]].called
       /\ y.promise # "broken" \/ y.promise = op[held[c]].promise
  BY <1>3, <1>10, <1>11
<1>21. \A d \in Conns \ {c} :
          /\ pc'[d] = pc[d] /\ k'[d] = k[d]
          /\ pend'[d] = pend[d] /\ attempt'[d] = attempt[d]
          /\ deadlockLock' = d <=> deadlockLock = d
  BY <1>14, <1>15, <1>16
<1>22. UNCHANGED <<mainVars, queueVars, token, held, procVars>>
  BY <1>1
<1>23. k' \in [Conns -> 1..(TransSize + 1)] /\ attempt' \in [Conns -> 0..MaxRetry]
  BY <1>0, <1>15 DEF WorkTypes
<1> QED BY <1>2, <1>8, <1>11, <1>13, <1>14, <1>16, <1>17, <1>18, <1>19, <1>20, <1>21,
           <1>22, <1>23, Works
-----------------------------------------------------------------------------
(***************************************************************************)
(* The theorems                                                             *)
(***************************************************************************)

\* Every step keeps the invariant.
LEMMA PoolStep == PoolInv /\ [Next]_vars => PoolInv'
<1> SUFFICES ASSUME PoolInv, [Next]_vars PROVE PoolInv'
  OBVIOUS
<1>1. CASE UNCHANGED vars
  BY <1>1, StutterStep
<1>2. CASE mpc # "aborted" /\ Main
  <2>1. CASE PoolOpened BY <2>1, PoolOpenedStep
  <2>2. CASE OpenAgain BY <2>2, OpenAgainStep
  <2>3. CASE Cancel BY <2>3, CancelStep
  <2>4. CASE Join BY <1>2, <2>4, JoinStep
  <2>5. ASSUME NEW c \in Conns, OpenConnection(c) PROVE PoolInv'
    BY <2>5, OpenConnectionStep
  <2>6. ASSUME NEW c \in Conns, SetToken(c) PROVE PoolInv'
    BY <2>6, SetTokenStep
  <2> QED BY <1>2, <2>1, <2>2, <2>3, <2>4, <2>5, <2>6 DEF Main
<1>3. CASE Processor
  <2>1. CASE ProcessReadyQueries BY <2>1, ProcessReadyQueriesStep
  <2>2. CASE NotReady BY <2>2, NotReadyStep
  <2>3. CASE Completed BY <2>3, CompletedStep
  <2>4. CASE EndProcess BY <2>4, EndProcessStep
  <2>5. ASSUME NEW n \in Ops, NextStep(n) PROVE PoolInv'
    BY <2>5, NextStepStep
  <2>6. ASSUME NEW n \in Ops, CompletedAdding(n) PROVE PoolInv'
    BY <2>6, CompletedAddingStep
  <2> QED BY <1>3, <2>1, <2>2, <2>3, <2>4, <2>5, <2>6 DEF Processor
<1>4. CASE User
  <2>1. CASE Close BY <2>1, CloseStep
  <2>2. ASSUME NEW o \in Ops, NEW kind \in Kinds, Enqueue(o, kind) PROVE PoolInv'
    BY <2>2, EnqueueStep
  <2>3. ASSUME NEW o \in Ops, NEW kind \in Kinds, NEW n \in ChainLengths,
               AddQuery(o, kind, n)
        PROVE  PoolInv'
    BY <2>3, AddQueryStep
  <2> QED BY <1>4, <2>1, <2>2, <2>3 DEF User
<1>5. ASSUME NEW c \in Conns, Work(c) PROVE PoolInv'
  <2>1. CASE WaitAndPop(c) BY <2>1, WaitAndPopStep
  <2>2. CASE CheckToken(c) BY <2>2, CheckTokenStep
  <2>3. CASE ExecutePlain(c) BY <2>3, ExecutePlainStep
  <2>4. CASE BeginTransaction(c) BY <2>4, BeginTransactionStep
  <2>5. CASE ExecuteStatement(c) BY <2>5, ExecuteStatementStep
  <2>6. CASE CommitTransaction(c) BY <2>6, CommitTransactionStep
  <2>7. CASE FailStatement(c) BY <2>7, FailStatementStep
  <2>8. CASE LockDeadlock(c) BY <2>8, LockDeadlockStep
  <2>9. CASE DeleteOperation(c) BY <2>9, DeleteOperationStep
  <2> QED BY <1>5, <2>1, <2>2, <2>3, <2>4, <2>5, <2>6, <2>7, <2>8, <2>9 DEF Work
<1>6. ASSUME NEW c \in Conns,
             SpuriousWakeup(c) \/ LosePlain(c) \/ LoseTransaction(c) \/ Abort(c)
      PROVE  PoolInv'
  BY <1>6, SpuriousWakeupStep, LosePlainStep, LoseTransactionStep, AbortStep
<1> QED BY <1>1, <1>2, <1>3, <1>4, <1>5, <1>6 DEF Next

\* The invariant always holds.
LEMMA PoolAlways == Spec => []PoolInv
BY PoolInit, PoolStep, PTL DEF Spec

\* A statement takes effect at most once more than connections were lost.
LEMMA PoolTypes == PoolInv => TypeOK
<1> SUFFICES ASSUME PoolInv PROVE TypeOK
  OBVIOUS
<1>1. lost \in 0..MaxLost /\ MaxLost \in Nat /\ op \in [Ops -> OpType]
  BY PoolAssumption DEF PoolInv, Types
<1>2. ASSUME NEW o \in Ops PROVE op[o] \in Operation
  <2>1. PICK x : x = op[o]
    OBVIOUS
  <2>2. x \in OpType /\ x.losses <= lost /\ \A s \in Statements : x.applied[s] <= 1 + x.losses
    BY <1>1, <2>1 DEF PoolInv, History, Whole
  <2>3. x.losses \in 0..MaxLost
    <3>1. x.losses \in Nat
      BY <2>2 DEF OpType
    <3> QED BY <1>1, <2>2, <3>1
  <2>4. x.applied \in [Statements -> 0..(1 + MaxLost)]
    <3>1. x.applied \in [Statements -> Nat]
      BY <2>2 DEF OpType
    <3>2. \A s \in Statements : x.applied[s] \in 0..(1 + MaxLost)
      BY <1>1, <2>2, <2>3, <3>1
    <3> QED BY <3>1, <3>2
  <2> QED BY <2>1, <2>2, <2>3, <2>4 DEF OpType, Operation
<1>3. op \in [Ops -> Operation]
  BY <1>1, <1>2
<1>4. \A c \in Conns : pend[c] = None \/ pend[c] \subseteq Statements
  BY DEF PoolInv, Types
<1> QED BY <1>3, <1>4 DEF PoolInv, Types, TypeOK

\* No operation is executed or deleted twice: it is in the queue of the pool
\* once, or in the hands of one DatabaseWorker, or gone, also while Close
\* cancels the queue under the workers.
THEOREM OperationsOwned == Spec => []OneOwner
<1>1. PoolInv => OneOwner
  <2> SUFFICES ASSUME PoolInv PROVE OneOwner
    OBVIOUS
  <2>1. TypeOK
    BY PoolTypes
  <2>2. Cardinality(ToSet(queue)) = Len(queue)
    BY DistinctCount DEF PoolInv, Types, Owners
  <2> QED BY <2>1, <2>2 DEF PoolInv, Owners, OneOwner
<1> QED BY <1>1, PoolAlways, PTL

\* One thread at a time retries a deadlocked transaction, it owns
\* TransactionTask::_deadlockLock, and no exit of the retry loop leaves it locked.
THEOREM RetriesAlone == Spec => []OneRetrier
<1>1. PoolInv => OneRetrier
  BY DEF PoolInv, Working, Worker, OneRetrier
<1> QED BY <1>1, PoolAlways, PTL

\* A worker never uses a connection that ~DatabaseWorker and Close have
\* destroyed, and none is destroyed in a transaction or with the lock owned.
THEOREM ConnectionsAlive == Spec => []ConnectionAlive
<1>1. PoolInv => ConnectionAlive
  <2> SUFFICES ASSUME PoolInv, NEW c \in Conns \ opened
               PROVE  /\ pc[c] \in {"none", "exit"}
                      /\ held[c] = None /\ pend[c] = None /\ deadlockLock # c
    BY DEF ConnectionAlive
  <2>1. Worker(c) /\ attempt[c] \in 0..MaxRetry
    BY DEF PoolInv, Types, Working
  <2> QED BY <2>1 DEF Worker
<1> QED BY <1>1, PoolAlways, PTL

\* Transactions take effect as a whole or not at all however often the retry
\* loop runs them; only a lost connection repeats a statement, each at most
\* once; a transaction's promise is set only after it took effect.
THEOREM TransactionsAtomic == Spec => []AtomicTransactions
<1>1. PoolInv => AtomicTransactions
  BY DEF PoolInv, History, Whole, AtomicTransactions
<1> QED BY <1>1, PoolAlways, PTL

\* The QueryCallbackProcessor neither loses a callback nor calls one twice, and
\* calls none of a query whose promise was abandoned.
THEOREM CallbacksOnce == Spec => []CallbackOnce
<1>1. PoolInv => CallbackOnce
  <2> SUFFICES ASSUME PoolInv, NEW o \in Ops
               PROVE  /\ Cardinality(Positions(o)) =
                            IF op[o].waits /\ op[o].called = "no" THEN 1 ELSE 0
                      /\ op[o].kind = "query" => op[o].called # "broken"
    BY DEF CallbackOnce
  <2>1. callbacks \in CallbackList /\ update \in CallbackList /\ kept \in CallbackList
    BY DEF PoolInv, Types
  <2>2. PICK cu : cu = callbacks \o update
    OBVIOUS
  <2>3. cu \in CallbackList /\ Futures(cu) = Futures(callbacks) \o Futures(update)
    BY <2>1, <2>2, FuturesConcat
  <2>4. PICK all : all = cu \o kept
    OBVIOUS
  <2>5. all \in CallbackList /\ Futures(all) = Futures(cu) \o Futures(kept)
    BY <2>1, <2>3, <2>4, FuturesConcat
  <2>6. PICK f, g, h : f = Futures(callbacks) /\ g = Futures(update) /\ h = Futures(kept)
    OBVIOUS
  <2>7. /\ f \in Seq(Ops) /\ g \in Seq(Ops) /\ h \in Seq(Ops)
        /\ Distinct(f) /\ Distinct(g) /\ Distinct(h)
        /\ ToSet(f) \cap ToSet(g) = {} /\ ToSet(f) \cap ToSet(h) = {}
        /\ ToSet(g) \cap ToSet(h) = {}
    BY <2>1, <2>6, FuturesOf DEF PoolInv, Waiting
  <2>8. PICK fg : fg = f \o g
    OBVIOUS
  <2>9. fg \in Seq(Ops) /\ Distinct(fg) /\ ToSet(fg) = ToSet(f) \cup ToSet(g)
    BY <2>7, <2>8, Joined
  <2>10. PICK t : t = fg \o h
    OBVIOUS
  <2>11. ToSet(fg) \cap ToSet(h) = {}
    BY <2>7, <2>9
  <2>12. t \in Seq(Ops) /\ Distinct(t) /\ ToSet(t) = ToSet(fg) \cup ToSet(h)
    BY <2>7, <2>9, <2>10, <2>11, Joined
  <2>13. Futures(all) = t
    BY <2>3, <2>5, <2>6, <2>8, <2>10
  <2>14. Len(t) = Len(all) /\ \A j \in 1..Len(all) : t[j] = all[j].future
    BY <2>5, <2>13, FuturesOf
  <2>15. Positions(o) = {j \in 1..Len(all) : all[j].future = o}
    BY <2>2, <2>4 DEF Positions
  <2>16. Positions(o) = {j \in 1..Len(t) : t[j] = o}
    BY <2>14, <2>15
  <2>17. Cardinality(Positions(o)) = IF o \in ToSet(t) THEN 1 ELSE 0
    BY <2>12, <2>16, PositionCount
  <2>18. (op[o].waits /\ op[o].called = "no") <=> o \in ToSet(t)
    BY <2>6, <2>9, <2>12 DEF PoolInv, Waiting
  <2>19. op[o].kind = "query" => op[o].called # "broken"
    BY DEF PoolInv, History
  <2> QED BY <2>17, <2>18, <2>19
<1> QED BY <1>1, PoolAlways, PTL

=============================================================================
