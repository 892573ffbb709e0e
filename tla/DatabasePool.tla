---------------------------- MODULE DatabasePool ----------------------------
(***************************************************************************)
(* The asynchronous half of a DatabaseWorkerPool: the shared queue of       *)
(* SQLOperations, one DatabaseWorker per asynchronous MySQL connection, the *)
(* retry of deadlocked transactions, the promises that workers fulfil, the  *)
(* QueryCallbackProcessor that polls their futures, and the opening and     *)
(* closing of the pool by the main thread.                                  *)
(*                                                                          *)
(* An operation object is a member of Ops and is never reused.  MySQL is    *)
(* the environment: a statement succeeds, fails, deadlocks, or the          *)
(* connection is lost, reconnected, and the statement sent again.           *)
(***************************************************************************)
EXTENDS Integers, Sequences, FiniteSets, SequencesExt

CONSTANTS
    Ops,            \* SQLOperation objects
    Conns,          \* asynchronous connections, each with its worker thread
    TransSize,      \* statements in a transaction
    MaxRetry,       \* retries of a deadlock within DEADLOCK_MAX_RETRY_TIME_MS
    MaxLost,        \* bound on lost connections
    AutoSetup,      \* Updates.AutoSetup
    None

ASSUME PoolAssumption ==
    /\ IsFiniteSet(Ops) /\ IsFiniteSet(Conns) /\ Conns # {}
    /\ TransSize \in Nat \ {0} /\ MaxRetry \in Nat \ {0} /\ MaxLost \in Nat
    /\ AutoSetup \in BOOLEAN
    /\ None \notin Ops \cup Conns
    /\ \A S \in SUBSET (1..TransSize) : None # S

VARIABLES
    mpc,            \* where the main thread is, with respect to the pool
    opened,         \* connections that exist: _connections[IDX_ASYNC]
    dying,          \* the connection whose destructor runs, if any
    dpc,            \* where ~DatabaseWorker is: "none", "cancel", "join"
    missing,        \* the database does not exist yet
    queue, shutdown,    \* the ProducerConsumerQueue of the pool
    token,          \* _cancelationToken of each worker
    pc,             \* where each worker is
    held,           \* the operation each worker popped
    k,              \* the statement of the transaction it executes next
    pend,           \* the statements its open transaction holds, or None when
                    \* the server session is not in a transaction
    attempt,        \* 0, or which retry of a deadlocked transaction runs
    deadlockLock,   \* the worker that owns TransactionTask::_deadlockLock
    lost,           \* connections lost so far
    op,             \* the operations, see NewOp
    callbacks,      \* _callbacks of the QueryCallbackProcessor
    update, kept    \* updateCallbacks still to look at, and those that stay

mainVars == <<mpc, opened, dying, dpc, missing>>
queueVars == <<queue, shutdown>>
workVars == <<held, k, pend, attempt>>
procVars == <<callbacks, update, kept>>
vars == <<mainVars, queueVars, token, pc, workVars, deadlockLock, lost, op,
          procVars>>

-----------------------------------------------------------------------------
Statements == 1..TransSize
ChainLengths == {1, 2}  \* callbacks given to a query before it is added
Kinds == {"execute", "query", "transaction", "ping"}

\* Query and holder tasks and transactions have a promise.  applied counts how
\* often each statement took effect in the database; losses: connections lost
\* while it ran; waits: a callback waits for it; called: what that one saw.
NewOp(kind) ==
    [kind    |-> kind,
     state   |-> "fresh",
     promise |-> IF kind \in {"query", "transaction"} THEN "pending" ELSE "none",
     applied |-> [s \in Statements |-> 0],
     losses  |-> 0,
     waits   |-> FALSE,
     called  |-> "no"]

Writes(o) == CASE o.kind = "transaction" -> Statements
               [] o.kind = "execute" -> {1}
               [] OTHER -> {}

Apply(o, S) ==
    [o EXCEPT !.applied = [s \in Statements |-> IF s \in S THEN @[s] + 1 ELSE @[s]]]

\* The connection is lost while o runs; the statements in S had taken effect.
Lose(o, S) == [Apply(o, S) EXCEPT !.losses = @ + 1]

\* Deleting an operation abandons a promise without a value.
Delete(o, state) ==
    [o EXCEPT !.state = state,
              !.promise = IF @ = "pending" THEN "broken" ELSE @]

Sleepers(f) == {c \in Conns : f[c] = "sleep"}

\* Enqueue: ProducerConsumerQueue::Push(o), o a new operation among ops.
Push(o, kind, waits, ops) ==
    /\ queue' = Append(queue, o)
    /\ op' = [ops EXCEPT ![o] = [NewOp(kind) EXCEPT !.state = "queued",
                                                    !.waits = waits]]
    /\ pc' \in IF Sleepers(pc) = {} THEN {pc}
               ELSE {[pc EXCEPT ![c] = "pop"] : c \in Sleepers(pc)}

Init ==
    /\ mpc = "opening" /\ opened = {} /\ dying = None /\ dpc = "none"
    /\ missing \in BOOLEAN
    /\ queue = <<>> /\ shutdown = FALSE
    /\ token = [c \in Conns |-> FALSE]
    /\ pc = [c \in Conns |-> "none"]
    /\ held = [c \in Conns |-> None]
    /\ k = [c \in Conns |-> 1]
    /\ pend = [c \in Conns |-> None]
    /\ attempt = [c \in Conns |-> 0]
    /\ deadlockLock = None /\ lost = 0
    /\ op = [o \in Ops |-> NewOp("ping")]
    /\ callbacks = <<>> /\ update = <<>> /\ kept = <<>>

-----------------------------------------------------------------------------
(***************************************************************************)
(* The main thread: Open and Close                                          *)
(***************************************************************************)

\* OpenConnections: a connection object, and with it a worker thread, is made
\* before MySQLConnection::Open; an error destroys it and all others.
OpenConnection(c) ==
    /\ mpc = "opening" /\ c \notin opened
    /\ opened' = opened \cup {c}
    /\ pc' = [pc EXCEPT ![c] = "pop"]
    /\ token' = [token EXCEPT ![c] = FALSE]
    /\ \/ UNCHANGED mpc /\ ~missing
       \/ mpc' = "failing"
    /\ UNCHANGED <<dying, dpc, missing, queueVars, workVars, deadlockLock, lost, op,
                   procVars>>

PoolOpened ==
    /\ mpc = "opening" /\ opened = Conns
    /\ mpc' = "running"
    /\ UNCHANGED <<opened, dying, dpc, missing, queueVars, token, pc, workVars,
                   deadlockLock, lost, op, procVars>>

\* DatabaseLoader: the database did not exist, is created, and Open is called
\* a second time.
OpenAgain ==
    /\ mpc = "failed" /\ AutoSetup /\ missing
    /\ mpc' = "opening" /\ missing' = FALSE
    /\ UNCHANGED <<opened, dying, dpc, queueVars, token, pc, workVars, deadlockLock,
                   lost, op, procVars>>

\* ~DatabaseWorker, called for each connection that is destroyed.
SetToken(c) ==
    /\ mpc \in {"closing", "failing"} /\ dying = None /\ c \in opened
    /\ dying' = c /\ dpc' = "cancel"
    /\ token' = [token EXCEPT ![c] = TRUE]
    /\ UNCHANGED <<mpc, opened, missing, queueVars, pc, workVars, deadlockLock,
                   lost, op, procVars>>

\* Mutant: the deleted operations stay in the queue.
CancelKeeps ==
    /\ dpc = "cancel" /\ dpc' = "join"
    /\ shutdown' = TRUE
    /\ op' = [o \in Ops |-> IF o \in ToSet(queue) THEN Delete(op[o], "dropped")
                                                  ELSE op[o]]
    /\ pc' = [c \in Conns |-> IF c \in Sleepers(pc) THEN "pop" ELSE pc[c]]
    /\ UNCHANGED <<mpc, opened, dying, missing, queue, token, workVars,
                   deadlockLock, lost, procVars>>

\* Mutant: no notify_all.
CancelSilent ==
    /\ dpc = "cancel" /\ dpc' = "join"
    /\ queue' = <<>> /\ shutdown' = TRUE
    /\ op' = [o \in Ops |-> IF o \in ToSet(queue) THEN Delete(op[o], "dropped")
                                                  ELSE op[o]]
    /\ UNCHANGED <<mpc, opened, dying, missing, token, pc, workVars,
                   deadlockLock, lost, procVars>>

\* _queue->Cancel() on the queue that all connections share.
Cancel ==
    /\ dpc = "cancel"
    /\ dpc' = "join"
    /\ queue' = <<>> /\ shutdown' = TRUE
    /\ op' = [o \in Ops |-> IF o \in ToSet(queue) THEN Delete(op[o], "dropped")
                                                  ELSE op[o]]
    /\ pc' = [c \in Conns |-> IF c \in Sleepers(pc) THEN "pop" ELSE pc[c]]
    /\ UNCHANGED <<mpc, opened, dying, missing, token, workVars, deadlockLock,
                   lost, procVars>>

\* Mutant: the connection is deleted without a join.
JoinMutant ==
    /\ dpc = "join"
    /\ opened' = opened \ {dying} /\ dying' = None /\ dpc' = "none"
    /\ mpc' = IF opened' # {} THEN mpc
              ELSE IF mpc = "failing" THEN "failed" ELSE "closed"
    /\ UNCHANGED <<missing, queueVars, token, pc, workVars, deadlockLock, lost,
                   op, procVars>>

\* _workerThread.join(), then the connection is closed and deleted.
Join ==
    /\ dpc = "join" /\ pc[dying] = "exit"
    /\ opened' = opened \ {dying} /\ dying' = None /\ dpc' = "none"
    /\ mpc' = IF opened' # {} THEN mpc
              ELSE IF mpc = "failing" THEN "failed" ELSE "closed"
    /\ UNCHANGED <<missing, queueVars, token, pc, workVars, deadlockLock, lost,
                   op, procVars>>

Close ==
    /\ mpc = "running"
    /\ mpc' = "closing"
    /\ UNCHANGED <<opened, dying, dpc, missing, queueVars, token, pc, workVars,
                   deadlockLock, lost, op, procVars>>

\* The server is gone: closed, not opened, or aborted by a database error.
Gone == mpc \in {"closed", "aborted", "failed"}

-----------------------------------------------------------------------------
(***************************************************************************)
(* Users of the pool                                                        *)
(***************************************************************************)

Running == mpc \in {"running", "processing"}

\* Execute, KeepAlive or CommitTransaction without a callback, by any thread.
Enqueue(o, kind) ==
    /\ Running /\ op[o].state = "fresh" /\ kind \in Kinds \ {"query"}
    /\ Push(o, kind, FALSE, op)
    /\ UNCHANGED <<mainVars, shutdown, token, workVars, deadlockLock, lost,
                   procVars>>

\* AddQuery(AsyncQuery or CommitTransaction) with n callbacks.
AddQuery(o, kind, n) ==
    /\ mpc = "running" /\ op[o].state = "fresh"
    /\ kind = "query" \/ (kind = "transaction" /\ n = 1)
    /\ Push(o, kind, TRUE, op)
    /\ callbacks' = Append(callbacks, [future |-> o, left |-> n])
    /\ UNCHANGED <<mainVars, shutdown, token, workVars, deadlockLock, lost,
                   update, kept>>

ProcessReadyQueries ==
    /\ mpc = "running" /\ callbacks # <<>>
    /\ mpc' = "processing"
    /\ update' = callbacks /\ callbacks' = <<>>
    /\ UNCHANGED <<opened, dying, dpc, missing, queueVars, token, pc, workVars,
                   deadlockLock, lost, op, kept>>

Ready(o) == op[o].promise \in {"set", "broken"}

\* InvokeIfReady on the next callback: its future is not ready...
NotReady ==
    /\ mpc = "processing" /\ update # <<>> /\ ~Ready(Head(update).future)
    /\ kept' = Append(kept, Head(update))
    /\ update' = Tail(update)
    /\ UNCHANGED <<mainVars, queueVars, token, pc, workVars, deadlockLock, lost,
                   op, callbacks>>

\* ... or its function is called and leaves no next query: Completed.  For a
\* query f.get() would throw if the promise was abandoned; a transaction's
\* callback is called without get().
Completed ==
    /\ mpc = "processing" /\ update # <<>> /\ Ready(Head(update).future)
    /\ LET o == Head(update).future
       IN  /\ op' = [op EXCEPT ![o].called = op[o].promise]
           /\ mpc' = IF op[o].kind = "query" /\ op[o].promise = "broken"
                       THEN "aborted" ELSE mpc
    /\ update' = Tail(update)
    /\ UNCHANGED <<opened, dying, dpc, missing, queueVars, token, pc, workVars,
                   deadlockLock, lost, callbacks, kept>>

\* ... or it is called and leaves no next query, but adds the commit of a
\* transaction n (finalizeCharacterCreation, SaveToDB) to _callbacks.
CompletedAdding(n) ==
    /\ mpc = "processing" /\ update # <<>>
    /\ LET o == Head(update).future
       IN  /\ op[o].kind = "query" /\ op[o].promise = "set"
           /\ op[n].state = "fresh"
           /\ Push(n, "transaction", TRUE, [op EXCEPT ![o].called = "set"])
    /\ callbacks' = Append(callbacks, [future |-> n, left |-> 1])
    /\ update' = Tail(update)
    /\ UNCHANGED <<mainVars, shutdown, token, workVars, deadlockLock, lost,
                   kept>>

\* ... or it is called and sets a next query n, with a further callback in the
\* list already or added by the function: NextStep.
NextStep(n) ==
    /\ mpc = "processing" /\ update # <<>>
    /\ LET q == Head(update)
       IN  /\ op[q.future].kind = "query" /\ op[q.future].promise = "set"
           /\ op[n].state = "fresh"
           /\ Push(n, "query", TRUE, [op EXCEPT ![q.future].called = "set"])
           /\ kept' = Append(kept, [future |-> n,
                                    left   |-> IF q.left > 1 THEN q.left - 1 ELSE 1])
    /\ update' = Tail(update)
    /\ UNCHANGED <<mainVars, shutdown, token, workVars, deadlockLock, lost,
                   callbacks>>

\* Mutant: what callbacks added meanwhile is overwritten.
EndProcessOverwrites ==
    /\ mpc = "processing" /\ update = <<>>
    /\ mpc' = "running"
    /\ callbacks' = kept /\ kept' = <<>>
    /\ UNCHANGED <<opened, dying, dpc, missing, queueVars, token, pc, workVars,
                   deadlockLock, lost, op, update>>

\* Mutant: callbacks that were not ready are not put back.
EndProcessDrops ==
    /\ mpc = "processing" /\ update = <<>>
    /\ mpc' = "running"
    /\ kept' = <<>>
    /\ UNCHANGED <<opened, dying, dpc, missing, queueVars, token, pc, workVars,
                   deadlockLock, lost, op, callbacks, update>>

EndProcess ==
    /\ mpc = "processing" /\ update = <<>>
    /\ mpc' = "running"
    /\ callbacks' = callbacks \o kept /\ kept' = <<>>
    /\ UNCHANGED <<opened, dying, dpc, missing, queueVars, token, pc, workVars,
                   deadlockLock, lost, op, update>>

-----------------------------------------------------------------------------
(***************************************************************************)
(* The workers                                                              *)
(***************************************************************************)

\* WaitAndPop, one critical section of _queueLock up to wait or return.
WaitAndPop(c) ==
    /\ pc[c] = "pop"
    /\ IF queue = <<>> \/ shutdown
         THEN /\ pc' = [pc EXCEPT ![c] = IF shutdown THEN "popped" ELSE "sleep"]
              /\ UNCHANGED <<held, queue, op>>
         ELSE /\ pc' = [pc EXCEPT ![c] = "popped"]
              /\ held' = [held EXCEPT ![c] = Head(queue)]
              /\ queue' = Tail(queue)
              /\ op' = [op EXCEPT ![Head(queue)].state = "held"]
    /\ UNCHANGED <<mainVars, shutdown, token, k, pend, attempt, deadlockLock,
                   lost, procVars>>

SpuriousWakeup(c) ==
    /\ pc[c] = "sleep"
    /\ pc' = [pc EXCEPT ![c] = "pop"]
    /\ UNCHANGED <<mainVars, queueVars, token, workVars, deadlockLock, lost, op,
                   procVars>>

\* if (_cancelationToken || !operation) return; a popped operation is leaked.
CheckToken(c) ==
    /\ pc[c] = "popped"
    /\ IF token[c] \/ held[c] = None
         THEN /\ pc' = [pc EXCEPT ![c] = "exit"]
              /\ held' = [held EXCEPT ![c] = None]
              /\ op' = IF held[c] = None THEN op
                       ELSE [op EXCEPT ![held[c]].state = "leaked"]
         ELSE /\ pc' = [pc EXCEPT ![c] =
                          IF op[held[c]].kind = "transaction" THEN "begin"
                                                              ELSE "plain"]
              /\ UNCHANGED <<held, op>>
    /\ UNCHANGED <<mainVars, queueVars, token, k, pend, attempt, deadlockLock,
                   lost, procVars>>

Answer(o) == [o EXCEPT !.promise = IF @ = "pending" THEN "set" ELSE @]

\* Execute of a statement, query, holder or ping: with or without success the
\* promise of a query gets a value.
ExecutePlain(c) ==
    /\ pc[c] = "plain"
    /\ \E S \in {{}, Writes(op[held[c]])} :
          op' = [op EXCEPT ![held[c]] = Answer(Apply(@, S))]
    /\ pc' = [pc EXCEPT ![c] = "delete"]
    /\ UNCHANGED <<mainVars, queueVars, token, workVars, deadlockLock, lost,
                   procVars>>

\* The connection is lost while the statement is sent; _HandleMySQLErrno
\* reconnects and Execute calls itself.  The server may have run it.
LosePlain(c) ==
    /\ pc[c] = "plain" /\ lost < MaxLost
    /\ lost' = lost + 1
    /\ \E S \in {{}, Writes(op[held[c]])} :
          op' = [op EXCEPT ![held[c]] = Lose(@, S)]
    /\ UNCHANGED <<mainVars, queueVars, token, pc, workVars, deadlockLock,
                   procVars>>

\* ExecuteTransaction: START TRANSACTION, which commits one that is open.
BeginTransaction(c) ==
    /\ pc[c] = "begin"
    /\ op' = [op EXCEPT ![held[c]] = IF pend[c] = None THEN @ ELSE Apply(@, pend[c])]
    /\ pc' = [pc EXCEPT ![c] = "statement"]
    /\ k' = [k EXCEPT ![c] = 1]
    /\ pend' = [pend EXCEPT ![c] = {}]
    /\ UNCHANGED <<mainVars, queueVars, token, held, attempt, deadlockLock, lost,
                   procVars>>

\* One statement: kept by the open transaction, or applied at once when a
\* reconnect has left the session in autocommit mode.
ExecuteStatement(c) ==
    /\ pc[c] = "statement" /\ k[c] <= TransSize
    /\ k' = [k EXCEPT ![c] = @ + 1]
    /\ IF pend[c] = None
         THEN /\ op' = [op EXCEPT ![held[c]] = Apply(@, {k[c]})]
              /\ UNCHANGED pend
         ELSE /\ pend' = [pend EXCEPT ![c] = @ \cup {k[c]}]
              /\ UNCHANGED op
    /\ UNCHANGED <<mainVars, queueVars, token, pc, held, attempt, deadlockLock,
                   lost, procVars>>

\* A connection lost at a statement or at COMMIT: the server rolls back, or
\* had already done what it was told; the statement is then sent again.
LoseTransaction(c) ==
    /\ pc[c] = "statement" /\ lost < MaxLost
    /\ lost' = lost + 1
    /\ pend' = [pend EXCEPT ![c] = None]
    /\ LET sent == IF k[c] <= TransSize
                      THEN IF pend[c] = None THEN {k[c]} ELSE {}
                      ELSE IF pend[c] = None THEN {} ELSE pend[c]
       IN  \E S \in {{}, sent} :
              op' = [op EXCEPT ![held[c]] = Lose(@, S)]
    /\ UNCHANGED <<mainVars, queueVars, token, pc, held, k, attempt,
                   deadlockLock, procVars>>

\* The lock_guard of the retry loop goes out of scope.
Unlock(c) == deadlockLock' = IF attempt[c] > 0 THEN None ELSE deadlockLock

\* COMMIT, ExecuteTransaction returns 0: the promise is set, but not by the
\* retry loop.
CommitTransaction(c) ==
    /\ pc[c] = "statement" /\ k[c] > TransSize
    /\ op' = [op EXCEPT ![held[c]] =
                LET o == IF pend[c] = None THEN @ ELSE Apply(@, pend[c])
                IN  IF attempt[c] = 0 THEN Answer(o) ELSE o]
    /\ pend' = [pend EXCEPT ![c] = None]
    /\ Unlock(c)
    /\ pc' = [pc EXCEPT ![c] = "delete"]
    /\ UNCHANGED <<mainVars, queueVars, token, held, k, attempt, lost, procVars>>

\* Mutant: no ROLLBACK.
FailStatementKeeps(c) ==
    /\ pc[c] = "statement" /\ k[c] <= TransSize
    /\ IF attempt[c] = 0 THEN pc' = [pc EXCEPT ![c] = "lock"]
                         ELSE pc' = [pc EXCEPT ![c] = "delete"]
    /\ IF attempt[c] = 0 THEN UNCHANGED deadlockLock ELSE Unlock(c)
    /\ UNCHANGED <<mainVars, queueVars, token, held, k, pend, attempt, lost, op,
                   procVars>>

\* A statement fails and ROLLBACK follows.  A deadlock is retried, any other
\* error is not, but the retry loop goes on after either until its time is up.
FailStatement(c) ==
    /\ pc[c] = "statement" /\ k[c] <= TransSize
    /\ pend' = [pend EXCEPT ![c] = None]
    /\ \/ /\ attempt[c] = 0
          /\ pc' = [pc EXCEPT ![c] = "lock"]
          /\ UNCHANGED <<attempt, deadlockLock>>
       \/ /\ attempt[c] \in 1..(MaxRetry - 1)
          /\ pc' = [pc EXCEPT ![c] = "begin"]
          /\ attempt' = [attempt EXCEPT ![c] = @ + 1]
          /\ UNCHANGED deadlockLock
       \/ /\ pc' = [pc EXCEPT ![c] = "delete"]
          /\ Unlock(c)
          /\ UNCHANGED attempt
    /\ UNCHANGED <<mainVars, queueVars, token, held, k, lost, op, procVars>>

\* Mutant: the lock is not waited for.
LockDeadlockMutant(c) ==
    /\ pc[c] = "lock"
    /\ deadlockLock' = c
    /\ attempt' = [attempt EXCEPT ![c] = 1]
    /\ pc' = [pc EXCEPT ![c] = "begin"]
    /\ UNCHANGED <<mainVars, queueVars, token, held, k, pend, lost, op, procVars>>

\* std::lock_guard<std::mutex> lock(_deadlockLock)
LockDeadlock(c) ==
    /\ pc[c] = "lock" /\ deadlockLock = None
    /\ deadlockLock' = c
    /\ attempt' = [attempt EXCEPT ![c] = 1]
    /\ pc' = [pc EXCEPT ![c] = "begin"]
    /\ UNCHANGED <<mainVars, queueVars, token, held, k, pend, lost, op, procVars>>

\* delete operation
DeleteOperation(c) ==
    /\ pc[c] = "delete"
    /\ op' = [op EXCEPT ![held[c]] = Delete(@, "done")]
    /\ held' = [held EXCEPT ![c] = None]
    /\ attempt' = [attempt EXCEPT ![c] = 0] /\ k' = [k EXCEPT ![c] = 1]
    /\ pc' = [pc EXCEPT ![c] = "pop"]
    /\ UNCHANGED <<mainVars, queueVars, token, pend, deadlockLock, lost,
                   procVars>>

\* _HandleMySQLErrno aborts the server when it cannot reconnect, or when the
\* database structure is outdated.
Abort(c) ==
    /\ pc[c] \in {"plain", "begin", "statement"}
    /\ mpc' = "aborted"
    /\ UNCHANGED <<opened, dying, dpc, missing, queueVars, token, pc, workVars,
                   deadlockLock, lost, op, procVars>>

-----------------------------------------------------------------------------
Main ==
    \/ PoolOpened \/ OpenAgain \/ Cancel \/ Join
    \/ \E c \in Conns : OpenConnection(c) \/ SetToken(c)

Processor ==
    \/ ProcessReadyQueries \/ NotReady \/ Completed \/ EndProcess
    \/ \E n \in Ops : NextStep(n) \/ CompletedAdding(n)

User ==
    \/ Close
    \/ \E o \in Ops, kind \in Kinds :
          Enqueue(o, kind) \/ \E n \in ChainLengths : AddQuery(o, kind, n)

Work(c) ==
    \/ WaitAndPop(c) \/ CheckToken(c) \/ ExecutePlain(c) \/ BeginTransaction(c)
    \/ ExecuteStatement(c) \/ CommitTransaction(c) \/ FailStatement(c)
    \/ LockDeadlock(c) \/ DeleteOperation(c)

Next ==
    \/ /\ mpc # "aborted"
       /\ \/ Main \/ Processor \/ User
          \/ \E c \in Conns : \/ Work(c) \/ SpuriousWakeup(c) \/ LosePlain(c)
                              \/ LoseTransaction(c) \/ Abort(c)
    \/ Gone /\ UNCHANGED vars

Spec == Init /\ [][Next]_vars

\* The threads run, MySQL answers, and the world loop keeps processing its
\* callbacks.  Using and closing the pool is up to the environment.
FairSpec == /\ Spec
            /\ WF_vars(Main) /\ WF_vars(Processor)
            /\ \A c \in Conns : WF_vars(Work(c))

-----------------------------------------------------------------------------
(***************************************************************************)
(* Properties                                                               *)
(***************************************************************************)

MainPc == {"opening", "failing", "failed", "running", "processing", "closing",
           "closed", "aborted"}
WorkPc == {"none", "pop", "sleep", "popped", "plain", "begin", "statement",
           "lock", "delete", "exit"}
CallbackList == Seq([future : Ops, left : ChainLengths])

Operation ==
    [kind : Kinds,
     state : {"fresh", "queued", "held", "done", "dropped", "leaked"},
     promise : {"none", "pending", "set", "broken"},
     applied : [Statements -> 0..(1 + MaxLost)],
     losses : 0..MaxLost,
     waits : BOOLEAN,
     called : {"no", "set", "broken"}]

\* The variables have the types of the fields they model; a statement takes
\* effect at most once more than connections were lost.
TypeOK ==
    /\ mpc \in MainPc
    /\ opened \subseteq Conns /\ dying \in opened \cup {None}
    /\ dpc \in {"none", "cancel", "join"} /\ missing \in BOOLEAN
    /\ queue \in Seq(Ops) /\ shutdown \in BOOLEAN
    /\ token \in [Conns -> BOOLEAN]
    /\ pc \in [Conns -> WorkPc]
    /\ held \in [Conns -> Ops \cup {None}]
    /\ k \in [Conns -> 1..(TransSize + 1)]
    /\ \A c \in Conns : pend[c] = None \/ pend[c] \subseteq Statements
    /\ attempt \in [Conns -> 0..MaxRetry]
    /\ deadlockLock \in Conns \cup {None}
    /\ lost \in 0..MaxLost
    /\ op \in [Ops -> Operation]
    /\ callbacks \in CallbackList /\ update \in CallbackList
    /\ kept \in CallbackList

\* No operation is executed or deleted twice: it is in the queue once, or in
\* the hands of one worker, or gone, also while Close cancels the queue.
OneOwner ==
    /\ TypeOK
    /\ \A o \in Ops :
          /\ op[o].state = "queued" <=> o \in ToSet(queue)
          /\ op[o].state = "held" <=> \E c \in Conns : held[c] = o
    /\ \A c, d \in Conns : held[c] # None /\ held[c] = held[d] => c = d
    /\ Cardinality(ToSet(queue)) = Len(queue)

\* Only one asynchronous thread at a time retries a deadlocked transaction,
\* and it owns _deadlockLock; the lock is not left behind by any exit.
OneRetrier ==
    \A c \in Conns :
        deadlockLock = c <=> attempt[c] > 0 /\ pc[c] # "delete"

\* A transaction takes effect as a whole or not at all, and no statement twice,
\* however often it is retried, unless a connection was lost under it; then
\* each loss repeats a statement at most once.  A promise is not set early.
AtomicTransactions ==
    \A o \in Ops :
        /\ \A s \in Statements : op[o].applied[s] <= 1 + op[o].losses
        /\ op[o].kind = "transaction" /\ op[o].losses = 0 =>
             /\ \A s, t \in Statements : op[o].applied[s] = op[o].applied[t]
             /\ op[o].promise = "set" => op[o].applied[1] = 1

Positions(o) ==
    LET all == callbacks \o update \o kept
    IN  {j \in 1..Len(all) : all[j].future = o}

\* No callback is lost or called twice: one that waits is in the processor's
\* lists once, a called one is not, even when callbacks start further queries
\* while the list is processed.  A query's callback is called with a value: f.get()
\* does not throw for a promise that was abandoned.
CallbackOnce ==
    \A o \in Ops :
        /\ Cardinality(Positions(o)) =
              IF op[o].waits /\ op[o].called = "no" THEN 1 ELSE 0
        /\ op[o].kind = "query" => op[o].called # "broken"

\* A worker never works on a connection that has been destroyed, and no
\* connection is destroyed inside a transaction or with _deadlockLock owned.
ConnectionAlive ==
    \A c \in Conns \ opened :
        /\ pc[c] \in {"none", "exit"}
        /\ held[c] = None /\ pend[c] = None /\ deadlockLock # c

\* The server keeps running.
Up == mpc \in {"running", "processing"}

\* A query's callback is called, unless the pool closes or the server aborts.
CallbacksCalled ==
    \A o \in Ops : (Positions(o) # {} /\ Up) ~> (op[o].called # "no" \/ ~Up)

\* Close returns: every worker can be joined, whatever it was doing.
CloseEnds == mpc = "closing" ~> mpc \in {"closed", "aborted"}

=============================================================================
