-------------------------- MODULE MapUpdaterProofs --------------------------
(***************************************************************************)
(* Proofs about MapUpdater, for any sets of maps and workers.               *)
(***************************************************************************)
EXTENDS MapUpdater, FiniteSetTheorems, SequenceTheorems, TLAPS

\* Phases of the world thread in which no request may be outstanding.
Quiet == {"idle", "delayed", "deactivate", "cancelLoop", "cancelOnce", "join",
          "stopped"}

\* Map m has no request.
Unrequested(m) ==
    /\ m \notin InQueue(loopQueue) \cup InQueue(onceQueue)
    /\ \A w \in Workers : req[w] # m

\* A worker holds a request exactly where its code has one, of its own kind.
PcReq == \A w \in Workers :
    /\ pc[w] \in {"unborn", "pop", "sleep", "exit"} => req[w] = NoMap
    /\ pc[w] \in {"cancel", "start", "call", "called", "requeue", "finish"}
          => req[w] # NoMap
    /\ pc[w] = "popped" /\ req[w] = NoMap => token
    /\ w \in LoopWorkers => req[w] \in Instances \cup {NoMap}
    /\ w \in OnceWorkers => /\ req[w] \in WorldMaps \cup {NoMap}
                            /\ pc[w] \notin {"called", "requeue"}

Counts ==
    /\ pendingLoop = Len(loopQueue) + Cardinality(Holders(LoopWorkers))
    /\ pendingOnce = Len(onceQueue) + Cardinality(Holders(OnceWorkers))

Distinct(q) == \A j, k \in 1..Len(q) : q[j] = q[k] => j = k

\* Requests are distinct and their maps exist.
Requests ==
    /\ Distinct(loopQueue) /\ Distinct(onceQueue)
    /\ \A w \in Workers : req[w] \notin InQueue(loopQueue) \cup InQueue(onceQueue)
    /\ \A v, w \in Workers : v # w /\ req[v] # NoMap => req[v] # req[w]
    /\ InQueue(loopQueue) \cup InQueue(onceQueue) \subseteq exist
    /\ \A w \in Workers : req[w] # NoMap => req[w] \in exist

\* What each phase of the world thread knows of the counters.
Phases ==
    /\ wpc \in Quiet => pendingLoop = 0 /\ pendingOnce = 0
    /\ wpc \in {"disable", "waitLoops", "sleepLoops"} => pendingOnce = 0
    /\ wpc # "schedule" => todo = {}
    /\ ~activated => pendingLoop = 0 /\ pendingOnce = 0
    /\ token => /\ wpc \in {"cancelLoop", "cancelOnce", "waitOnces",
                            "waitLoops", "join", "stopped"}
                /\ pendingLoop = 0 /\ pendingOnce = 0
    /\ wpc \in {"cancelLoop", "cancelOnce", "join"} => token
    /\ loopShutdown \/ onceShutdown => token

\* A base map still to be visited has no request, and an instance has one only
\* once its base map's update has visited it.
Visits ==
    /\ \A m \in todo : m \in exist /\ Unrequested(m)
    /\ \A i \in iter : /\ i \in exist /\ Unrequested(i)
                       /\ IF activated
                            THEN \E w \in OnceWorkers :
                                    pc[w] = "call" /\ req[w] = Base[i]
                            ELSE wpc = "schedule"
    /\ \A i \in Instances : ~Unrequested(i) =>
          /\ Base[i] \notin todo \cup InQueue(onceQueue)
          /\ \A w \in Workers : req[w] = Base[i] => pc[w] \in {"call", "finish"}

IndInv == TypeOK /\ PcReq /\ Counts /\ Requests /\ Phases /\ Visits

-----------------------------------------------------------------------------
(***************************************************************************)
(* Queues and notifications                                                 *)
(***************************************************************************)

\* Push adds one element at the end.
LEMMA AppendQueue ==
    ASSUME NEW S, NEW q \in Seq(S), NEW m \in S
    PROVE  /\ Append(q, m) \in Seq(S)
           /\ Len(Append(q, m)) = Len(q) + 1
           /\ InQueue(Append(q, m)) = InQueue(q) \cup {m}
           /\ Distinct(q) /\ m \notin InQueue(q) => Distinct(Append(q, m))
<1> DEFINE r == Append(q, m)
<1>1. /\ r \in Seq(S) /\ Len(q) \in Nat /\ Len(r) = Len(q) + 1
      /\ \A k \in 1..Len(q) : r[k] = q[k]
      /\ r[Len(q) + 1] = m
  OBVIOUS
<1> HIDE DEF r
<1>2. InQueue(r) = InQueue(q) \cup {m}
  <2>1. ASSUME NEW x \in InQueue(r) PROVE x \in InQueue(q) \cup {m}
    <3>1. PICK k \in 1..Len(r) : x = r[k]
      BY <2>1 DEF InQueue
    <3>2. k \in 1..Len(q) \/ k = Len(q) + 1
      BY <1>1
    <3> QED BY <3>1, <3>2, <1>1 DEF InQueue
  <2>2. ASSUME NEW x \in InQueue(q) PROVE x \in InQueue(r)
    <3>1. PICK k \in 1..Len(q) : x = q[k]
      BY <2>2 DEF InQueue
    <3>2. k \in 1..Len(r) /\ x = r[k]
      BY <3>1, <1>1
    <3> QED BY <3>2 DEF InQueue
  <2>3. m \in InQueue(r)
    <3>1. Len(q) + 1 \in 1..Len(r) /\ r[Len(q) + 1] = m
      BY <1>1
    <3> QED BY <3>1 DEF InQueue
  <2> QED BY <2>1, <2>2, <2>3
<1>3. ASSUME Distinct(q), m \notin InQueue(q) PROVE Distinct(r)
  <2> SUFFICES ASSUME NEW j \in 1..Len(r), NEW k \in 1..Len(r), r[j] = r[k]
               PROVE  j = k
    BY DEF Distinct
  <2>1. \A i \in 1..Len(q) : q[i] # m
    BY <1>3 DEF InQueue
  <2> QED BY <1>1, <1>3, <2>1 DEF Distinct
<1> QED BY <1>1, <1>2, <1>3 DEF r

\* WaitAndPop removes the first element.
LEMMA TailQueue ==
    ASSUME NEW S, NEW q \in Seq(S), q # <<>>
    PROVE  /\ Tail(q) \in Seq(S) /\ Head(q) \in S
           /\ Head(q) \in InQueue(q)
           /\ Len(q) \in Nat \ {0} /\ Len(Tail(q)) = Len(q) - 1
           /\ InQueue(q) = InQueue(Tail(q)) \cup {Head(q)}
           /\ Distinct(q) => Distinct(Tail(q)) /\ Head(q) \notin InQueue(Tail(q))
<1> DEFINE r == Tail(q)
<1>1. /\ r \in Seq(S) /\ Head(q) \in S /\ Len(q) \in Nat \ {0}
      /\ Len(r) = Len(q) - 1 /\ Head(q) = q[1]
      /\ \A k \in 1..Len(r) : r[k] = q[k + 1]
  OBVIOUS
<1> HIDE DEF r
<1>2. Head(q) \in InQueue(q)
  <2>1. 1 \in 1..Len(q)
    BY <1>1
  <2> QED BY <1>1, <2>1 DEF InQueue
<1>3. InQueue(q) = InQueue(r) \cup {Head(q)}
  <2>1. ASSUME NEW x \in InQueue(q), x # Head(q) PROVE x \in InQueue(r)
    <3>1. PICK k \in 1..Len(q) : x = q[k]
      BY <2>1 DEF InQueue
    <3>2. k - 1 \in 1..Len(r) /\ x = r[k - 1]
      BY <3>1, <2>1, <1>1
    <3> QED BY <3>2 DEF InQueue
  <2>2. ASSUME NEW x \in InQueue(r) PROVE x \in InQueue(q)
    <3>1. PICK k \in 1..Len(r) : x = r[k]
      BY <2>2 DEF InQueue
    <3>2. k + 1 \in 1..Len(q) /\ x = q[k + 1]
      BY <3>1, <1>1
    <3> QED BY <3>2 DEF InQueue
  <2> QED BY <2>1, <2>2, <1>2
<1>4. ASSUME Distinct(q) PROVE Distinct(r) /\ Head(q) \notin InQueue(r)
  <2>1. Distinct(r)
    <3> SUFFICES ASSUME NEW j \in 1..Len(r), NEW k \in 1..Len(r), r[j] = r[k]
                 PROVE  j = k
      BY DEF Distinct
    <3>1. j + 1 \in 1..Len(q) /\ k + 1 \in 1..Len(q) /\ q[j + 1] = q[k + 1]
      BY <1>1
    <3>2. j + 1 = k + 1
      BY <3>1, <1>4 DEF Distinct
    <3> QED BY <3>2
  <2>2. ASSUME Head(q) \in InQueue(r) PROVE FALSE
    <3>1. PICK k \in 1..Len(r) : q[1] = r[k]
      BY <2>2, <1>1 DEF InQueue
    <3>2. 1 \in 1..Len(q) /\ k + 1 \in 1..Len(q) /\ q[1] = q[k + 1]
      BY <3>1, <1>1
    <3>3. 1 = k + 1
      BY <3>2, <1>4 DEF Distinct
    <3> QED BY <3>3
  <2> QED BY <2>1, <2>2
<1> QED BY <1>1, <1>2, <1>3, <1>4 DEF r

\* From thread state f to g some sleeping or unborn workers became ready.
WakesOnly(f, g) ==
    /\ g \in [Workers -> WorkerPc]
    /\ \A w \in Workers : \/ g[w] = f[w]
                          \/ f[w] \in {"sleep", "unborn"} /\ g[w] = "pop"

\* notify_one wakes one sleeping worker of the kind, or none when none sleeps.
LEMMA NotifyOneWakes ==
    ASSUME NEW W \in SUBSET Workers, NEW f \in [Workers -> WorkerPc],
           NEW g \in NotifyOne(W, f)
    PROVE  WakesOnly(f, g)
<1>1. CASE Sleepers(W, f) = {}
  BY <1>1 DEF NotifyOne, WakesOnly
<1>2. CASE Sleepers(W, f) # {}
  <2>1. PICK w \in Sleepers(W, f) : g = [f EXCEPT ![w] = "pop"]
    BY <1>2 DEF NotifyOne
  <2>2. w \in Workers /\ f[w] = "sleep"
    BY <2>1 DEF Sleepers
  <2>3. "pop" \in WorkerPc
    BY DEF WorkerPc
  <2> QED BY <2>1, <2>2, <2>3 DEF WakesOnly
<1> QED BY <1>1, <1>2

\* notify_all wakes sleeping workers and changes nobody else.
LEMMA NotifyAllWakes ==
    ASSUME NEW W \in SUBSET Workers, NEW f \in [Workers -> WorkerPc]
    PROVE  WakesOnly(f, NotifyAll(W, f))
BY DEF NotifyAll, Sleepers, WakesOnly, WorkerPc

\* spawnMissingOnceUpdateThreads only turns unborn once-workers into running ones.
LEMMA SpawnWakes ==
    ASSUME NEW f \in [Workers -> WorkerPc], NEW p,
           NEW g \in SpawnMissingOnceUpdateThreads(f, p)
    PROVE  WakesOnly(f, g)
<1>1. PICK S \in SUBSET Unborn(f) :
        g = [w \in Workers |-> IF w \in S THEN "pop" ELSE f[w]]
  BY DEF SpawnMissingOnceUpdateThreads
<1> QED BY <1>1 DEF Unborn, WakesOnly, WorkerPc

\* After schedule_update a worker has changed only by being woken or spawned.
LEMMA ScheduleWakes ==
    ASSUME NEW m, pc \in [Workers -> WorkerPc], ScheduleUpdate(m)
    PROVE  WakesOnly(pc, pc')
<1> LoopWorkers \in SUBSET Workers /\ OnceWorkers \in SUBSET Workers
  BY DEF Workers
<1>1. \A g, p : g \in [Workers -> WorkerPc]
                  /\ pc' \in SpawnMissingOnceUpdateThreads(g, p)
                => WakesOnly(g, pc')
  BY SpawnWakes
<1>2. PICK W \in {LoopWorkers, OnceWorkers}, p \in {pendingOnce, pendingOnce + 1} :
        \E g \in NotifyOne(W, pc) : pc' \in SpawnMissingOnceUpdateThreads(g, p)
  BY DEF ScheduleUpdate
<1>3. PICK g \in NotifyOne(W, pc) : pc' \in SpawnMissingOnceUpdateThreads(g, p)
  BY <1>2
<1>4. WakesOnly(pc, g)
  BY <1>2, NotifyOneWakes
<1>5. WakesOnly(g, pc')
  BY <1>1, <1>3, <1>4 DEF WakesOnly
<1> QED BY <1>4, <1>5 DEF WakesOnly

-----------------------------------------------------------------------------
(***************************************************************************)
(* Counting                                                                 *)
(***************************************************************************)

\* There are finitely many threads.
LEMMA WorkersFinite ==
    /\ IsFiniteSet(LoopWorkers) /\ IsFiniteSet(OnceWorkers)
    /\ LoopWorkers \subseteq Workers /\ OnceWorkers \subseteq Workers
    /\ \A w \in Workers : w \in LoopWorkers <=> w \notin OnceWorkers
BY WorkersAssumption DEF Workers

\* So there are finitely many workers that hold a request.
LEMMA HoldersFinite ==
    ASSUME NEW W \in {LoopWorkers, OnceWorkers}
    PROVE  /\ IsFiniteSet(Holders(W))
           /\ Cardinality(Holders(W)) \in Nat
           /\ Cardinality(Holders(W)) = 0 <=> Holders(W) = {}
<1>1. Holders(W) \subseteq W
  BY DEF Holders
<1>2. IsFiniteSet(Holders(W))
  BY <1>1, WorkersFinite, FS_Subset
<1> QED BY <1>2, FS_CardinalityType, FS_EmptySet

\* Counter 0 means: queue empty and no worker of the kind holds a request.
LEMMA ZeroPending ==
    ASSUME TypeOK, Counts
    PROVE  /\ pendingLoop = 0 =>
                loopQueue = <<>> /\ \A w \in LoopWorkers : req[w] = NoMap
           /\ pendingOnce = 0 =>
                onceQueue = <<>> /\ \A w \in OnceWorkers : req[w] = NoMap
<1>1. Len(loopQueue) \in Nat /\ Len(onceQueue) \in Nat
  BY DEF TypeOK
<1>2. /\ Len(loopQueue) = 0 => loopQueue = <<>>
      /\ Len(onceQueue) = 0 => onceQueue = <<>>
  BY DEF TypeOK
<1>3. /\ Cardinality(Holders(LoopWorkers)) \in Nat
      /\ Cardinality(Holders(LoopWorkers)) = 0 <=> Holders(LoopWorkers) = {}
      /\ Cardinality(Holders(OnceWorkers)) \in Nat
      /\ Cardinality(Holders(OnceWorkers)) = 0 <=> Holders(OnceWorkers) = {}
  BY HoldersFinite
<1> DEFINE a == Len(loopQueue)
           b == Cardinality(Holders(LoopWorkers))
           c == Len(onceQueue)
           d == Cardinality(Holders(OnceWorkers))
<1>4. /\ pendingLoop = a + b /\ a \in Nat /\ b \in Nat
      /\ pendingOnce = c + d /\ c \in Nat /\ d \in Nat
  BY <1>1, <1>3 DEF Counts
<1> HIDE DEF a, b, c, d
<1>5. /\ pendingLoop = 0 => a = 0 /\ b = 0
      /\ pendingOnce = 0 => c = 0 /\ d = 0
  BY <1>4
<1>6. /\ pendingLoop = 0 => Len(loopQueue) = 0 /\ Holders(LoopWorkers) = {}
      /\ pendingOnce = 0 => Len(onceQueue) = 0 /\ Holders(OnceWorkers) = {}
  BY <1>5, <1>3 DEF a, b, c, d
<1> QED BY <1>2, <1>6 DEF Holders

\* A worker that takes a request adds one holder.
LEMMA TakeRequest ==
    ASSUME TypeOK, NEW W \in {LoopWorkers, OnceWorkers}, NEW w \in W, NEW m \in Maps,
           req[w] = NoMap, req' = [req EXCEPT ![w] = m]
    PROVE  Cardinality(Holders(W)') = Cardinality(Holders(W)) + 1
<1>1. w \in Workers /\ m # NoMap
  BY WorkersFinite, MapsAssumption
<1>2. Holders(W)' = Holders(W) \cup {w} /\ w \notin Holders(W)
  BY <1>1, WorkersFinite DEF Holders, TypeOK
<1> QED BY <1>2, HoldersFinite, FS_AddElement

\* A worker that gives its request up removes one.
LEMMA DropRequest ==
    ASSUME TypeOK, NEW W \in {LoopWorkers, OnceWorkers}, NEW w \in W,
           req[w] # NoMap, req' = [req EXCEPT ![w] = NoMap]
    PROVE  /\ Cardinality(Holders(W)') = Cardinality(Holders(W)) - 1
           /\ Cardinality(Holders(W)) > 0
<1>1. w \in Workers
  BY WorkersFinite
<1>2. Holders(W)' = Holders(W) \ {w} /\ w \in Holders(W)
  BY <1>1, WorkersFinite DEF Holders, TypeOK
<1>3. Cardinality(Holders(W)') = Cardinality(Holders(W)) - 1
  BY <1>2, HoldersFinite, FS_RemoveElement
<1>4. Cardinality(Holders(W)) # 0
  BY <1>2, HoldersFinite
<1> QED BY <1>3, <1>4, HoldersFinite

\* The workers of the other kind are not affected.
LEMMA OtherHolders ==
    ASSUME TypeOK, NEW W \in {LoopWorkers, OnceWorkers}, NEW w \in Workers \ W, NEW m,
           req' = [req EXCEPT ![w] = m]
    PROVE  Holders(W)' = Holders(W)
BY WorkersFinite DEF Holders, TypeOK

-----------------------------------------------------------------------------
(***************************************************************************)
(* Steps that leave the requests alone                                      *)
(***************************************************************************)

requestVars == <<req, loopQueue, onceQueue>>

\* The counters stay right when neither queues, requests nor counters change.
LEMMA FrameCounts ==
    ASSUME Counts, UNCHANGED requestVars, UNCHANGED countVars
    PROVE  Counts'
BY DEF Counts, Holders, requestVars, countVars

\* So do the facts about requests.
LEMMA FrameRequests ==
    ASSUME Requests, UNCHANGED requestVars, exist \subseteq exist'
    PROVE  Requests'
BY DEF Requests, Distinct, InQueue, requestVars

\* A map without a request keeps having none when the requests do not change.
LEMMA FrameUnrequested ==
    ASSUME UNCHANGED requestVars
    PROVE  \A m : Unrequested(m)' <=> Unrequested(m)
BY DEF Unrequested, InQueue, requestVars

\* The invariant holds when the updater is created.
LEMMA InitInv == Init => IndInv
<1> SUFFICES ASSUME Init PROVE IndInv
  OBVIOUS
<1> USE WorkersFinite
<1>1. TypeOK
  <2>1. pc \in [Workers -> WorkerPc]
    BY DEF Init, WorkerPc
  <2>2. updated \in [Maps -> 0..UpdateCap]
    BY DEF Init, UpdateCap
  <2>3. loopQueue \in Seq(Instances) /\ onceQueue \in Seq(WorldMaps)
    BY DEF Init
  <2> QED BY <2>1, <2>2, <2>3 DEF Init, TypeOK, WorldPc
<1>2. PcReq
  BY DEF Init, PcReq
<1>3. Counts
  <2>1. Holders(LoopWorkers) = {} /\ Holders(OnceWorkers) = {}
    BY DEF Init, Holders
  <2>2. Len(loopQueue) = 0 /\ Len(onceQueue) = 0
    BY DEF Init
  <2> QED BY <2>1, <2>2, FS_EmptySet DEF Init, Counts
<1>4. Requests
  BY DEF Init, Requests, Distinct, InQueue
<1>5. Phases
  BY DEF Init, Phases
<1>6. Visits
  <2>1. \A i \in Instances : Unrequested(i)
    BY MapsAssumption DEF Init, Unrequested, InQueue, Maps
  <2> QED BY <2>1 DEF Init, Visits
<1> QED BY <1>1, <1>2, <1>3, <1>4, <1>5, <1>6 DEF IndInv

\* Steps of the world thread that only move it, its flags or its loop, and
\* the creation of maps.
LEMMA WorldMoves ==
    ASSUME IndInv,
           \/ StartUpdate \/ EnableUpdateLoop \/ WaitUpdateOnces
           \/ DisableUpdateLoop \/ WaitUpdateLoops \/ DelayedUpdate
           \/ WorldSpuriousWakeup \/ Deactivate \/ Join
           \/ \E m \in Maps : CreateMap(m)
    PROVE  IndInv'
<1> USE DEF requestVars, queueVars, countVars, flagVars, histVars
<1>a. UNCHANGED <<requestVars, countVars>> /\ exist \subseteq exist'
  BY DEF StartUpdate, EnableUpdateLoop, WaitUpdateOnces, DisableUpdateLoop,
         WaitUpdateLoops, DelayedUpdate, WorldSpuriousWakeup, Deactivate, Join,
         CreateMap
<1>b. pc' = pc /\ iter' = iter
  BY DEF StartUpdate, EnableUpdateLoop, WaitUpdateOnces, DisableUpdateLoop,
         WaitUpdateLoops, DelayedUpdate, WorldSpuriousWakeup, Deactivate, Join,
         CreateMap
<1>c. token => token'
  BY DEF StartUpdate, EnableUpdateLoop, WaitUpdateOnces, DisableUpdateLoop,
         WaitUpdateLoops, DelayedUpdate, WorldSpuriousWakeup, Deactivate, Join,
         CreateMap
<1>d. \A m : Unrequested(m)' <=> Unrequested(m)
  BY <1>a, FrameUnrequested
<1>e. wpc \in Quiet => \A m \in Maps : Unrequested(m)
  BY ZeroPending, MapsAssumption, WorkersFinite
     DEF IndInv, Phases, Unrequested, InQueue
<1>1. TypeOK'
  <2>1. wpc' \in WorldPc
    BY DEF IndInv, TypeOK, WorldPc, StartUpdate,
         EnableUpdateLoop, WaitUpdateOnces, DisableUpdateLoop, WaitUpdateLoops,
         DelayedUpdate, WorldSpuriousWakeup, Deactivate, Join, CreateMap
  <2>2. updated' \in [Maps -> 0..UpdateCap]
    BY DEF IndInv, TypeOK, UpdateCap, StartUpdate,
         EnableUpdateLoop, WaitUpdateOnces, DisableUpdateLoop, WaitUpdateLoops,
         DelayedUpdate, WorldSpuriousWakeup, Deactivate, Join, CreateMap
  <2>3. /\ todo' \subseteq WorldMaps /\ exist' \subseteq Maps
        /\ scheduled' \subseteq Maps
    BY DEF IndInv, TypeOK, StartUpdate,
         EnableUpdateLoop, WaitUpdateOnces, DisableUpdateLoop, WaitUpdateLoops,
         DelayedUpdate, WorldSpuriousWakeup, Deactivate, Join, CreateMap
  <2>4. /\ activated' \in BOOLEAN /\ enable' \in BOOLEAN /\ token' \in BOOLEAN
        /\ loopShutdown' \in BOOLEAN /\ onceShutdown' \in BOOLEAN
    BY DEF IndInv, TypeOK, StartUpdate,
         EnableUpdateLoop, WaitUpdateOnces, DisableUpdateLoop, WaitUpdateLoops,
         DelayedUpdate, WorldSpuriousWakeup, Deactivate, Join, CreateMap
  <2> QED BY <2>1, <2>2, <2>3, <2>4, <1>a, <1>b DEF IndInv, TypeOK
<1>2. PcReq'
  BY <1>a, <1>b, <1>c DEF IndInv, PcReq
<1>3. Counts'
  BY <1>a, FrameCounts DEF IndInv
<1>4. Requests'
  BY <1>a, FrameRequests DEF IndInv
<1>5. Phases'
  BY DEF IndInv, TypeOK, Phases, Quiet, StartUpdate,
         EnableUpdateLoop, WaitUpdateOnces, DisableUpdateLoop, WaitUpdateLoops,
         DelayedUpdate, WorldSpuriousWakeup, Deactivate, Join, CreateMap
<1>6. Visits'
  <2>1. \A m \in todo' : m \in exist' /\ Unrequested(m)'
    BY <1>a, <1>d, <1>e
       DEF IndInv, Visits, Quiet, Maps, StartUpdate,
         EnableUpdateLoop, WaitUpdateOnces, DisableUpdateLoop, WaitUpdateLoops,
         DelayedUpdate, WorldSpuriousWakeup, Deactivate, Join, CreateMap
  <2>2. \A i \in iter' : /\ i \in exist' /\ Unrequested(i)'
                         /\ IF activated'
                              THEN \E w \in OnceWorkers :
                                      pc'[w] = "call" /\ req'[w] = Base[i]
                              ELSE wpc' = "schedule"
    BY <1>a, <1>b, <1>d, ZeroPending, MapsAssumption
       DEF IndInv, TypeOK, Visits, Phases, Quiet, Maps, WorldMaps, StartUpdate,
         EnableUpdateLoop, WaitUpdateOnces, DisableUpdateLoop, WaitUpdateLoops,
         DelayedUpdate, WorldSpuriousWakeup, Deactivate, Join, CreateMap
  <2>3. ASSUME NEW i \in Instances, ~Unrequested(i)'
        PROVE  /\ Base[i] \notin todo' \cup InQueue(onceQueue)'
               /\ \A w \in Workers : req'[w] = Base[i] => pc'[w] \in {"call", "finish"}
    <3>1. ~Unrequested(i) /\ wpc \notin Quiet
      BY <1>d, <1>e, <2>3 DEF Maps
    <3>2. todo' \subseteq todo
      BY <3>1 DEF Quiet, StartUpdate,
         EnableUpdateLoop, WaitUpdateOnces, DisableUpdateLoop, WaitUpdateLoops,
         DelayedUpdate, WorldSpuriousWakeup, Deactivate, Join, CreateMap
    <3> QED BY <3>1, <3>2, <1>a, <1>b DEF IndInv, Visits, InQueue
  <2> QED BY <2>1, <2>2, <2>3 DEF Visits
<1> QED BY <1>1, <1>2, <1>3, <1>4, <1>5, <1>6 DEF IndInv

-----------------------------------------------------------------------------
(***************************************************************************)
(* schedule_update                                                          *)
(***************************************************************************)

\* Maps are once-maps or loop-maps as their queue expects.
LEMMA MapKinds ==
    /\ \A m \in WorldMaps : ~IsLoopMap(m)
    /\ \A i \in Instances : IsLoopMap(i)
    /\ WorldMaps \subseteq Maps /\ Instances \subseteq Maps
BY MapsAssumption DEF IsLoopMap, Instanceable, WorldMaps, Maps

\* What schedule_update does to the requests: one more, for a map that had none.
LEMMA ScheduleRequests ==
    ASSUME IndInv, NEW m \in Maps, ScheduleUpdate(m), Unrequested(m), m \in exist,
           UNCHANGED <<req, token>>, exist \subseteq exist'
    PROVE  /\ WakesOnly(pc, pc')
           /\ loopQueue' \in Seq(Instances) /\ onceQueue' \in Seq(WorldMaps)
           /\ pendingLoop' \in Nat /\ pendingOnce' \in Nat
           /\ PcReq' /\ Counts' /\ Requests'
           /\ \A x : Unrequested(x)' <=> Unrequested(x) /\ x # m
           /\ m \in Instances => UNCHANGED <<pendingOnce, onceQueue>>
           /\ InQueue(onceQueue)' \subseteq InQueue(onceQueue) \cup {m}
<1>1. WakesOnly(pc, pc')
  BY ScheduleWakes DEF IndInv, TypeOK
<1>2. PcReq'
  BY <1>1 DEF IndInv, PcReq, WakesOnly
<1>3. Holders(LoopWorkers)' = Holders(LoopWorkers) /\ Holders(OnceWorkers)' = Holders(OnceWorkers)
  BY DEF Holders
<1>4. /\ Cardinality(Holders(LoopWorkers)) \in Nat
      /\ Cardinality(Holders(OnceWorkers)) \in Nat
  BY HoldersFinite
<1>5. CASE m \in Instances
  <2>1. /\ loopQueue' = Append(loopQueue, m) /\ pendingLoop' = pendingLoop + 1
        /\ UNCHANGED <<pendingOnce, onceQueue>>
    BY <1>5, MapKinds DEF ScheduleUpdate
  <2>2. loopQueue \in Seq(Instances) /\ m \notin InQueue(loopQueue) /\ Distinct(loopQueue)
    BY DEF IndInv, TypeOK, Requests, Unrequested
  <2>3. /\ loopQueue' \in Seq(Instances)
        /\ Len(loopQueue') = Len(loopQueue) + 1 /\ Len(loopQueue) \in Nat
        /\ InQueue(loopQueue') = InQueue(loopQueue) \cup {m}
        /\ Distinct(loopQueue')
    BY <1>5, <2>1, <2>2, AppendQueue
  <2>4. InQueue(loopQueue)' = InQueue(loopQueue') /\ InQueue(onceQueue)' = InQueue(onceQueue)
    BY <2>1 DEF InQueue
  <2>5. Counts'
    BY <1>3, <1>4, <2>1, <2>3 DEF IndInv, TypeOK, Counts
  <2>6. Requests'
    <3>1. Distinct(loopQueue)' /\ Distinct(onceQueue)'
      BY <2>1, <2>3 DEF IndInv, Requests, Distinct
    <3> QED BY <2>3, <2>4, <3>1 DEF IndInv, Requests, Unrequested
  <2>7. \A x : Unrequested(x)' <=> Unrequested(x) /\ x # m
    BY <2>3, <2>4 DEF Unrequested
  <2> QED BY <1>1, <1>2, <2>1, <2>3, <2>4, <2>5, <2>6, <2>7 DEF IndInv, TypeOK
<1>6. CASE m \in WorldMaps
  <2>1. /\ onceQueue' = Append(onceQueue, m) /\ pendingOnce' = pendingOnce + 1
        /\ UNCHANGED <<pendingLoop, loopQueue>>
    BY <1>6, MapKinds DEF ScheduleUpdate
  <2>2. onceQueue \in Seq(WorldMaps) /\ m \notin InQueue(onceQueue) /\ Distinct(onceQueue)
    BY DEF IndInv, TypeOK, Requests, Unrequested
  <2>3. /\ onceQueue' \in Seq(WorldMaps)
        /\ Len(onceQueue') = Len(onceQueue) + 1 /\ Len(onceQueue) \in Nat
        /\ InQueue(onceQueue') = InQueue(onceQueue) \cup {m}
        /\ Distinct(onceQueue')
    BY <1>6, <2>1, <2>2, AppendQueue
  <2>4. InQueue(onceQueue)' = InQueue(onceQueue') /\ InQueue(loopQueue)' = InQueue(loopQueue)
    BY <2>1 DEF InQueue
  <2>5. Counts'
    BY <1>3, <1>4, <2>1, <2>3 DEF IndInv, TypeOK, Counts
  <2>6. Requests'
    <3>1. Distinct(loopQueue)' /\ Distinct(onceQueue)'
      BY <2>1, <2>3 DEF IndInv, Requests, Distinct
    <3> QED BY <2>3, <2>4, <3>1 DEF IndInv, Requests, Unrequested
  <2>7. \A x : Unrequested(x)' <=> Unrequested(x) /\ x # m
    BY <2>3, <2>4 DEF Unrequested
  <2>8. m \notin Instances
    BY <1>6, MapsAssumption
  <2> QED BY <1>1, <1>2, <2>1, <2>3, <2>4, <2>5, <2>6, <2>7, <2>8 DEF IndInv, TypeOK
<1> QED BY <1>5, <1>6 DEF Maps

\* The world thread schedules a base map.
LEMMA ScheduleMapInv ==
    ASSUME IndInv, NEW m \in WorldMaps, ScheduleMap(m)
    PROVE  IndInv'
<1>1. /\ m \in Maps /\ m \in todo /\ wpc = "schedule" /\ activated /\ ScheduleUpdate(m)
      /\ todo' = todo \ {m}
      /\ UNCHANGED <<activated, wpc, exist, iter, req, loopShutdown,
                     onceShutdown, enable, token, updated>>
  BY MapKinds DEF ScheduleMap, flagVars
<1>2. Unrequested(m) /\ m \in exist
  BY <1>1 DEF IndInv, Visits
<1>3. /\ WakesOnly(pc, pc')
      /\ loopQueue' \in Seq(Instances) /\ onceQueue' \in Seq(WorldMaps)
      /\ pendingLoop' \in Nat /\ pendingOnce' \in Nat
      /\ PcReq' /\ Counts' /\ Requests'
      /\ \A x : Unrequested(x)' <=> Unrequested(x) /\ x # m
      /\ InQueue(onceQueue)' \subseteq InQueue(onceQueue) \cup {m}
  BY <1>1, <1>2, ScheduleRequests
<1>4. TypeOK'
  <2>1. scheduled' \subseteq Maps
    BY <1>1 DEF IndInv, TypeOK, ScheduleUpdate
  <2> QED BY <1>1, <1>3, <2>1 DEF IndInv, TypeOK, WakesOnly
<1>5. Phases'
  BY <1>1 DEF IndInv, Phases, Quiet
<1>6. Visits'
  <2>1. \A x \in todo' : x \in exist' /\ Unrequested(x)'
    BY <1>1, <1>3 DEF IndInv, Visits
  <2>2. ASSUME NEW i \in iter'
        PROVE  /\ i \in exist' /\ Unrequested(i)'
               /\ IF activated'
                    THEN \E w \in OnceWorkers : pc'[w] = "call" /\ req'[w] = Base[i]
                    ELSE wpc' = "schedule"
    <3>1. i \in exist /\ Unrequested(i) /\ i \in Instances
      BY <1>1, <2>2 DEF IndInv, Visits, TypeOK
    <3>2. PICK w \in OnceWorkers : pc[w] = "call" /\ req[w] = Base[i]
      BY <1>1, <2>2 DEF IndInv, Visits
    <3>3. pc'[w] = "call"
      BY <3>2, <1>3, WorkersFinite DEF WakesOnly
    <3>4. i # m
      BY <3>1, MapsAssumption
    <3> QED BY <3>1, <3>2, <3>3, <3>4, <1>1, <1>3
  <2>3. ASSUME NEW i \in Instances, ~Unrequested(i)'
        PROVE  /\ Base[i] \notin todo' \cup InQueue(onceQueue)'
               /\ \A w \in Workers : req'[w] = Base[i] => pc'[w] \in {"call", "finish"}
    <3>1. i # m
      BY MapsAssumption
    <3>2. ~Unrequested(i)
      BY <2>3, <3>1, <1>3
    <3>3. /\ Base[i] \notin todo \cup InQueue(onceQueue)
          /\ \A w \in Workers : req[w] = Base[i] => pc[w] \in {"call", "finish"}
      BY <3>2 DEF IndInv, Visits
    <3> QED BY <3>3, <1>1, <1>3 DEF WakesOnly
  <2> QED BY <2>1, <2>2, <2>3 DEF Visits
<1> QED BY <1>3, <1>4, <1>5, <1>6 DEF IndInv

\* A once-worker in MapInstanced::Update visits an instance.
LEMMA VisitInstanceInv ==
    ASSUME IndInv, NEW v \in Workers, NEW j \in Instances, VisitInstance(v, j)
    PROVE  IndInv'
<1>1. /\ pc[v] = "call" /\ j \in iter /\ Base[j] = req[v] /\ iter' = iter \ {j}
      /\ UNCHANGED <<activated, wpc, todo, req, loopShutdown, onceShutdown,
                     enable, token, updated>>
  BY DEF VisitInstance, flagVars
<1>2. /\ Unrequested(j) /\ j \in exist /\ j \in Maps
  BY <1>1, MapKinds DEF IndInv, Visits
<1>3. v \in OnceWorkers /\ req[v] \in WorldMaps /\ pendingOnce # 0
  <2>1. req[v] \in BaseMaps /\ req[v] \notin Instances /\ req[v] # NoMap
    BY <1>1, MapsAssumption DEF WorldMaps, Maps
  <2>2. v \in OnceWorkers
    BY <2>1, WorkersFinite DEF IndInv, PcReq
  <2> QED BY <2>1, <2>2, ZeroPending DEF IndInv, WorldMaps
<1>4. wpc \notin Quiet \cup {"disable", "waitLoops", "sleepLoops"} /\ activated /\ ~token
  BY <1>3 DEF IndInv, Phases
<1>5. CASE ScheduleUpdate(j) /\ UNCHANGED exist
  <2>3. /\ WakesOnly(pc, pc')
        /\ loopQueue' \in Seq(Instances) /\ onceQueue' \in Seq(WorldMaps)
        /\ pendingLoop' \in Nat /\ pendingOnce' \in Nat
        /\ PcReq' /\ Counts' /\ Requests'
        /\ \A x : Unrequested(x)' <=> Unrequested(x) /\ x # j
        /\ UNCHANGED <<pendingOnce, onceQueue>>
    BY <1>1, <1>2, <1>5, ScheduleRequests
  <2>4. TypeOK'
    <3>1. scheduled' \subseteq Maps
      BY <1>2, <1>5 DEF IndInv, TypeOK, ScheduleUpdate
    <3> QED BY <1>1, <1>5, <2>3, <3>1 DEF IndInv, TypeOK, WakesOnly
  <2>5. Phases'
    BY <1>1, <1>4 DEF IndInv, Phases
  <2>6. Visits'
    <3>1. \A x \in todo' : x \in exist' /\ Unrequested(x)'
      BY <1>1, <1>5, <2>3, MapsAssumption DEF IndInv, Visits, TypeOK
    <3>2. ASSUME NEW i \in iter'
          PROVE  /\ i \in exist' /\ Unrequested(i)'
                 /\ IF activated'
                      THEN \E w \in OnceWorkers : pc'[w] = "call" /\ req'[w] = Base[i]
                      ELSE wpc' = "schedule"
      <4>1. i \in exist /\ Unrequested(i) /\ i # j
        BY <1>1, <3>2 DEF IndInv, Visits
      <4>2. PICK w \in OnceWorkers : pc[w] = "call" /\ req[w] = Base[i]
        BY <1>1, <1>4, <3>2 DEF IndInv, Visits
      <4>3. pc'[w] = "call"
        BY <4>2, <2>3, WorkersFinite DEF WakesOnly
      <4> QED BY <4>1, <4>2, <4>3, <1>1, <1>4, <1>5, <2>3
    <3>3. ASSUME NEW i \in Instances, ~Unrequested(i)'
          PROVE  /\ Base[i] \notin todo' \cup InQueue(onceQueue)'
                 /\ \A w \in Workers : req'[w] = Base[i] => pc'[w] \in {"call", "finish"}
      <4>1. InQueue(onceQueue)' = InQueue(onceQueue)
        BY <2>3 DEF InQueue
      <4>2. CASE i # j
        <5>1. ~Unrequested(i)
          BY <3>3, <4>2, <2>3
        <5> QED BY <5>1, <4>1, <1>1, <2>3 DEF IndInv, Visits, WakesOnly
      <4>3. CASE i = j
        <5>1. Base[i] \notin todo
          BY <4>3, <1>1 DEF IndInv, Visits, Unrequested
        <5>2. Base[i] \notin InQueue(onceQueue)
          BY <4>3, <1>1 DEF IndInv, Requests
        <5>3. \A w \in Workers : req[w] = Base[i] => w = v
          BY <4>3, <1>1, <1>3, MapsAssumption DEF IndInv, Requests, Maps
        <5>4. pc'[v] = "call"
          BY <1>1, <2>3 DEF WakesOnly
        <5> QED BY <5>1, <5>2, <5>3, <5>4, <4>1, <1>1
      <4> QED BY <4>2, <4>3
    <3> QED BY <3>1, <3>2, <3>3 DEF Visits
  <2> QED BY <2>3, <2>4, <2>5, <2>6 DEF IndInv
<1>6. CASE /\ exist' \in {exist, exist \ {j}}
           /\ UNCHANGED <<pc, loopQueue, onceQueue, countVars, scheduled>>
  <2>1. UNCHANGED requestVars
    BY <1>1, <1>6 DEF requestVars
  <2>2. \A x : Unrequested(x)' <=> Unrequested(x)
    BY <2>1, FrameUnrequested
  <2>3. TypeOK' /\ PcReq' /\ Phases'
    BY <1>1, <1>6 DEF IndInv, TypeOK, PcReq, Phases, countVars
  <2>4. Counts'
    BY <1>6, <2>1, FrameCounts DEF IndInv
  <2>5. Requests'
    <3>1. InQueue(loopQueue)' = InQueue(loopQueue) /\ InQueue(onceQueue)' = InQueue(onceQueue)
      BY <1>6 DEF InQueue
    <3>2. Distinct(loopQueue)' /\ Distinct(onceQueue)'
      BY <1>6 DEF IndInv, Requests, Distinct
    <3> QED BY <1>1, <1>2, <1>6, <3>1, <3>2 DEF IndInv, Requests, Unrequested
  <2>6. Visits'
    <3>1. \A x \in todo' : x \in exist' /\ Unrequested(x)'
      BY <1>1, <1>6, <2>2, MapsAssumption DEF IndInv, Visits, TypeOK
    <3>2. \A i \in iter' : /\ i \in exist' /\ Unrequested(i)'
                           /\ IF activated'
                                THEN \E w \in OnceWorkers :
                                        pc'[w] = "call" /\ req'[w] = Base[i]
                                ELSE wpc' = "schedule"
      BY <1>1, <1>6, <2>2 DEF IndInv, Visits
    <3>3. InQueue(onceQueue)' = InQueue(onceQueue)
      BY <1>6 DEF InQueue
    <3>4. \A i \in Instances : ~Unrequested(i)' =>
             /\ Base[i] \notin todo' \cup InQueue(onceQueue)'
             /\ \A w \in Workers : req'[w] = Base[i] => pc'[w] \in {"call", "finish"}
      BY <1>1, <1>6, <2>2, <3>3 DEF IndInv, Visits
    <3> QED BY <3>1, <3>2, <3>4 DEF Visits
  <2> QED BY <2>3, <2>4, <2>5, <2>6 DEF IndInv
<1> QED BY <1>5, <1>6 DEF VisitInstance

-----------------------------------------------------------------------------
(***************************************************************************)
(* The remaining steps of the world thread                                  *)
(***************************************************************************)

\* In a quiet phase nothing is requested, visited or left to do.
LEMMA QuietState ==
    ASSUME IndInv, wpc \in Quiet
    PROVE  /\ loopQueue = <<>> /\ onceQueue = <<>>
           /\ \A w \in Workers : req[w] = NoMap
           /\ todo = {} /\ iter = {}
           /\ \A m \in Maps : Unrequested(m)
<1>1. /\ loopQueue = <<>> /\ onceQueue = <<>>
      /\ \A w \in Workers : req[w] = NoMap
  BY ZeroPending, WorkersFinite DEF IndInv, Phases
<1>2. todo = {}
  BY DEF IndInv, Phases, Quiet
<1>3. ASSUME NEW i \in iter PROVE FALSE
  <2>1. Base[i] # NoMap
    BY MapsAssumption DEF IndInv, TypeOK, WorldMaps, Maps
  <2> QED BY <1>1, <2>1, WorkersFinite DEF IndInv, Visits, Quiet
<1>4. \A m \in Maps : Unrequested(m)
  BY <1>1, MapsAssumption DEF Unrequested, InQueue
<1> QED BY <1>1, <1>2, <1>3, <1>4

\* Shutdown: the maps are deleted and both queues canceled.
LEMMA ShutdownInv ==
    ASSUME IndInv, UnloadAll \/ CancelLoopQueue \/ CancelOnceQueue
    PROVE  IndInv'
<1>1. wpc \in Quiet
  BY DEF UnloadAll, CancelLoopQueue, CancelOnceQueue, Quiet
<1>2. /\ loopQueue = <<>> /\ onceQueue = <<>>
      /\ \A w \in Workers : req[w] = NoMap
      /\ todo = {} /\ iter = {}
      /\ \A m \in Maps : Unrequested(m)
  BY <1>1, QuietState
<1>3. WakesOnly(pc, pc')
  <2>1. pc \in [Workers -> WorkerPc]
    BY DEF IndInv, TypeOK
  <2>2. WakesOnly(pc, pc)
    BY <2>1 DEF WakesOnly
  <2>3. \A W \in {LoopWorkers, OnceWorkers} : WakesOnly(pc, NotifyAll(W, pc))
    BY <2>1, NotifyAllWakes, WorkersFinite
  <2> QED BY <2>2, <2>3 DEF UnloadAll, CancelLoopQueue, CancelOnceQueue
<1>4. /\ UNCHANGED requestVars /\ UNCHANGED countVars
      /\ UNCHANGED <<activated, todo, iter, enable, token, histVars>>
      /\ exist' \subseteq exist
  BY <1>2 DEF UnloadAll, CancelLoopQueue, CancelOnceQueue, requestVars,
              queueVars, flagVars
<1>5. TypeOK'
  <2>1. wpc' \in WorldPc
    BY DEF WorldPc, UnloadAll, CancelLoopQueue, CancelOnceQueue
  <2>2. loopShutdown' \in BOOLEAN /\ onceShutdown' \in BOOLEAN
    BY DEF IndInv, TypeOK, queueVars, UnloadAll, CancelLoopQueue, CancelOnceQueue
  <2> QED BY <1>3, <1>4, <2>1, <2>2
          DEF IndInv, TypeOK, WakesOnly, requestVars, countVars, histVars
<1>6. PcReq'
  BY <1>3, <1>4 DEF IndInv, PcReq, WakesOnly, requestVars
<1>7. Counts'
  BY <1>4, FrameCounts DEF IndInv
<1>8. Requests'
  BY <1>2, <1>4 DEF Requests, Distinct, InQueue, requestVars
<1>9. Phases'
  BY <1>1, <1>2, <1>4 DEF IndInv, Phases, Quiet, countVars, queueVars, flagVars,
                    UnloadAll, CancelLoopQueue, CancelOnceQueue
<1>10. Visits'
  <2>1. \A m : Unrequested(m)' <=> Unrequested(m)
    BY <1>4, FrameUnrequested
  <2> QED BY <1>2, <1>4, <2>1, MapKinds DEF Visits
<1> QED BY <1>5, <1>6, <1>7, <1>8, <1>9, <1>10 DEF IndInv

\* Without worker threads nothing is ever requested.
LEMMA InlineInv ==
    ASSUME IndInv,
           \/ \E m \in WorldMaps : UpdateMapInline(m)
           \/ \E i \in Instances : UpdateInstanceInline(i)
    PROVE  IndInv'
<1>1. ~activated /\ wpc = "schedule"
  BY DEF UpdateMapInline, UpdateInstanceInline
<1>2. /\ loopQueue = <<>> /\ onceQueue = <<>>
      /\ \A w \in Workers : req[w] = NoMap
  BY <1>1, ZeroPending, WorkersFinite DEF IndInv, Phases
<1>3. \A m \in Maps : Unrequested(m)
  BY <1>2, MapsAssumption DEF Unrequested, InQueue
<1>4. /\ UNCHANGED requestVars /\ UNCHANGED countVars
      /\ UNCHANGED <<activated, wpc, pc, loopShutdown, onceShutdown, enable, token>>
      /\ exist' \subseteq exist /\ todo' \subseteq todo
  BY DEF UpdateMapInline, UpdateInstanceInline, requestVars, queueVars, flagVars
<1>5. \A m \in WorldMaps : m \in exist => m \in exist'
  BY MapsAssumption DEF UpdateMapInline, UpdateInstanceInline
<1>6. iter' \subseteq Instances /\ \A i \in iter' : i \in exist'
  BY DEF IndInv, TypeOK, Visits, UpdateMapInline, UpdateInstanceInline, InstancesOf
<1>7. TypeOK'
  <2>1. scheduled' \subseteq Maps
    BY MapKinds DEF IndInv, TypeOK, histVars, UpdateMapInline, UpdateInstanceInline
  <2>2. updated' \in [Maps -> 0..UpdateCap]
    BY MapKinds DEF IndInv, TypeOK, histVars, Count, UpdateCap, UpdateMapInline,
                    UpdateInstanceInline
  <2> QED BY <1>4, <1>6, <2>1, <2>2 DEF IndInv, TypeOK, requestVars, countVars
<1>8. PcReq' /\ Phases'
  BY <1>1, <1>4 DEF IndInv, PcReq, Phases, requestVars, countVars
<1>9. Counts'
  BY <1>4, FrameCounts DEF IndInv
<1>10. Requests'
  BY <1>2, <1>4 DEF Requests, Distinct, InQueue, requestVars
<1>11. Visits'
  <2>1. \A m : Unrequested(m)' <=> Unrequested(m)
    BY <1>4, FrameUnrequested
  <2> QED BY <1>1, <1>3, <1>4, <1>5, <1>6, <2>1, MapKinds DEF IndInv, TypeOK, Visits
<1> QED BY <1>7, <1>8, <1>9, <1>10, <1>11 DEF IndInv

-----------------------------------------------------------------------------
(***************************************************************************)
(* The remaining steps of a worker                                          *)
(***************************************************************************)

\* Steps of one worker that leave all requests where they are.
LEMMA WorkerMoves ==
    ASSUME IndInv, NEW v \in Workers,
           \/ CheckToken(v) \/ StartCall(v) \/ EndCall(v) \/ ReadEnable(v)
           \/ SpuriousWakeup(v)
           \/ WaitAndPop(v) /\ (Queue(v) = <<>> \/ Shutdown(v))
    PROVE  IndInv'
<1> USE DEF requestVars, queueVars, countVars, flagVars, histVars, worldVars
<1>1. /\ UNCHANGED requestVars /\ UNCHANGED countVars
      /\ UNCHANGED <<activated, wpc, todo, exist, loopShutdown, onceShutdown,
                     enable, token, scheduled>>
  BY DEF CheckToken, StartCall, EndCall, ReadEnable, SpuriousWakeup, WaitAndPop
<1>2. PICK s \in WorkerPc : pc' = [pc EXCEPT ![v] = s]
  BY DEF IndInv, TypeOK, WorkerPc, CheckToken, StartCall, EndCall, ReadEnable,
         SpuriousWakeup, WaitAndPop
<1>3. \A m : Unrequested(m)' <=> Unrequested(m)
  BY <1>1, FrameUnrequested
<1>4. pc \in [Workers -> WorkerPc] /\ pc' \in [Workers -> WorkerPc]
  BY <1>2 DEF IndInv, TypeOK
<1>5. PcReq'
  <2>1. ASSUME NEW w \in Workers, w # v PROVE pc'[w] = pc[w] /\ req'[w] = req[w]
    BY <1>1, <1>2, <1>4, <2>1
  <2>2. /\ pc'[v] \in {"unborn", "pop", "sleep", "exit"} => req[v] = NoMap
        /\ pc'[v] \in {"cancel", "start", "call", "called", "requeue", "finish"}
              => req[v] # NoMap
        /\ pc'[v] = "popped" /\ req[v] = NoMap => token
        /\ v \in OnceWorkers => pc'[v] \notin {"called", "requeue"}
    BY <1>4, WorkersFinite
       DEF IndInv, PcReq, Phases, CheckToken, StartCall, EndCall, ReadEnable,
           SpuriousWakeup, WaitAndPop, Shutdown
  <2> QED BY <1>1, <2>1, <2>2 DEF IndInv, PcReq
<1>6. iter' \subseteq Instances /\ updated' \in [Maps -> 0..UpdateCap]
  <2>1. iter' \subseteq Instances
    BY DEF IndInv, TypeOK, InstancesOf, CheckToken, StartCall, EndCall,
           ReadEnable, SpuriousWakeup, WaitAndPop
  <2>2. \A n \in 0..UpdateCap : Count(n) \in 0..UpdateCap
    BY DEF Count, UpdateCap
  <2>3. ASSUME EndCall(v) PROVE updated' \in [Maps -> 0..UpdateCap]
    <3>1. req[v] \in Maps /\ updated' = [updated EXCEPT ![req[v]] = Count(@)]
      BY <2>3 DEF IndInv, TypeOK, PcReq, EndCall
    <3>2. Count(updated[req[v]]) \in 0..UpdateCap
      BY <2>2, <3>1 DEF IndInv, TypeOK
    <3> QED BY <3>1, <3>2 DEF IndInv, TypeOK
  <2>4. ~EndCall(v) => updated' = updated
    BY DEF CheckToken, StartCall, ReadEnable, SpuriousWakeup, WaitAndPop
  <2> QED BY <2>1, <2>3, <2>4 DEF IndInv, TypeOK
<1>7. TypeOK'
  BY <1>1, <1>4, <1>6 DEF IndInv, TypeOK
<1>8. Counts' /\ Requests'
  BY <1>1, FrameCounts, FrameRequests DEF IndInv
<1>9. Phases'
  BY <1>1 DEF IndInv, Phases
<1>10. Visits'
  <2>1. \A x \in todo' : x \in exist' /\ Unrequested(x)'
    BY <1>1, <1>3 DEF IndInv, Visits
  <2>2. \A i \in Instances : ~Unrequested(i)' =>
            /\ Base[i] \notin todo' \cup InQueue(onceQueue)'
            /\ \A w \in Workers : req'[w] = Base[i] => pc'[w] \in {"call", "finish"}
    <3>1. InQueue(onceQueue)' = InQueue(onceQueue)
      BY <1>1 DEF InQueue
    <3>2. \A m \in Maps : req[v] = m /\ pc[v] \in {"call", "finish"}
             => pc'[v] \in {"call", "finish"} \/ v \in LoopWorkers
      BY <1>4, WorkersFinite DEF CheckToken, StartCall, EndCall, ReadEnable,
                                 SpuriousWakeup, WaitAndPop
    <3>3. \A i \in Instances : /\ Base[i] \in Maps
                               /\ req[v] = Base[i] => v \notin LoopWorkers
      BY MapsAssumption DEF IndInv, PcReq, WorldMaps, Maps
    <3> QED BY <1>1, <1>2, <1>3, <1>4, <3>1, <3>2, <3>3 DEF IndInv, Visits
  <2>3. ASSUME NEW i \in iter'
        PROVE  /\ i \in exist' /\ Unrequested(i)'
               /\ IF activated'
                    THEN \E w \in OnceWorkers : pc'[w] = "call" /\ req'[w] = Base[i]
                    ELSE wpc' = "schedule"
    <3>1. CASE i \in iter
      <4>1. CASE ~activated
        BY <1>1, <1>3, <3>1, <4>1 DEF IndInv, Visits
      <4>2. CASE activated
        <5>1. PICK w \in OnceWorkers : pc[w] = "call" /\ req[w] = Base[i]
          BY <3>1, <4>2 DEF IndInv, Visits
        <5>2. w = v => ~EndCall(v)
          BY <3>1, <5>1 DEF EndCall
        <5>3. pc'[w] = "call"
          BY <5>1, <5>2, <1>2, <1>4, WorkersFinite
             DEF CheckToken, StartCall, ReadEnable, SpuriousWakeup, WaitAndPop
        <5> QED BY <1>1, <1>3, <3>1, <4>2, <5>1, <5>3 DEF IndInv, Visits
      <4> QED BY <4>1, <4>2
    <3>2. CASE i \notin iter
      <4>1. StartCall(v) /\ i \in InstancesOf(req[v])
        BY <2>3, <3>2 DEF CheckToken, StartCall, EndCall, ReadEnable,
                          SpuriousWakeup, WaitAndPop
      <4>2. /\ i \in Instances /\ i \in exist /\ Base[i] = req[v]
            /\ pc[v] = "start" /\ pc'[v] = "call"
        BY <4>1, <1>4 DEF InstancesOf, StartCall
      <4>3. v \in OnceWorkers /\ req[v] # NoMap
        BY <4>2, MapsAssumption, WorkersFinite DEF IndInv, PcReq, WorldMaps, Maps
      <4>4. Unrequested(i)
        BY <4>2 DEF IndInv, Visits
      <4>5. activated
        BY <4>3, ZeroPending DEF IndInv, Phases
      <4> QED BY <1>1, <1>3, <4>2, <4>3, <4>4, <4>5
    <3> QED BY <3>1, <3>2
  <2> QED BY <2>1, <2>2, <2>3 DEF Visits
<1> QED BY <1>5, <1>7, <1>8, <1>9, <1>10 DEF IndInv

\* WaitAndPop hands the head of the worker's queue to the worker.
LEMMA PopInv ==
    ASSUME IndInv, NEW v \in Workers, WaitAndPop(v),
           Queue(v) # <<>>, ~Shutdown(v)
    PROVE  IndInv'
<1> DEFINE h == Head(Queue(v))
<1>1. /\ pc[v] = "pop" /\ pc' = [pc EXCEPT ![v] = "popped"]
      /\ req' = [req EXCEPT ![v] = h]
      /\ UNCHANGED <<activated, wpc, todo, exist, iter, loopShutdown,
                     onceShutdown, pendingLoop, pendingOnce, enable, token,
                     scheduled, updated>>
  BY DEF WaitAndPop, worldVars, countVars, flagVars, histVars
<1>2. req[v] = NoMap
  BY <1>1 DEF IndInv, PcReq
<1>3. /\ pc \in [Workers -> WorkerPc] /\ req \in [Workers -> Maps \cup {NoMap}]
      /\ loopQueue \in Seq(Instances) /\ onceQueue \in Seq(WorldMaps)
      /\ Distinct(loopQueue) /\ Distinct(onceQueue)
      /\ InQueue(loopQueue) \subseteq exist /\ InQueue(onceQueue) \subseteq exist
  BY DEF IndInv, TypeOK, Requests
<1>4. /\ h \in Maps /\ h # NoMap
      /\ h \in InQueue(loopQueue) \cup InQueue(onceQueue)
      /\ \A w \in Workers : req[w] # h
      /\ v \in LoopWorkers => h \in Instances /\ h \notin WorldMaps
      /\ v \in OnceWorkers => h \in WorldMaps /\ h \notin Instances
      /\ loopQueue' \in Seq(Instances) /\ onceQueue' \in Seq(WorldMaps)
      /\ Distinct(loopQueue') /\ Distinct(onceQueue')
      /\ InQueue(loopQueue) \cup InQueue(onceQueue)
            = InQueue(loopQueue') \cup InQueue(onceQueue') \cup {h}
      /\ h \notin InQueue(loopQueue') \cup InQueue(onceQueue')
      /\ InQueue(onceQueue') \subseteq InQueue(onceQueue)
      /\ Counts'
  <2>a. Len(loopQueue) \in Nat /\ Len(onceQueue) \in Nat
    BY <1>3
  <2>b. /\ Cardinality(Holders(LoopWorkers)) \in Nat
        /\ Cardinality(Holders(OnceWorkers)) \in Nat
    BY HoldersFinite
  <2>c. \A x \in InQueue(loopQueue) : x \in Instances
    BY <1>3 DEF InQueue
  <2>d. \A x \in InQueue(onceQueue) : x \in WorldMaps
    BY <1>3 DEF InQueue
  <2>1. CASE v \in LoopWorkers
    <3>1. /\ h = Head(loopQueue) /\ loopQueue # <<>>
          /\ loopQueue' = Tail(loopQueue) /\ onceQueue' = onceQueue
      BY <2>1 DEF WaitAndPop, Queue, Shutdown
    <3>2. /\ loopQueue' \in Seq(Instances) /\ h \in Instances /\ h \in InQueue(loopQueue)
          /\ Len(loopQueue') = Len(loopQueue) - 1
          /\ InQueue(loopQueue) = InQueue(loopQueue') \cup {h}
          /\ Distinct(loopQueue') /\ h \notin InQueue(loopQueue')
      BY <1>3, <3>1, TailQueue
    <3>3. /\ Cardinality(Holders(LoopWorkers)') = Cardinality(Holders(LoopWorkers)) + 1
          /\ Holders(OnceWorkers)' = Holders(OnceWorkers)
      BY <1>1, <1>2, <2>1, <3>2, MapKinds, WorkersFinite, TakeRequest, OtherHolders
         DEF IndInv
    <3>4. Counts'
      BY <1>1, <2>a, <2>b, <3>1, <3>2, <3>3 DEF IndInv, Counts
    <3> QED BY <1>3, <2>1, <2>d, <3>1, <3>2, <3>4, MapsAssumption, MapKinds, WorkersFinite
            DEF IndInv, Requests
  <2>2. CASE v \in OnceWorkers
    <3>1. /\ h = Head(onceQueue) /\ onceQueue # <<>>
          /\ onceQueue' = Tail(onceQueue) /\ loopQueue' = loopQueue
      BY <2>2, WorkersFinite DEF WaitAndPop, Queue, Shutdown
    <3>2. /\ onceQueue' \in Seq(WorldMaps) /\ h \in WorldMaps /\ h \in InQueue(onceQueue)
          /\ Len(onceQueue') = Len(onceQueue) - 1
          /\ InQueue(onceQueue) = InQueue(onceQueue') \cup {h}
          /\ Distinct(onceQueue') /\ h \notin InQueue(onceQueue')
      BY <1>3, <3>1, TailQueue
    <3>3. /\ Cardinality(Holders(OnceWorkers)') = Cardinality(Holders(OnceWorkers)) + 1
          /\ Holders(LoopWorkers)' = Holders(LoopWorkers)
      BY <1>1, <1>2, <2>2, <3>2, MapKinds, WorkersFinite, TakeRequest, OtherHolders
         DEF IndInv
    <3>4. Counts'
      BY <1>1, <2>a, <2>b, <3>1, <3>2, <3>3 DEF IndInv, Counts
    <3> QED BY <1>3, <2>2, <2>c, <3>1, <3>2, <3>4, MapsAssumption, MapKinds, WorkersFinite
            DEF IndInv, Requests
  <2> QED BY <2>1, <2>2 DEF Workers
<1> HIDE DEF h
<1>5. /\ InQueue(loopQueue)' = InQueue(loopQueue') /\ InQueue(onceQueue)' = InQueue(onceQueue')
      /\ Distinct(loopQueue)' /\ Distinct(onceQueue)'
  BY <1>4 DEF InQueue, Distinct
<1>6. \A m \in Maps : Unrequested(m)' <=> Unrequested(m)
  BY <1>1, <1>2, <1>3, <1>4, <1>5, MapsAssumption DEF Unrequested
<1>7. TypeOK'
  <2>1. pc' \in [Workers -> WorkerPc]
    BY <1>1, <1>3 DEF WorkerPc
  <2>2. req' \in [Workers -> Maps \cup {NoMap}]
    BY <1>1, <1>3, <1>4
  <2> QED BY <1>1, <1>4, <2>1, <2>2 DEF IndInv, TypeOK
<1>8. PcReq'
  BY <1>1, <1>3, <1>4, WorkersFinite DEF IndInv, PcReq
<1>9. Requests'
  BY <1>1, <1>2, <1>3, <1>4, <1>5, MapsAssumption DEF IndInv, Requests
<1>10. Phases'
  BY <1>1 DEF IndInv, Phases
<1>11. Visits'
  <2>1. todo' \subseteq Maps /\ iter' \subseteq Maps
    BY <1>1, MapKinds DEF IndInv, TypeOK
  <2>2. \A x \in todo' : x \in exist' /\ Unrequested(x)'
    BY <1>1, <1>6, <2>1 DEF IndInv, Visits
  <2>3. ASSUME NEW i \in iter'
        PROVE  /\ i \in exist' /\ Unrequested(i)'
               /\ IF activated'
                    THEN \E w \in OnceWorkers : pc'[w] = "call" /\ req'[w] = Base[i]
                    ELSE wpc' = "schedule"
    <3>1. \A w \in Workers : pc[w] = "call" => pc'[w] = "call" /\ req'[w] = req[w]
      BY <1>1, <1>3
    <3> QED BY <1>1, <1>6, <2>1, <2>3, <3>1, WorkersFinite DEF IndInv, Visits
  <2>4. ASSUME NEW i \in Instances, ~Unrequested(i)'
        PROVE  /\ Base[i] \notin todo' \cup InQueue(onceQueue)'
               /\ \A w \in Workers : req'[w] = Base[i] => pc'[w] \in {"call", "finish"}
    <3>1. ~Unrequested(i)
      BY <2>4, <1>6, MapKinds
    <3>2. /\ Base[i] \notin todo \cup InQueue(onceQueue)
          /\ \A w \in Workers : req[w] = Base[i] => pc[w] \in {"call", "finish"}
      BY <3>1 DEF IndInv, Visits
    <3>3. \A x \in InQueue(loopQueue) : x \in Instances
      BY <1>3 DEF InQueue
    <3>4. Base[i] # h
      BY <1>4, <3>2, <3>3, MapsAssumption DEF WorldMaps
    <3> QED BY <1>1, <1>3, <1>4, <1>5, <3>2, <3>4
  <2> QED BY <2>2, <2>3, <2>4 DEF Visits
<1> QED BY <1>4, <1>7, <1>8, <1>9, <1>10, <1>11 DEF IndInv

\* A loop-worker gives its request back to the queue.
LEMMA RequeueInv ==
    ASSUME IndInv, NEW v \in Workers, Requeue(v)
    PROVE  IndInv'
<1> DEFINE h == req[v]
<1>1. /\ pc[v] = "requeue" /\ req' = [req EXCEPT ![v] = NoMap]
      /\ loopQueue' = Append(loopQueue, h) /\ onceQueue' = onceQueue
      /\ UNCHANGED <<activated, wpc, todo, exist, iter, loopShutdown,
                     onceShutdown, pendingLoop, pendingOnce, enable, token,
                     scheduled, updated>>
  BY DEF Requeue, worldVars, countVars, flagVars, histVars
<1>2. /\ pc \in [Workers -> WorkerPc] /\ req \in [Workers -> Maps \cup {NoMap}]
      /\ loopQueue \in Seq(Instances) /\ onceQueue \in Seq(WorldMaps)
      /\ Distinct(loopQueue) /\ Distinct(onceQueue)
  BY DEF IndInv, TypeOK, Requests
<1>3. /\ v \in LoopWorkers /\ h # NoMap /\ h \in Instances
      /\ h \notin InQueue(loopQueue) \cup InQueue(onceQueue) /\ h \in exist
      /\ \A w \in Workers : w # v => req[w] # h
  BY <1>1, WorkersFinite DEF IndInv, PcReq, Requests
<1>4. WakesOnly([pc EXCEPT ![v] = "pop"], pc')
  <2>1. [pc EXCEPT ![v] = "pop"] \in [Workers -> WorkerPc]
    BY <1>2 DEF WorkerPc
  <2> QED BY <2>1, NotifyOneWakes, WorkersFinite DEF Requeue
<1>5. /\ pc' \in [Workers -> WorkerPc] /\ pc'[v] = "pop"
      /\ \A w \in Workers \ {v} : \/ pc'[w] = pc[w]
                                  \/ pc[w] \in {"sleep", "unborn"} /\ pc'[w] = "pop"
  BY <1>2, <1>4 DEF WakesOnly
<1>6. /\ loopQueue' \in Seq(Instances)
      /\ Len(loopQueue') = Len(loopQueue) + 1 /\ Len(loopQueue) \in Nat
      /\ InQueue(loopQueue') = InQueue(loopQueue) \cup {h}
      /\ Distinct(loopQueue')
  BY <1>1, <1>2, <1>3, AppendQueue
<1>7. Counts'
  <2>1. /\ Cardinality(Holders(LoopWorkers)') = Cardinality(Holders(LoopWorkers)) - 1
        /\ Holders(OnceWorkers)' = Holders(OnceWorkers)
    BY <1>1, <1>3, WorkersFinite, DropRequest, OtherHolders DEF IndInv
  <2>2. Cardinality(Holders(LoopWorkers)) \in Nat
    BY HoldersFinite
  <2> QED BY <1>1, <1>6, <2>1, <2>2 DEF IndInv, Counts
<1> HIDE DEF h
<1>8. /\ InQueue(loopQueue)' = InQueue(loopQueue') /\ InQueue(onceQueue)' = InQueue(onceQueue)
      /\ Distinct(loopQueue)' /\ Distinct(onceQueue)'
  <2>1. onceQueue' = onceQueue
    BY <1>1
  <2>2. InQueue(loopQueue)' = InQueue(loopQueue') /\ InQueue(onceQueue)' = InQueue(onceQueue)
    BY <2>1 DEF InQueue
  <2>3. Distinct(loopQueue)'
    BY <1>6 DEF Distinct
  <2>4. Distinct(onceQueue)'
    BY <1>2, <2>1 DEF Distinct
  <2> QED BY <2>2, <2>3, <2>4
<1>9. ASSUME NEW m \in Maps PROVE Unrequested(m)' <=> Unrequested(m)
  <2>1. m # NoMap
    BY MapsAssumption
  <2>2. (\A w \in Workers : req'[w] # m) <=> (\A w \in Workers \ {v} : req[w] # m)
    BY <1>1, <1>2, <2>1
  <2>3. h = req[v]
    BY DEF h
  <2>4. (\A w \in Workers : req[w] # m)
           <=> (\A w \in Workers \ {v} : req[w] # m) /\ m # h
    BY <2>3
  <2> QED BY <1>6, <1>8, <2>2, <2>4 DEF Unrequested
<1>10. TypeOK'
  <2>1. req' \in [Workers -> Maps \cup {NoMap}]
    BY <1>1, <1>2
  <2> QED BY <1>1, <1>5, <1>6, <2>1 DEF IndInv, TypeOK
<1>11. PcReq'
  BY <1>1, <1>2, <1>3, <1>5, WorkersFinite DEF IndInv, PcReq
<1>12. Requests'
  <2>1. \A w \in Workers : req'[w] \notin InQueue(loopQueue)' \cup InQueue(onceQueue)'
    <3>1. \A x \in InQueue(loopQueue) \cup InQueue(onceQueue) : x \in Maps
      BY <1>2, MapKinds DEF InQueue
    <3> QED BY <1>1, <1>2, <1>3, <1>6, <1>8, <3>1, MapsAssumption, MapKinds
            DEF IndInv, Requests
  <2> QED BY <1>1, <1>2, <1>3, <1>6, <1>8, <2>1 DEF IndInv, Requests
<1>13. Phases'
  BY <1>1 DEF IndInv, Phases
<1>14. Visits'
  <2>1. todo' \subseteq Maps /\ iter' \subseteq Maps
    BY <1>1, MapKinds DEF IndInv, TypeOK
  <2>2. \A x \in todo' : x \in exist' /\ Unrequested(x)'
    BY <1>1, <1>9, <2>1 DEF IndInv, Visits
  <2>3. ASSUME NEW i \in iter'
        PROVE  /\ i \in exist' /\ Unrequested(i)'
               /\ IF activated'
                    THEN \E w \in OnceWorkers : pc'[w] = "call" /\ req'[w] = Base[i]
                    ELSE wpc' = "schedule"
    <3>1. \A w \in Workers : pc[w] = "call" => pc'[w] = "call" /\ req'[w] = req[w]
      BY <1>1, <1>2, <1>5
    <3> QED BY <1>1, <1>9, <2>1, <2>3, <3>1, WorkersFinite DEF IndInv, Visits
  <2>4. ASSUME NEW i \in Instances, ~Unrequested(i)'
        PROVE  /\ Base[i] \notin todo' \cup InQueue(onceQueue)'
               /\ \A w \in Workers : req'[w] = Base[i] => pc'[w] \in {"call", "finish"}
    <3>1. ~Unrequested(i)
      BY <2>4, <1>9, MapKinds
    <3>2. /\ Base[i] \notin todo \cup InQueue(onceQueue) /\ Base[i] # NoMap
          /\ \A w \in Workers : req[w] = Base[i] => pc[w] \in {"call", "finish"}
      BY <3>1, MapsAssumption DEF IndInv, Visits, WorldMaps, Maps
    <3> QED BY <1>1, <1>2, <1>5, <1>8, <3>2
  <2> QED BY <2>2, <2>3, <2>4 DEF Visits
<1> QED BY <1>7, <1>10, <1>11, <1>12, <1>13, <1>14 DEF IndInv

\* *MapFinished: the request is gone, its counter goes down, and the world
\* thread wakes up if it was the last.
LEMMA FinishInv ==
    ASSUME IndInv, NEW v \in Workers, FinishRequest(v)
    PROVE  IndInv'
<1>1. /\ pc[v] \in {"finish", "cancel"} /\ req' = [req EXCEPT ![v] = NoMap]
      /\ pc' = [pc EXCEPT ![v] = IF @ = "finish" THEN "pop" ELSE "exit"]
      /\ UNCHANGED <<activated, todo, exist, iter, loopQueue, onceQueue,
                     loopShutdown, onceShutdown, enable, token, scheduled, updated>>
  BY DEF FinishRequest, Finished, queueVars, flagVars, histVars
<1>2. /\ pc \in [Workers -> WorkerPc] /\ req \in [Workers -> Maps \cup {NoMap}]
      /\ loopQueue \in Seq(Instances) /\ onceQueue \in Seq(WorldMaps)
      /\ pendingLoop \in Nat /\ pendingOnce \in Nat
  BY DEF IndInv, TypeOK
<1>3. req[v] # NoMap
  BY <1>1 DEF IndInv, PcReq
<1>4. /\ Counts' /\ pendingLoop' \in Nat /\ pendingOnce' \in Nat
      /\ pendingLoop' <= pendingLoop /\ pendingOnce' <= pendingOnce
  <2>a. Len(loopQueue) \in Nat /\ Len(onceQueue) \in Nat
    BY <1>2
  <2>b. /\ Cardinality(Holders(LoopWorkers)) \in Nat
        /\ Cardinality(Holders(OnceWorkers)) \in Nat
    BY HoldersFinite
  <2>1. CASE v \in LoopWorkers
    <3>1. pendingLoop' = pendingLoop - 1 /\ pendingOnce' = pendingOnce
      BY <2>1 DEF FinishRequest, Finished
    <3>2. /\ Cardinality(Holders(LoopWorkers)') = Cardinality(Holders(LoopWorkers)) - 1
          /\ Cardinality(Holders(LoopWorkers)) > 0
          /\ Holders(OnceWorkers)' = Holders(OnceWorkers)
      BY <1>1, <1>3, <2>1, WorkersFinite, DropRequest, OtherHolders DEF IndInv
    <3> QED BY <1>1, <1>2, <2>a, <2>b, <3>1, <3>2 DEF IndInv, Counts
  <2>2. CASE v \in OnceWorkers
    <3>1. pendingOnce' = pendingOnce - 1 /\ pendingLoop' = pendingLoop
      BY <2>2, WorkersFinite DEF FinishRequest, Finished
    <3>2. /\ Cardinality(Holders(OnceWorkers)') = Cardinality(Holders(OnceWorkers)) - 1
          /\ Cardinality(Holders(OnceWorkers)) > 0
          /\ Holders(LoopWorkers)' = Holders(LoopWorkers)
      BY <1>1, <1>3, <2>2, WorkersFinite, DropRequest, OtherHolders DEF IndInv
    <3> QED BY <1>1, <1>2, <2>a, <2>b, <3>1, <3>2 DEF IndInv, Counts
  <2> QED BY <2>1, <2>2 DEF Workers
<1>5. /\ wpc' = wpc \/ (wpc = "sleepLoops" /\ wpc' = "waitLoops")
                    \/ (wpc = "sleepOnces" /\ wpc' = "waitOnces")
  BY DEF FinishRequest, Finished
<1>6. /\ InQueue(loopQueue)' = InQueue(loopQueue) /\ InQueue(onceQueue)' = InQueue(onceQueue)
  BY <1>1 DEF InQueue
<1>7. TypeOK'
  <2>1. pc' \in [Workers -> WorkerPc]
    BY <1>1, <1>2 DEF WorkerPc
  <2>2. wpc' \in WorldPc
    BY <1>5 DEF IndInv, TypeOK, WorldPc
  <2> QED BY <1>1, <1>2, <1>4, <2>1, <2>2 DEF IndInv, TypeOK
<1>8. PcReq'
  BY <1>1, <1>2 DEF IndInv, PcReq
<1>9. Requests'
  <2>1. Distinct(loopQueue)' /\ Distinct(onceQueue)'
    BY <1>1 DEF IndInv, Requests, Distinct
  <2>2. \A x \in InQueue(loopQueue) \cup InQueue(onceQueue) : x # NoMap
    BY <1>2, MapKinds, MapsAssumption DEF InQueue
  <2> QED BY <1>1, <1>2, <1>6, <2>1, <2>2 DEF IndInv, Requests
<1>10. Phases'
  <2>1. /\ pendingLoop = 0 => pendingLoop' = 0
        /\ pendingOnce = 0 => pendingOnce' = 0
    BY <1>2, <1>4
  <2> QED BY <1>1, <1>5, <2>1 DEF IndInv, Phases, Quiet
<1>11. Visits'
  <2>1. \A m \in Maps : Unrequested(m) => Unrequested(m)'
    BY <1>1, <1>2, <1>6, MapsAssumption DEF Unrequested
  <2>2. todo' \subseteq Maps /\ iter' \subseteq Maps
    BY <1>1, MapKinds DEF IndInv, TypeOK
  <2>3. \A x \in todo' : x \in exist' /\ Unrequested(x)'
    BY <1>1, <2>1, <2>2 DEF IndInv, Visits
  <2>4. ASSUME NEW i \in iter'
        PROVE  /\ i \in exist' /\ Unrequested(i)'
               /\ IF activated'
                    THEN \E w \in OnceWorkers : pc'[w] = "call" /\ req'[w] = Base[i]
                    ELSE wpc' = "schedule"
    <3>1. \A w \in Workers : pc[w] = "call" => pc'[w] = "call" /\ req'[w] = req[w]
      BY <1>1, <1>2
    <3>2. wpc = "schedule" => wpc' = "schedule"
      BY <1>5
    <3> QED BY <1>1, <2>1, <2>2, <2>4, <3>1, <3>2, WorkersFinite DEF IndInv, Visits
  <2>5. ASSUME NEW i \in Instances, ~Unrequested(i)'
        PROVE  /\ Base[i] \notin todo' \cup InQueue(onceQueue)'
               /\ \A w \in Workers : req'[w] = Base[i] => pc'[w] \in {"call", "finish"}
    <3>1. ~Unrequested(i)
      BY <2>5, <2>1, MapKinds
    <3>2. /\ Base[i] \notin todo \cup InQueue(onceQueue) /\ Base[i] # NoMap
          /\ \A w \in Workers : req[w] = Base[i] => pc[w] \in {"call", "finish"}
      BY <3>1, MapsAssumption DEF IndInv, Visits, WorldMaps, Maps
    <3> QED BY <1>1, <1>2, <1>6, <3>2
  <2> QED BY <2>3, <2>4, <2>5 DEF Visits
<1> QED BY <1>4, <1>7, <1>8, <1>9, <1>10, <1>11 DEF IndInv

-----------------------------------------------------------------------------
(***************************************************************************)
(* The theorems                                                             *)
(***************************************************************************)

\* The invariant is kept by steps that change nothing.
LEMMA StutterInv ==
    ASSUME IndInv, UNCHANGED vars
    PROVE  IndInv'
<1> USE DEF vars, worldVars, queueVars, countVars, flagVars, histVars, requestVars
<1>1. TypeOK' /\ PcReq' /\ Phases'
  BY DEF IndInv, TypeOK, PcReq, Phases
<1>2. Counts' /\ Requests'
  BY FrameCounts, FrameRequests DEF IndInv
<1>3. Visits'
  BY FrameUnrequested DEF IndInv, Visits, InQueue
<1> QED BY <1>1, <1>2, <1>3 DEF IndInv

\* Every step of the updater keeps the invariant.
LEMMA NextInv == IndInv /\ [Next]_vars => IndInv'
<1> SUFFICES ASSUME IndInv, [Next]_vars PROVE IndInv'
  OBVIOUS
<1>1. CASE World \/ WorldSpuriousWakeup
  BY <1>1, WorldMoves, ShutdownInv, ScheduleMapInv, InlineInv DEF World
<1>2. ASSUME NEW w \in Workers, Worker(w) \/ SpuriousWakeup(w) PROVE IndInv'
  <2>1. CASE WaitAndPop(w)
    BY <2>1, WorkerMoves, PopInv
  <2>2. CASE CheckToken(w) \/ StartCall(w) \/ EndCall(w) \/ ReadEnable(w) \/ SpuriousWakeup(w)
    BY <2>2, WorkerMoves
  <2>3. CASE Requeue(w)
    BY <2>3, RequeueInv
  <2>4. CASE FinishRequest(w)
    BY <2>4, FinishInv
  <2>5. CASE \E i \in Instances : VisitInstance(w, i)
    BY <2>5, VisitInstanceInv
  <2> QED BY <1>2, <2>1, <2>2, <2>3, <2>4, <2>5 DEF Worker
<1>3. CASE UNCHANGED vars
  BY <1>3, StutterInv
<1> QED BY <1>1, <1>2, <1>3 DEF Next, Stopped

\* The invariant holds throughout.
LEMMA InvHolds == Spec => []IndInv
<1> QED BY InitInv, NextInv, PTL DEF Spec

\* The variables keep their types; in particular the pending counters of the
\* MapUpdater never go below zero.
THEOREM TypeCorrect == Spec => []TypeOK
<1>1. IndInv => TypeOK
  BY DEF IndInv
<1> QED BY <1>1, InvHolds, PTL

\* No two threads ever have the same map: at most one request per map exists.
THEOREM MapsExclusive == Spec => []MapExclusion
<1>1. IndInv => MapExclusion
  <2> SUFFICES ASSUME IndInv PROVE MapExclusion
    OBVIOUS
  <2>1. \A v, w \in Workers : v # w /\ req[v] # NoMap => req[v] # req[w]
    BY DEF IndInv, Requests
  <2>2. ASSUME NEW q \in {loopQueue, onceQueue}, NEW j \in 1..Len(q), NEW k \in 1..Len(q)
        PROVE  /\ j # k => q[j] # q[k]
               /\ \A w \in Workers : req[w] # q[j]
    <3>1. Distinct(q) /\ \A w \in Workers : req[w] \notin InQueue(q)
      BY DEF IndInv, Requests
    <3>2. q[j] \in InQueue(q)
      BY DEF InQueue
    <3> QED BY <3>1, <3>2 DEF Distinct
  <2> QED BY <2>1, <2>2 DEF MapExclusion
<1> QED BY <1>1, InvHolds, PTL

\* While the world thread works on maps itself, no worker is inside a map.
THEOREM WorldExclusive == Spec => []WorldExclusion
<1>1. IndInv => WorldExclusion
  <2> SUFFICES ASSUME IndInv, wpc \in Quiet
               PROVE  InUpdate = {} /\ loopQueue = <<>> /\ onceQueue = <<>>
    BY DEF WorldExclusion, Quiet
  <2>1. /\ loopQueue = <<>> /\ onceQueue = <<>>
        /\ \A w \in Workers : req[w] = NoMap
    BY QuietState
  <2>2. \A w \in Workers : pc[w] \notin {"call", "called", "requeue"}
    BY <2>1 DEF IndInv, PcReq
  <2> QED BY <2>1, <2>2 DEF InUpdate
<1> QED BY <1>1, InvHolds, PTL

\* No worker or queue ever refers to a map that was destroyed.
THEOREM RequestsRefer == Spec => []RequestsExist
<1>1. IndInv => RequestsExist
  BY DEF IndInv, Requests, RequestsExist
<1> QED BY <1>1, InvHolds, PTL

\* The counters the world thread waits on count the outstanding requests.
THEOREM PendingCounted == Spec => []PendingCounts
<1>1. IndInv => PendingCounts
  <2> SUFFICES ASSUME IndInv PROVE PendingCounts
    OBVIOUS
  <2>1. ASSUME NEW w \in Workers, pc[w] \in {"finish", "cancel"}
        PROVE  IF w \in LoopWorkers THEN pendingLoop > 0 ELSE pendingOnce > 0
    <3>1. req[w] # NoMap
      BY <2>1 DEF IndInv, PcReq
    <3>2. IF w \in LoopWorkers THEN pendingLoop # 0 ELSE pendingOnce # 0
      BY <3>1, ZeroPending, WorkersFinite DEF IndInv
    <3> QED BY <3>2 DEF IndInv, TypeOK
  <2> QED BY <2>1 DEF IndInv, Counts, PendingCounts
<1> QED BY <1>1, InvHolds, PTL

\* ASSERT(request) never fires in a worker thread.
THEOREM RequestAsserted == Spec => []RequestAssert
<1>1. IndInv => RequestAssert
  BY DEF IndInv, PcReq, RequestAssert
<1> QED BY <1>1, InvHolds, PTL
-----------------------------------------------------------------------------
(***************************************************************************)
(* The update cycle                                                         *)
(***************************************************************************)

\* Worker w is past its request.
Over(w) == pc[w] \in {"finish", "cancel"}

\* Once-map m is queued, or held by a worker that has not updated it yet.
OncePending(m) ==
    \/ m \in InQueue(onceQueue)
    \/ \E w \in OnceWorkers : req[w] = m /\ ~Over(w)

\* While a cycle runs, every base map is ahead of its only update or past it.
Updates == \A m \in WorldMaps :
    /\ m \in todo \/ OncePending(m) => updated[m] = 0
    /\ Phase = "update" /\ m \in exist
          => m \in todo \/ OncePending(m) \/ updated[m] >= 1

PhaseFacts ==
    /\ wpc = "delayed" => Phase = "delayed"
    /\ wpc \in UpdatePhases /\ ~token => Phase = "update"
    /\ wpc # "delayed" /\ ~(wpc \in UpdatePhases /\ ~token) => Phase = "idle"

\* The three phases of the cycle, in this state and in the next.
LEMMA PhaseIs == PhaseFacts /\ PhaseFacts'
<1>1. wpc = "delayed" => wpc \notin UpdatePhases
  BY DEF UpdatePhases
<1>2. wpc' = "delayed" => wpc' \notin UpdatePhases
  BY DEF UpdatePhases
<1> QED BY <1>1, <1>2 DEF PhaseFacts, Phase

\* A step after which the same workers are inside the same maps.
LEMMA ActiveSame ==
    ASSUME \A w \in Workers : /\ pc[w] = "call" <=> pc'[w] = "call"
                              /\ pc[w] = "call" => req'[w] = req[w]
    PROVE  Active' = Active
BY DEF Active

\* A worker that is woken or spawned is inside no map before or after.
LEMMA WakesActive ==
    ASSUME WakesOnly(pc, pc'), req' = req
    PROVE  Active' = Active
<1>1. \A w \in Workers : pc[w] = "call" <=> pc'[w] = "call"
  BY DEF WakesOnly
<1> QED BY <1>1, ActiveSame

\* So it has not finished either: what is pending stays so.
LEMMA WakesPending ==
    ASSUME WakesOnly(pc, pc'), IndInv, req' = req, onceQueue' = onceQueue
    PROVE  \A m \in WorldMaps : OncePending(m)' <=> OncePending(m)
<1>1. \A w \in OnceWorkers : Over(w) <=> Over(w)'
  BY WorkersFinite DEF WakesOnly, Over
<1> QED BY <1>1 DEF OncePending, InQueue

\* The maps that are being updated exist only while a cycle runs.
LEMMA HeldInUpdate ==
    ASSUME IndInv, NEW w \in Workers, req[w] # NoMap
    PROVE  Phase = "update" /\ activated /\ wpc \notin Quiet /\ ~token
<1>1. pendingLoop # 0 \/ pendingOnce # 0
  BY ZeroPending, WorkersFinite DEF IndInv
<1>2. wpc \notin Quiet /\ ~token /\ activated
  BY <1>1 DEF IndInv, Phases
<1>3. wpc \in UpdatePhases
  BY <1>2 DEF IndInv, TypeOK, WorldPc, Quiet, UpdatePhases
<1> QED BY <1>2, <1>3, PhaseIs DEF PhaseFacts

\* Nobody holds a request: no map is being updated.
LEMMA NoneActive ==
    ASSUME IndInv, \A w \in Workers : req[w] = NoMap
    PROVE  Active = {}
BY DEF IndInv, PcReq, Active

\* The updater starts outside a cycle.
LEMMA InitCycle ==
    ASSUME Init
    PROVE  Updates /\ Cycle!Init
<1>1. Phase = "idle"
  BY PhaseIs DEF PhaseFacts, Init, UpdatePhases
<1>2. Active = {}
  BY DEF Init, Active
<1>3. Done = {} /\ Required = {}
  BY DEF Init, Done, Required
<1>4. \A m \in WorldMaps : updated[m] = 0
  BY MapKinds DEF Init
<1> QED BY <1>1, <1>2, <1>3, <1>4 DEF Updates, Cycle!Init

\* The start of MapManager::Update is the start of a cycle.
LEMMA StartCycle ==
    ASSUME IndInv, Updates, StartUpdate
    PROVE  Updates' /\ Cycle!StartCycle
<1> USE DEF StartUpdate, queueVars, flagVars
<1>1. ~token
  BY DEF IndInv, Phases
<1>2. Phase = "idle" /\ Phase' = "update"
  BY <1>1, PhaseIs DEF PhaseFacts, UpdatePhases
<1>3. Active' = Active
  BY ActiveSame
<1>4. Done' = {} /\ Required' = Required
  BY DEF Done, Required
<1>5. \A m \in WorldMaps : updated'[m] = 0 /\ (m \in exist' => m \in todo')
  BY MapKinds
<1> QED BY <1>2, <1>3, <1>4, <1>5 DEF Updates, Cycle!StartCycle

\* Steps of the world thread between those of the cycle.
LEMMA WorldCycle ==
    ASSUME IndInv, Updates,
           \/ EnableUpdateLoop \/ WaitUpdateOnces \/ DisableUpdateLoop
           \/ WaitUpdateLoops \/ DelayedUpdate \/ WorldSpuriousWakeup
           \/ Deactivate \/ Join \/ UnloadAll \/ CancelLoopQueue \/ CancelOnceQueue
           \/ \E m \in Maps : CreateMap(m)
    PROVE  Updates' /\ [Cycle!Next]_(Cycle!vars)
<1> USE DEF queueVars, countVars, flagVars, histVars
<1>q. wpc \in {"cancelLoop", "cancelOnce"} => onceQueue = <<>> /\ token
  BY QuietState DEF Quiet, IndInv, Phases
<1>1. req' = req /\ updated' = updated /\ onceQueue' = onceQueue /\ todo' = todo
  BY <1>q DEF EnableUpdateLoop, WaitUpdateOnces, DisableUpdateLoop,
         WaitUpdateLoops, DelayedUpdate, WorldSpuriousWakeup, Deactivate, Join,
         CreateMap, UnloadAll, CancelLoopQueue, CancelOnceQueue
<1>2. WakesOnly(pc, pc')
  <2>1. pc \in [Workers -> WorkerPc]
    BY DEF IndInv, TypeOK
  <2>2. WakesOnly(pc, pc)
    BY <2>1 DEF WakesOnly
  <2>3. \A W \in {LoopWorkers, OnceWorkers} : WakesOnly(pc, NotifyAll(W, pc))
    BY <2>1, NotifyAllWakes, WorkersFinite
  <2> QED BY <2>2, <2>3
       DEF EnableUpdateLoop, WaitUpdateOnces, DisableUpdateLoop, WaitUpdateLoops,
           DelayedUpdate, WorldSpuriousWakeup, Deactivate, Join, CreateMap,
           UnloadAll, CancelLoopQueue, CancelOnceQueue
<1>3. Active' = Active /\ Done' = Done
  BY <1>1, <1>2, WakesActive DEF Done
<1>4. \A m \in WorldMaps : OncePending(m)' <=> OncePending(m)
  BY <1>1, <1>2, WakesPending
<1>5. ASSUME Phase = "idle", Phase' = "idle"
      PROVE  Updates' /\ [Cycle!Next]_(Cycle!vars)
  <2>1. Updates'
    BY <1>1, <1>4, <1>5 DEF Updates
  <2>2. Required' \in SUBSET WorldMaps
    BY DEF Required
  <2>3. Cycle!ChangeMaps
    BY <1>3, <1>5, <2>2 DEF Cycle!ChangeMaps
  <2> QED BY <2>1, <2>3 DEF Cycle!Next
<1>6. CASE Deactivate \/ Join \/ UnloadAll \/ CancelLoopQueue \/ CancelOnceQueue
           \/ \E m \in Maps : CreateMap(m)
  <2>1. wpc \in Quiet /\ wpc # "delayed"
    BY <1>6 DEF Quiet, Deactivate, Join, UnloadAll, CancelLoopQueue,
                CancelOnceQueue, CreateMap
  <2>2. Phase = "idle"
    BY <2>1, PhaseIs DEF PhaseFacts, Quiet, UpdatePhases
  <2>3. wpc' # "delayed" /\ (wpc' \in UpdatePhases => token')
    BY <1>6, <1>q DEF UpdatePhases, Deactivate, Join, UnloadAll,
                      CancelLoopQueue, CancelOnceQueue, CreateMap
  <2>4. Phase' = "idle"
    BY <2>3, PhaseIs DEF PhaseFacts
  <2> QED BY <1>5, <2>2, <2>4
<1>7. ASSUME exist' = exist, Phase' = Phase
      PROVE  Updates' /\ [Cycle!Next]_(Cycle!vars)
  <2>1. Updates'
    BY <1>1, <1>4, <1>7 DEF Updates
  <2>2. UNCHANGED Cycle!vars
    BY <1>3, <1>7 DEF Cycle!vars, Required
  <2> QED BY <2>1, <2>2
<1>8. ASSUME Phase = "update", wpc' = "delayed", exist' = exist,
             todo = {}, pendingLoop = 0, pendingOnce = 0
      PROVE  Updates' /\ [Cycle!Next]_(Cycle!vars)
  <2>1. Phase' = "delayed"
    BY <1>8, PhaseIs DEF PhaseFacts
  <2>2. onceQueue = <<>> /\ \A w \in Workers : req[w] = NoMap
    BY <1>8, ZeroPending, WorkersFinite DEF IndInv
  <2>3. Active = {}
    BY <2>2, NoneActive
  <2>4. \A m \in WorldMaps : ~OncePending(m)
    BY <2>2, MapsAssumption, MapKinds, WorkersFinite DEF OncePending, InQueue, Maps
  <2>5. Required \subseteq Done
    BY <1>8, <2>4, MapKinds DEF Required, Done, Updates
  <2>6. Cycle!Barrier
    BY <1>3, <1>8, <2>1, <2>3, <2>5 DEF Cycle!Barrier, Required
  <2>7. Updates'
    BY <1>1, <1>4, <2>1 DEF Updates
  <2> QED BY <2>6, <2>7 DEF Cycle!Next
<1>9. CASE EnableUpdateLoop
  <2>0. ~token /\ wpc = "schedule" /\ exist' = exist /\ token' = token /\ todo = {}
    BY <1>9 DEF EnableUpdateLoop, IndInv, Phases
  <2>1. Phase = "update"
    BY <2>0, PhaseIs DEF PhaseFacts, UpdatePhases
  <2>2. CASE activated
    <3>1. Phase' = "update"
      BY <1>9, <2>0, <2>2, PhaseIs DEF PhaseFacts, UpdatePhases, EnableUpdateLoop
    <3> QED BY <2>0, <2>1, <3>1, <1>7
  <2>3. CASE ~activated
    <3>1. pendingLoop = 0 /\ pendingOnce = 0 /\ wpc' = "delayed"
      BY <1>9, <2>3 DEF EnableUpdateLoop, IndInv, Phases
    <3> QED BY <2>0, <2>1, <3>1, <1>8
  <2> QED BY <2>2, <2>3
<1>10. CASE WaitUpdateLoops
  <2>0. exist' = exist /\ token' = token /\ wpc = "waitLoops" /\ pendingLoop \in Nat
    BY <1>10 DEF WaitUpdateLoops, IndInv, TypeOK
  <2>1. CASE pendingLoop > 0
    <3>1. wpc' = "sleepLoops"
      BY <1>10, <2>1 DEF WaitUpdateLoops
    <3> QED BY <2>0, <3>1, <1>7, PhaseIs DEF PhaseFacts, UpdatePhases
  <2>2. CASE pendingLoop = 0 /\ token
    <3>1. wpc' = "join"
      BY <1>10, <2>2 DEF WaitUpdateLoops
    <3> QED BY <2>0, <2>2, <3>1, <1>7, PhaseIs DEF PhaseFacts, UpdatePhases
  <2>3. CASE pendingLoop = 0 /\ ~token
    <3>1. wpc' = "delayed"
      BY <1>10, <2>3 DEF WaitUpdateLoops
    <3>2. Phase = "update"
      BY <2>0, <2>3, PhaseIs DEF PhaseFacts, UpdatePhases
    <3>3. pendingOnce = 0 /\ todo = {}
      BY <2>0 DEF IndInv, Phases
    <3> QED BY <2>0, <2>3, <3>1, <3>2, <3>3, <1>8
  <2> QED BY <2>0, <2>1, <2>2, <2>3
<1>11. CASE DelayedUpdate
  <2>1. Phase = "delayed" /\ Phase' = "idle"
    BY <1>11, PhaseIs DEF PhaseFacts, DelayedUpdate, UpdatePhases
  <2>2. Updates'
    BY <1>1, <1>4, <2>1 DEF Updates
  <2>3. Cycle!EndCycle
    BY <1>3, <1>11, <2>1 DEF Cycle!EndCycle, DelayedUpdate, Required
  <2> QED BY <2>2, <2>3 DEF Cycle!Next
<1>12. CASE WaitUpdateOnces \/ DisableUpdateLoop \/ WorldSpuriousWakeup
  <2>1. exist' = exist /\ token' = token
    BY <1>12 DEF WaitUpdateOnces, DisableUpdateLoop, WorldSpuriousWakeup
  <2>2. wpc \in UpdatePhases /\ wpc' \in UpdatePhases
    BY <1>12 DEF WaitUpdateOnces, DisableUpdateLoop, WorldSpuriousWakeup, UpdatePhases
  <2>3. Phase' = Phase
    BY <2>1, <2>2, PhaseIs DEF PhaseFacts, UpdatePhases
  <2> QED BY <1>7, <2>1, <2>3
<1> QED BY <1>6, <1>9, <1>10, <1>11, <1>12
\* schedule_update changes no map: its once-map is pending now, if it is one.
LEMMA ScheduleCycle ==
    ASSUME IndInv, NEW m \in Maps, ScheduleUpdate(m), req' = req
    PROVE  /\ Active' = Active
           /\ \A x \in WorldMaps : OncePending(x)' <=> OncePending(x) \/ x = m
<1>1. WakesOnly(pc, pc')
  BY ScheduleWakes DEF IndInv, TypeOK
<1>2. Active' = Active
  BY <1>1, WakesActive
<1>3. \A w \in OnceWorkers : Over(w) <=> Over(w)'
  BY <1>1, WorkersFinite DEF WakesOnly, Over
<1>4. ASSUME NEW x \in WorldMaps
      PROVE  x \in InQueue(onceQueue)' <=> x \in InQueue(onceQueue) \/ x = m
  <2>1. CASE m \in Instances
    <3>1. onceQueue' = onceQueue /\ x # m
      BY <2>1, MapKinds, MapsAssumption DEF ScheduleUpdate
    <3> QED BY <3>1 DEF InQueue
  <2>2. CASE m \in WorldMaps
    <3>1. onceQueue' = Append(onceQueue, m) /\ onceQueue \in Seq(WorldMaps)
      BY <2>2, MapKinds DEF ScheduleUpdate, IndInv, TypeOK
    <3>2. InQueue(Append(onceQueue, m)) = InQueue(onceQueue) \cup {m}
      BY <2>2, <3>1, AppendQueue
    <3>3. InQueue(onceQueue)' = InQueue(Append(onceQueue, m))
      BY <3>1 DEF InQueue
    <3> QED BY <3>2, <3>3
  <2> QED BY <2>1, <2>2 DEF Maps
<1> QED BY <1>2, <1>3, <1>4 DEF OncePending

\* Scheduling a base map puts it from the list of the world thread into the queue.
LEMMA ScheduleMapCycle ==
    ASSUME IndInv, Updates, NEW m \in WorldMaps, ScheduleMap(m)
    PROVE  Updates' /\ UNCHANGED Cycle!vars
<1>1. /\ m \in todo /\ todo' = todo \ {m} /\ ScheduleUpdate(m) /\ req' = req
      /\ updated' = updated /\ exist' = exist /\ wpc' = wpc /\ token' = token
  BY DEF ScheduleMap, flagVars
<1>2. /\ Active' = Active
      /\ \A x \in WorldMaps : OncePending(x)' <=> OncePending(x) \/ x = m
  BY <1>1, ScheduleCycle, MapKinds
<1>3. Phase' = Phase
  BY <1>1, PhaseIs DEF PhaseFacts
<1>4. Updates'
  BY <1>1, <1>2, <1>3 DEF Updates
<1> QED BY <1>1, <1>2, <1>3, <1>4 DEF Cycle!vars, Done, Required

\* One more update of map m.
LEMMA CountedDone ==
    ASSUME IndInv, NEW m \in Maps, updated' = [updated EXCEPT ![m] = Count(@)]
    PROVE  /\ Done' = Done \cup {m} /\ updated'[m] >= 1
           /\ \A x \in Maps : x # m => updated'[x] = updated[x]
<1>1. updated \in [Maps -> 0..UpdateCap]
  BY DEF IndInv, TypeOK
<1>2. updated'[m] >= 1
  BY <1>1 DEF Count, UpdateCap
<1>3. \A x \in Maps : x # m => updated'[x] = updated[x]
  BY <1>1
<1> QED BY <1>2, <1>3 DEF Done

\* Without worker threads an update is a step of the world thread.
LEMMA InlineCycle ==
    ASSUME IndInv, Updates,
           \/ \E m \in WorldMaps : UpdateMapInline(m)
           \/ \E i \in Instances : UpdateInstanceInline(i)
    PROVE  Updates' /\ [Cycle!Next]_(Cycle!vars)
<1>1. /\ ~activated /\ wpc = "schedule"
      /\ UNCHANGED <<wpc, token, pc, req, onceQueue>>
  BY DEF UpdateMapInline, UpdateInstanceInline, flagVars, queueVars
<1>2. onceQueue = <<>> /\ \A w \in Workers : req[w] = NoMap
  BY <1>1, ZeroPending, WorkersFinite DEF IndInv, Phases
<1>3. Active = {} /\ Active' = {}
  BY <1>1, <1>2, NoneActive DEF Active
<1>4. \A m \in WorldMaps : ~OncePending(m) /\ ~OncePending(m)'
  BY <1>1, <1>2, MapsAssumption, MapKinds, WorkersFinite DEF OncePending, InQueue
<1>5. Phase = "update" /\ Phase' = "update"
  <2>1. ~token
    BY <1>1 DEF IndInv, Phases
  <2> QED BY <1>1, <2>1, PhaseIs DEF PhaseFacts, UpdatePhases
<1>6. ASSUME NEW m \in WorldMaps, UpdateMapInline(m)
      PROVE  Updates' /\ [Cycle!Next]_(Cycle!vars)
  <2>1. /\ m \in todo /\ todo' = todo \ {m} /\ exist' = exist
        /\ updated' = [updated EXCEPT ![m] = Count(@)]
    BY <1>6 DEF UpdateMapInline
  <2>2. /\ Done' = Done \cup {m} /\ updated'[m] >= 1
        /\ \A x \in Maps : x # m => updated'[x] = updated[x]
    BY <2>1, CountedDone, MapKinds
  <2>3. m \in exist /\ updated[m] = 0
    BY <2>1 DEF IndInv, Visits, Updates
  <2>4. m \in Required \ Done
    BY <2>3 DEF Required, Done
  <2>5. Cycle!UpdateInline(m)
    BY <1>3, <1>5, <2>1, <2>2, <2>4 DEF Cycle!UpdateInline, Cycle!MayUpdate, Required
  <2>6. Updates'
    BY <1>4, <1>5, <2>1, <2>2, MapKinds DEF Updates
  <2> QED BY <2>5, <2>6, MapKinds DEF Cycle!Next, Cycle!Maps, Maps
<1>7. ASSUME NEW i \in Instances, UpdateInstanceInline(i)
      PROVE  Updates' /\ [Cycle!Next]_(Cycle!vars)
  <2>1. i \notin WorldMaps /\ i \in Maps
    BY MapsAssumption, MapKinds
  <2>2. todo' = todo
    BY <1>7 DEF UpdateInstanceInline
  <2>3. CASE exist' \in {exist, exist \ {i}} /\ updated' = updated
    <3>1. Required' = Required /\ Done' = Done
      BY <2>1, <2>3 DEF Required, Done
    <3>2. Updates'
      BY <1>4, <1>5, <2>1, <2>2, <2>3 DEF Updates
    <3> QED BY <1>3, <1>5, <3>1, <3>2 DEF Cycle!vars
  <2>4. CASE updated' = [updated EXCEPT ![i] = Count(@)] /\ exist' = exist
    <3>1. /\ Done' = Done \cup {i}
          /\ \A x \in Maps : x # i => updated'[x] = updated[x]
      BY <2>1, <2>4, CountedDone
    <3>2. Cycle!UpdateInline(i)
      BY <1>3, <1>5, <2>1, <2>4, <3>1 DEF Cycle!UpdateInline, Cycle!MayUpdate, Required
    <3>3. Updates'
      BY <1>4, <1>5, <2>1, <2>2, <2>4, <3>1, MapKinds DEF Updates
    <3> QED BY <3>2, <3>3 DEF Cycle!Next, Cycle!Maps
  <2> QED BY <1>7, <2>3, <2>4 DEF UpdateInstanceInline, histVars
<1> QED BY <1>6, <1>7

\* A base map's update destroys or schedules its instances.
LEMMA VisitCycle ==
    ASSUME IndInv, Updates, NEW w \in Workers, NEW i \in Instances, VisitInstance(w, i)
    PROVE  Updates' /\ UNCHANGED Cycle!vars
<1>1. /\ UNCHANGED <<wpc, token, todo, req, updated>>
      /\ exist' \in {exist, exist \ {i}}
  BY DEF VisitInstance, flagVars
<1>2. i \notin WorldMaps /\ i \in Maps
  BY MapsAssumption, MapKinds
<1>3. /\ Active' = Active
      /\ \A x \in WorldMaps : OncePending(x)' <=> OncePending(x)
  <2>1. CASE pc' = pc /\ onceQueue' = onceQueue
    BY <1>1, <2>1, ActiveSame DEF OncePending, InQueue, Over
  <2>2. CASE ScheduleUpdate(i)
    BY <1>1, <1>2, <2>2, ScheduleCycle
  <2> QED BY <2>1, <2>2 DEF VisitInstance
<1>4. Phase' = Phase
  BY <1>1, PhaseIs DEF PhaseFacts
<1>5. Updates'
  BY <1>1, <1>2, <1>3, <1>4 DEF Updates
<1> QED BY <1>1, <1>2, <1>3, <1>4, <1>5 DEF Cycle!vars, Done, Required

\* A worker enters Map::Update: nobody else is in it, and a base map has not been
\* updated in this cycle.
LEMMA StartCallCycle ==
    ASSUME IndInv, Updates, NEW w \in Workers, StartCall(w)
    PROVE  Updates' /\ Cycle!Next
<1> DEFINE m == req[w]
<1>1. /\ pc[w] = "start" /\ m # NoMap /\ pc' = [pc EXCEPT ![w] = "call"]
      /\ UNCHANGED <<wpc, token, todo, exist, req, onceQueue, updated>>
  BY DEF StartCall, flagVars, queueVars, histVars
<1>2. pc \in [Workers -> WorkerPc] /\ m \in Maps /\ m \in exist
  BY <1>1 DEF IndInv, TypeOK, Requests
<1>3. Phase = "update" /\ Phase' = "update"
  BY <1>1, HeldInUpdate, PhaseIs DEF PhaseFacts, Phase
<1>4. Active' = Active \cup {m}
  BY <1>1, <1>2 DEF Active
<1>5. m \notin Active
  <2> SUFFICES ASSUME NEW v \in Workers, pc[v] = "call", req[v] = m PROVE FALSE
    BY DEF Active
  <2> QED BY <1>1 DEF IndInv, Requests
<1>6. m \in WorldMaps => m \in Required \ Done
  <2> HAVE m \in WorldMaps
  <2>1. w \in OnceWorkers
    BY <1>1, WorkersFinite, MapsAssumption DEF IndInv, PcReq
  <2>2. OncePending(m)
    BY <1>1, <2>1 DEF OncePending, Over
  <2>3. updated[m] = 0
    BY <2>2 DEF Updates
  <2> QED BY <1>2, <2>3 DEF Required, Done
<1>7. Cycle!BeginUpdate(m)
  BY <1>1, <1>3, <1>4, <1>5, <1>6 DEF Cycle!BeginUpdate, Cycle!MayUpdate, Done, Required
<1>8. \A x \in WorldMaps : OncePending(x)' <=> OncePending(x)
  <2>1. \A v \in OnceWorkers : Over(v) <=> Over(v)'
    BY <1>1, <1>2, WorkersFinite DEF Over
  <2> QED BY <1>1, <2>1 DEF OncePending, InQueue
<1>9. Updates'
  BY <1>1, <1>3, <1>8 DEF Updates
<1> QED BY <1>2, <1>7, <1>9 DEF Cycle!Next, Cycle!Maps, Maps

\* It leaves Map::Update, and the map has been updated.
LEMMA EndCallCycle ==
    ASSUME IndInv, Updates, NEW w \in Workers, EndCall(w)
    PROVE  Updates' /\ Cycle!Next
<1> DEFINE m == req[w]
           s == IF w \in LoopWorkers THEN "called" ELSE "finish"
<1>1. /\ pc[w] = "call" /\ pc' = [pc EXCEPT ![w] = s]
      /\ updated' = [updated EXCEPT ![m] = Count(@)]
      /\ UNCHANGED <<wpc, token, todo, exist, req, onceQueue>>
  BY DEF EndCall, flagVars, queueVars, worldVars
<1>2. pc \in [Workers -> WorkerPc] /\ m # NoMap /\ m \in Maps /\ s # "call"
  BY <1>1 DEF IndInv, TypeOK, PcReq
<1>3. Phase = "update" /\ Phase' = "update"
  BY <1>1, <1>2, HeldInUpdate, PhaseIs DEF PhaseFacts, Phase
<1> HIDE DEF s
<1>4. \A v \in Workers : v # w => req[v] # m
  BY <1>2 DEF IndInv, Requests
<1>5. m \in Active /\ Active' = Active \ {m}
  BY <1>1, <1>2, <1>4 DEF Active
<1>6. /\ Done' = Done \cup {m} /\ updated'[m] >= 1
      /\ \A x \in Maps : x # m => updated'[x] = updated[x]
  BY <1>1, <1>2, CountedDone
<1>7. Cycle!EndUpdate(m)
  BY <1>1, <1>3, <1>5, <1>6 DEF Cycle!EndUpdate, Required
<1>8. \A x \in WorldMaps : x # m => (OncePending(x)' <=> OncePending(x))
  BY <1>1, <1>2, <1>4, WorkersFinite DEF OncePending, InQueue, Over
<1>9. m \in WorldMaps => m \notin todo /\ ~OncePending(m)'
  <2> HAVE m \in WorldMaps
  <2>1. w \notin LoopWorkers
    BY <1>2, WorkersFinite, MapsAssumption DEF IndInv, PcReq
  <2>2. pc'[w] = "finish"
    BY <1>1, <1>2, <2>1 DEF s
  <2>3. m \notin InQueue(onceQueue) /\ m \notin todo
    BY <1>2 DEF IndInv, Requests, Visits, Unrequested
  <2> QED BY <1>1, <1>4, <2>2, <2>3, WorkersFinite DEF OncePending, InQueue, Over
<1>10. Updates'
  BY <1>1, <1>3, <1>6, <1>8, <1>9, MapKinds DEF Updates
<1> QED BY <1>2, <1>7, <1>10 DEF Cycle!Next, Cycle!Maps, Maps

\* The other steps of a worker are outside Map::Update.
LEMMA WorkerCycle ==
    ASSUME IndInv, Updates, NEW w \in Workers,
           \/ WaitAndPop(w) \/ CheckToken(w) \/ ReadEnable(w) \/ SpuriousWakeup(w)
           \/ Requeue(w) \/ FinishRequest(w)
    PROVE  Updates' /\ UNCHANGED Cycle!vars
<1> USE DEF worldVars, queueVars, flagVars, histVars
<1>t. pc \in [Workers -> WorkerPc] /\ req \in [Workers -> Maps \cup {NoMap}]
  BY DEF IndInv, TypeOK
<1>1. UNCHANGED <<token, todo, exist, updated>>
  BY DEF WaitAndPop, CheckToken, ReadEnable, SpuriousWakeup, Requeue,
         FinishRequest, Finished
<1>2. Phase' = Phase
  <2>1. \/ wpc' = wpc
        \/ wpc \in UpdatePhases /\ wpc' \in UpdatePhases
    BY DEF WaitAndPop, CheckToken, ReadEnable, SpuriousWakeup, Requeue,
           FinishRequest, Finished, UpdatePhases
  <2> QED BY <1>1, <2>1, PhaseIs DEF PhaseFacts, UpdatePhases
<1>3. /\ Active' = Active
      /\ \A m \in WorldMaps : OncePending(m)' <=> OncePending(m)
  <2>1. CASE Requeue(w)
    <3>1. /\ pc[w] = "requeue" /\ req' = [req EXCEPT ![w] = NoMap]
          /\ onceQueue' = onceQueue
          /\ pc' \in NotifyOne(LoopWorkers, [pc EXCEPT ![w] = "pop"])
      BY <2>1 DEF Requeue
    <3>2. WakesOnly([pc EXCEPT ![w] = "pop"], pc')
      <4>1. [pc EXCEPT ![w] = "pop"] \in [Workers -> WorkerPc]
        BY <1>t DEF WorkerPc
      <4> QED BY <3>1, <4>1, NotifyOneWakes, WorkersFinite
    <3>3. \A v \in Workers : v # w =>
            \/ pc'[v] = pc[v]
            \/ pc[v] \in {"sleep", "unborn"} /\ pc'[v] = "pop"
      BY <1>t, <3>2 DEF WakesOnly
    <3>4. pc'[w] = "pop"
      BY <1>t, <3>2 DEF WakesOnly
    <3>5. w \notin OnceWorkers
      BY <3>1 DEF IndInv, PcReq
    <3>6. Active' = Active
      BY <1>t, <3>1, <3>3, <3>4, ActiveSame
    <3>7. \A v \in OnceWorkers : req'[v] = req[v] /\ (Over(v) <=> Over(v)')
      BY <1>t, <3>1, <3>3, <3>5, WorkersFinite DEF Over
    <3> QED BY <3>1, <3>6, <3>7 DEF OncePending, InQueue
  <2>2. CASE FinishRequest(w)
    <3>1. /\ pc[w] \in {"finish", "cancel"} /\ req' = [req EXCEPT ![w] = NoMap]
          /\ onceQueue' = onceQueue
          /\ pc' = [pc EXCEPT ![w] = IF @ = "finish" THEN "pop" ELSE "exit"]
      BY <2>2 DEF FinishRequest, Finished
    <3>2. Active' = Active
      BY <1>t, <3>1, ActiveSame
    <3>3. \A m \in WorldMaps : m # NoMap
      BY MapsAssumption, MapKinds
    <3> QED BY <1>t, <3>1, <3>2, <3>3, WorkersFinite DEF OncePending, InQueue, Over
  <2>3. CASE CheckToken(w) \/ ReadEnable(w) \/ SpuriousWakeup(w)
    <3>1. /\ pc[w] \in {"popped", "called", "sleep"} /\ UNCHANGED <<req, onceQueue>>
          /\ w \in OnceWorkers => pc[w] # "called"
      BY <2>3 DEF CheckToken, ReadEnable, SpuriousWakeup, IndInv, PcReq
    <3>2. PICK s \in WorkerPc \ {"call"} : pc' = [pc EXCEPT ![w] = s]
      BY <2>3 DEF CheckToken, ReadEnable, SpuriousWakeup, WorkerPc
    <3>3. w \in OnceWorkers => s \notin {"finish", "cancel"}
      <4> HAVE w \in OnceWorkers
      <4>1. CASE CheckToken(w)
        <5>1. ~(token /\ req[w] # NoMap)
          BY HeldInUpdate
        <5> QED BY <1>t, <3>2, <4>1, <5>1 DEF CheckToken
      <4>2. CASE SpuriousWakeup(w)
        BY <1>t, <3>2, <4>2 DEF SpuriousWakeup
      <4> QED BY <2>3, <3>1, <4>1, <4>2 DEF ReadEnable
    <3>4. Active' = Active
      BY <1>t, <3>1, <3>2, ActiveSame
    <3>5. \A v \in OnceWorkers : Over(v) <=> Over(v)'
      BY <1>t, <3>1, <3>2, <3>3, WorkersFinite DEF Over
    <3> QED BY <3>1, <3>4, <3>5 DEF OncePending, InQueue
  <2>4. CASE WaitAndPop(w)
    <3>1. pc[w] = "pop" /\ req[w] = NoMap
      BY <2>4 DEF WaitAndPop, IndInv, PcReq
    <3>2. PICK s \in {"popped", "sleep"} : pc' = [pc EXCEPT ![w] = s]
      BY <2>4 DEF WaitAndPop
    <3>3. \A v \in Workers : v # w => req'[v] = req[v]
      BY <1>t, <2>4 DEF WaitAndPop
    <3>4. Active' = Active
      BY <1>t, <3>1, <3>2, <3>3, ActiveSame
    <3>5. \A v \in Workers : Over(v) <=> Over(v)'
      BY <1>t, <3>1, <3>2 DEF Over
    <3>6. CASE req' = req /\ onceQueue' = onceQueue
      BY <3>4, <3>5, <3>6, WorkersFinite DEF OncePending, InQueue
    <3>7. CASE w \in LoopWorkers /\ onceQueue' = onceQueue
      BY <3>3, <3>4, <3>5, <3>7, WorkersFinite DEF OncePending, InQueue
    <3>8. CASE /\ w \notin LoopWorkers /\ onceQueue # <<>>
               /\ onceQueue' = Tail(onceQueue)
               /\ req' = [req EXCEPT ![w] = Head(onceQueue)]
      <4>1. onceQueue \in Seq(WorldMaps)
        BY DEF IndInv, TypeOK
      <4>2. InQueue(onceQueue) = InQueue(onceQueue)' \cup {Head(onceQueue)}
        BY <3>8, <4>1, TailQueue DEF InQueue
      <4>3. req'[w] = Head(onceQueue) /\ ~Over(w) /\ w \in OnceWorkers
        BY <1>t, <3>1, <3>8, WorkersFinite DEF Over
      <4>4. ASSUME NEW m \in WorldMaps
            PROVE  OncePending(m)' <=> OncePending(m)
        <5>1. m # NoMap
          BY MapsAssumption, MapKinds
        <5>2. CASE m = Head(onceQueue)
          BY <4>2, <4>3, <3>5, <5>2, WorkersFinite DEF OncePending
        <5>3. CASE m # Head(onceQueue)
          BY <3>1, <3>3, <3>5, <4>2, <4>3, <5>1, <5>3, WorkersFinite DEF OncePending
        <5> QED BY <5>2, <5>3
      <4> QED BY <3>4, <4>4
    <3> QED BY <2>4, <3>6, <3>7, <3>8 DEF WaitAndPop, Queue
  <2> QED BY <2>1, <2>2, <2>3, <2>4
<1>4. Updates'
  BY <1>1, <1>2, <1>3 DEF Updates
<1> QED BY <1>1, <1>2, <1>3, <1>4 DEF Cycle!vars, Done, Required

\* Every step of the updater is one of the cycle, or none of its business.
LEMMA StepCycle ==
    ASSUME IndInv, Updates, [Next]_vars
    PROVE  Updates' /\ [Cycle!Next]_(Cycle!vars)
<1>1. CASE World \/ WorldSpuriousWakeup
  BY <1>1, StartCycle, WorldCycle, ScheduleMapCycle, InlineCycle DEF World, Cycle!Next
<1>2. ASSUME NEW w \in Workers, Worker(w) \/ SpuriousWakeup(w)
      PROVE  Updates' /\ [Cycle!Next]_(Cycle!vars)
  BY <1>2, WorkerCycle, StartCallCycle, EndCallCycle, VisitCycle DEF Worker
<1>3. CASE UNCHANGED vars
  <2> USE <1>3 DEF vars, worldVars, queueVars, flagVars, histVars
  <2>1. Phase' = Phase /\ Active' = Active /\ Done' = Done /\ Required' = Required
    BY DEF Phase, Active, Done, Required
  <2>2. \A m : OncePending(m)' <=> OncePending(m)
    BY DEF OncePending, InQueue, Over
  <2> QED BY <2>1, <2>2 DEF Updates, Cycle!vars
<1> QED BY <1>1, <1>2, <1>3 DEF Next, Stopped

\* The threads of the updater implement the abstract cycle, for any sets of maps
\* and workers: base maps are updated exactly once per MapManager::Update, no map
\* twice at a time, and DelayedUpdate starts after all of it.
THEOREM CycleImplemented == Spec => CycleSpec
<1>1. Init => Updates /\ Cycle!Init
  BY InitCycle
<1>2. IndInv /\ Updates /\ [Next]_vars => Updates' /\ [Cycle!Next]_(Cycle!vars)
  BY StepCycle
<1> QED BY <1>1, <1>2, InvHolds, PTL DEF Spec, CycleSpec, Cycle!Spec
-----------------------------------------------------------------------------
(***************************************************************************)
(* Enough threads for the base maps                                         *)
(***************************************************************************)

\* The once-workers that are about to pop, in thread state f.
Poppers(f) == {w \in OnceWorkers : f[w] = "pop"}

\* Threads leave their loop only when the updater shuts down.
Exits == \A w \in Workers : pc[w] \in {"exit", "cancel"} => token

ParallelInv == Exits /\ OnceParallel

\* There are finitely many poppers, and woken workers add to them.
LEMMA PoppersFinite ==
    ASSUME NEW f
    PROVE  IsFiniteSet(Poppers(f)) /\ Cardinality(Poppers(f)) \in Nat
<1>1. Poppers(f) \subseteq OnceWorkers
  BY DEF Poppers
<1>2. IsFiniteSet(Poppers(f))
  BY <1>1, WorkersFinite, FS_Subset
<1> QED BY <1>2, FS_CardinalityType

\* OnceParallel speaks of the poppers, and two disjoint sets count together.
LEMMA ParallelIs ==
    /\ OnceParallel <=> Len(onceQueue) <= Cardinality(Poppers(pc))
    /\ OnceParallel' <=> Len(onceQueue') <= Cardinality(Poppers(pc'))
BY DEF OnceParallel, Poppers

\* Two disjoint finite sets are counted one after the other.
LEMMA DisjointCount ==
    ASSUME NEW A, NEW B, IsFiniteSet(A), IsFiniteSet(B), A \cap B = {}
    PROVE  Cardinality(A \cup B) = Cardinality(A) + Cardinality(B)
<1>1. Cardinality(A \cap B) = 0
  BY FS_EmptySet
<1>2. Cardinality(A) \in Nat /\ Cardinality(B) \in Nat
  BY FS_CardinalityType
<1>3. Cardinality(A \cup B) = Cardinality(A) + Cardinality(B) - Cardinality(A \cap B)
  BY FS_Union
<1> QED BY <1>1, <1>2, <1>3

\* How many once-threads are missing for p pending maps, and the start of some.
Missing(f, p) ==
    IF Cardinality(OnceWorkers \ Unborn(f)) < p
      THEN p - Cardinality(OnceWorkers \ Unborn(f)) ELSE 0
Started(f, S) == [w \in Workers |-> IF w \in S THEN "pop" ELSE f[w]]

\* spawnMissingOnceUpdateThreads starts the threads that are missing.
LEMMA SpawnCount ==
    ASSUME NEW f, NEW p, NEW g \in SpawnMissingOnceUpdateThreads(f, p)
    PROVE  \E S \in SUBSET Unborn(f) :
              Cardinality(S) = Missing(f, p) /\ g = Started(f, S)
BY Zenon DEF SpawnMissingOnceUpdateThreads, Missing, Started

\* Woken workers only add to those that pop.
LEMMA WakesPoppers ==
    ASSUME NEW f, NEW g, WakesOnly(f, g)
    PROVE  /\ Poppers(f) \subseteq Poppers(g)
           /\ Cardinality(Poppers(f)) <= Cardinality(Poppers(g))
<1>1. Poppers(f) \subseteq Poppers(g)
  BY WorkersFinite DEF WakesOnly, Poppers
<1> QED BY <1>1, PoppersFinite, FS_Subset

\* More workers pop, for no more requests.
LEMMA MorePoppers ==
    ASSUME IndInv, OnceParallel, onceQueue' = onceQueue,
           Poppers(pc) \subseteq Poppers(pc')
    PROVE  OnceParallel'
<1>1. Cardinality(Poppers(pc)) <= Cardinality(Poppers(pc'))
  BY PoppersFinite, FS_Subset
<1>2. Len(onceQueue) <= Cardinality(Poppers(pc)) /\ Len(onceQueue) \in Nat
  BY ParallelIs DEF IndInv, TypeOK
<1>3. Len(onceQueue) <= Cardinality(Poppers(pc'))
  BY <1>1, <1>2, PoppersFinite
<1> QED BY <1>3, ParallelIs

\* A woken worker has not left.
LEMMA WakesExits ==
    ASSUME Exits, WakesOnly(pc, pc'), token => token'
    PROVE  Exits'
BY DEF Exits, WakesOnly

\* schedule_update finds a sleeping once-worker for a base map, or spawns one
\* unless all that run are about to pop.
LEMMA ScheduleParallel ==
    ASSUME IndInv, ParallelInv, NEW m \in Maps, ScheduleUpdate(m), req' = req, ~token
    PROVE  OnceParallel'
<1> USE DEF ParallelInv
<1>1. WakesOnly(pc, pc') /\ pc \in [Workers -> WorkerPc]
  BY ScheduleWakes DEF IndInv, TypeOK
<1>2. CASE IsLoopMap(m)
  BY <1>1, <1>2, WakesPoppers, MorePoppers DEF ScheduleUpdate
<1>3. CASE ~IsLoopMap(m)
  <2> DEFINE n == Len(onceQueue)
             h == Cardinality(Holders(OnceWorkers))
             k == Cardinality(Poppers(pc))
  <2>1. n \in Nat /\ h \in Nat /\ k \in Nat /\ n <= k /\ pendingOnce = n + h
    <3>1. n <= k /\ k \in Nat
      BY PoppersFinite, ParallelIs
    <3>2. n \in Nat /\ h \in Nat /\ pendingOnce = n + h
      BY HoldersFinite DEF IndInv, TypeOK, Counts
    <3> QED BY <3>1, <3>2
  <2>2. onceQueue' = Append(onceQueue, m) /\ Len(onceQueue') = n + 1
    BY <1>3, MapKinds DEF ScheduleUpdate, IndInv, TypeOK, Maps
  <2>3. PICK g \in NotifyOne(OnceWorkers, pc) :
          pc' \in SpawnMissingOnceUpdateThreads(g, pendingOnce + 1)
    BY <1>3 DEF ScheduleUpdate
  <2> HIDE DEF n, h, k
  <2>4. CASE Sleepers(OnceWorkers, pc) # {}
    <3>1. PICK w \in OnceWorkers : pc[w] = "sleep" /\ g = [pc EXCEPT ![w] = "pop"]
      BY <2>3, <2>4 DEF NotifyOne, Sleepers
    <3>2. Poppers(g) = Poppers(pc) \cup {w} /\ w \notin Poppers(pc)
      BY <1>1, <3>1, WorkersFinite DEF Poppers
    <3>3. Cardinality(Poppers(g)) = k + 1
      BY <3>2, PoppersFinite, FS_AddElement DEF k
    <3>4. g \in [Workers -> WorkerPc]
      BY <1>1, <3>1 DEF WorkerPc
    <3>5. WakesOnly(g, pc')
      BY <2>3, <3>4, SpawnWakes
    <3>6. Cardinality(Poppers(g)) <= Cardinality(Poppers(pc'))
      BY <3>5, WakesPoppers
    <3>7. n + 1 <= Cardinality(Poppers(pc'))
      BY <2>1, <3>3, <3>6, PoppersFinite
    <3> QED BY <2>2, <3>7, ParallelIs
  <2>5. CASE Sleepers(OnceWorkers, pc) = {}
    <3> DEFINE U == Unborn(pc)
               size == Cardinality(OnceWorkers \ U)
               missing == Missing(pc, pendingOnce + 1)
    <3>1. g = pc
      BY <2>3, <2>5 DEF NotifyOne
    <3>2. PICK S \in SUBSET U : Cardinality(S) = missing /\ pc' = Started(pc, S)
      BY <2>3, <3>1, SpawnCount
    <3> HIDE DEF missing
    <3>3. U \subseteq OnceWorkers /\ IsFiniteSet(S)
      <4>1. U \subseteq OnceWorkers
        BY DEF Unborn
      <4> QED BY <4>1, WorkersFinite, FS_Subset
    <3>4. ASSUME NEW w \in OnceWorkers \ U
          PROVE  w \in Poppers(pc) \cup Holders(OnceWorkers)
      <4>1. w \in Workers /\ pc[w] \in WorkerPc /\ pc[w] \notin {"unborn", "sleep"}
        BY <1>1, <2>5, WorkersFinite DEF Unborn, Sleepers
      <4>2. pc[w] \notin {"exit", "cancel"} /\ (pc[w] = "popped" => req[w] # NoMap)
        BY <4>1 DEF Exits, IndInv, PcReq
      <4>3. pc[w] = "pop" \/ req[w] # NoMap
        BY <4>1, <4>2 DEF IndInv, PcReq, WorkerPc
      <4> QED BY <4>3 DEF Poppers, Holders
    <3>5. ASSUME NEW w \in Poppers(pc) \cup Holders(OnceWorkers)
          PROVE  w \in OnceWorkers \ U
      BY WorkersFinite DEF Poppers, Holders, Unborn, IndInv, PcReq
    <3>6. /\ OnceWorkers \ U = Poppers(pc) \cup Holders(OnceWorkers)
          /\ Poppers(pc) \cap Holders(OnceWorkers) = {}
      BY <3>4, <3>5, WorkersFinite DEF Poppers, Holders, IndInv, PcReq
    <3>7. size = k + h
      BY <3>6, PoppersFinite, HoldersFinite, DisjointCount DEF k, h
    <3>8. Poppers(pc') = Poppers(pc) \cup S /\ Poppers(pc) \cap S = {}
      BY <3>2, <3>3, WorkersFinite DEF Poppers, Unborn, Started
    <3>9. Cardinality(Poppers(pc')) = k + missing
      BY <3>2, <3>3, <3>8, PoppersFinite, DisjointCount DEF k
    <3>10. missing = IF size < pendingOnce + 1 THEN pendingOnce + 1 - size ELSE 0
      BY <2>1, <3>7 DEF missing, Missing
    <3> HIDE DEF size
    <3>11. n + 1 <= k + missing
      BY <2>1, <3>7, <3>10
    <3> QED BY <2>2, <3>9, <3>11, ParallelIs
  <2> QED BY <2>4, <2>5
<1> QED BY <1>2, <1>3

\* Popping takes one request and one of the workers that pop.
LEMMA PopParallel ==
    ASSUME IndInv, ParallelInv, NEW w \in Workers, WaitAndPop(w)
    PROVE  ParallelInv'
<1> USE DEF ParallelInv
<1>1. /\ pc \in [Workers -> WorkerPc] /\ pc[w] = "pop" /\ token' = token
      /\ onceQueue \in Seq(WorldMaps)
  BY DEF WaitAndPop, flagVars, IndInv, TypeOK
<1>2. PICK s \in {"popped", "sleep"} : pc' = [pc EXCEPT ![w] = s]
  BY DEF WaitAndPop
<1>3. Exits'
  BY <1>1, <1>2 DEF Exits
<1>4. CASE w \in LoopWorkers
  <2>1. onceQueue' = onceQueue
    BY <1>4 DEF WaitAndPop
  <2>2. Poppers(pc) \subseteq Poppers(pc')
    BY <1>1, <1>2, <1>4, WorkersFinite DEF Poppers
  <2> QED BY <1>3, <2>1, <2>2, MorePoppers
<1>5. CASE onceQueue = <<>> /\ onceQueue' = onceQueue
  <2>1. Len(onceQueue') = 0
    BY <1>5
  <2> QED BY <1>3, <2>1, PoppersFinite, ParallelIs
<1>6. CASE w \notin LoopWorkers /\ onceQueue # <<>> /\ onceQueue' = Tail(onceQueue)
  <2>1. Len(onceQueue) \in Nat \ {0} /\ Len(onceQueue') = Len(onceQueue) - 1
    BY <1>1, <1>6, TailQueue
  <2>2. Poppers(pc') = Poppers(pc) \ {w} /\ w \in Poppers(pc)
    BY <1>1, <1>2, <1>6, WorkersFinite DEF Poppers
  <2>3. Cardinality(Poppers(pc')) = Cardinality(Poppers(pc)) - 1
    BY <2>2, PoppersFinite, FS_RemoveElement
  <2>4. Len(onceQueue) <= Cardinality(Poppers(pc))
    BY ParallelIs
  <2>5. Len(onceQueue') <= Cardinality(Poppers(pc'))
    BY <2>1, <2>3, <2>4, PoppersFinite
  <2> QED BY <1>3, <2>5, ParallelIs
<1>7. onceShutdown => onceQueue = <<>>
  BY ZeroPending DEF IndInv, Phases
<1> QED BY <1>4, <1>5, <1>6, <1>7 DEF WaitAndPop, Queue, Shutdown

\* The remaining steps take no worker away from the queue.
LEMMA StepParallel ==
    ASSUME IndInv, ParallelInv, [Next]_vars
    PROVE  ParallelInv'
<1> USE DEF ParallelInv
<1>t. pc \in [Workers -> WorkerPc]
  BY DEF IndInv, TypeOK
<1>w. WakesOnly(pc, pc)
  BY <1>t DEF WakesOnly
<1>1. ASSUME WakesOnly(pc, pc'), onceQueue' = onceQueue, token => token'
      PROVE  ParallelInv'
  BY <1>1, WakesPoppers, MorePoppers, WakesExits
<1>2. CASE \/ StartUpdate \/ EnableUpdateLoop \/ WaitUpdateOnces \/ DisableUpdateLoop
           \/ WaitUpdateLoops \/ DelayedUpdate \/ UnloadAll \/ Deactivate
           \/ Join \/ WorldSpuriousWakeup \/ UNCHANGED vars
           \/ \E m \in Maps : CreateMap(m)
           \/ \E m \in WorldMaps : UpdateMapInline(m)
           \/ \E i \in Instances : UpdateInstanceInline(i)
  <2>1. pc' = pc /\ onceQueue' = onceQueue /\ (token => token')
    BY <1>2 DEF StartUpdate, EnableUpdateLoop, WaitUpdateOnces, DisableUpdateLoop,
        WaitUpdateLoops, DelayedUpdate, UnloadAll, Deactivate, Join,
        WorldSpuriousWakeup, CreateMap, UpdateMapInline, UpdateInstanceInline,
        vars, worldVars, queueVars, flagVars
  <2> QED BY <1>1, <1>w, <2>1
<1>3. CASE CancelLoopQueue \/ CancelOnceQueue
  <2>1. onceQueue = <<>>
    BY <1>3, QuietState DEF CancelLoopQueue, CancelOnceQueue, Quiet
  <2>2. \A W \in {LoopWorkers, OnceWorkers} : WakesOnly(pc, NotifyAll(W, pc))
    BY <1>t, NotifyAllWakes, WorkersFinite
  <2> QED BY <1>1, <1>3, <2>1, <2>2 DEF CancelLoopQueue, CancelOnceQueue, flagVars
<1>4. ASSUME NEW m \in WorldMaps, ScheduleMap(m) PROVE ParallelInv'
  <2>1. ScheduleUpdate(m) /\ req' = req /\ token' = token /\ m \in Maps
    BY <1>4, MapKinds DEF ScheduleMap, flagVars
  <2>2. ~token
    BY <1>4 DEF ScheduleMap, IndInv, Phases
  <2>3. WakesOnly(pc, pc')
    BY <1>t, <2>1, ScheduleWakes
  <2> QED BY <2>1, <2>2, <2>3, ScheduleParallel, WakesExits
<1>5. ASSUME NEW w \in Workers, NEW i \in Instances, VisitInstance(w, i)
      PROVE  ParallelInv'
  <2>1. pc[w] = "call" /\ req' = req /\ token' = token /\ i \in Maps
    BY <1>5, MapKinds DEF VisitInstance, flagVars
  <2>2. ~token
    BY <2>1, HeldInUpdate DEF IndInv, PcReq
  <2>3. CASE ScheduleUpdate(i)
    BY <1>t, <2>1, <2>2, <2>3, ScheduleParallel, ScheduleWakes, WakesExits
  <2>4. CASE pc' = pc /\ onceQueue' = onceQueue
    BY <1>1, <1>w, <2>1, <2>4
  <2> QED BY <1>5, <2>3, <2>4 DEF VisitInstance
<1>6. ASSUME NEW w \in Workers,
             \/ CheckToken(w) \/ StartCall(w) \/ EndCall(w) \/ ReadEnable(w)
             \/ SpuriousWakeup(w) \/ FinishRequest(w)
      PROVE  ParallelInv'
  <2> USE DEF CheckToken, StartCall, EndCall, ReadEnable, SpuriousWakeup,
              FinishRequest
  <2>1. token' = token /\ onceQueue' = onceQueue /\ pc[w] # "pop"
    BY <1>6 DEF Finished, flagVars, queueVars
  <2>2. PICK s : /\ pc' = [pc EXCEPT ![w] = s]
                 /\ s \in {"exit", "cancel"} => token
    BY <1>6 DEF Exits
  <2>3. Exits'
    BY <1>t, <2>1, <2>2 DEF Exits
  <2>4. Poppers(pc) \subseteq Poppers(pc')
    BY <1>t, <2>1, <2>2, WorkersFinite DEF Poppers
  <2> QED BY <2>1, <2>3, <2>4, MorePoppers
<1>7. ASSUME NEW w \in Workers, Requeue(w) PROVE ParallelInv'
  <2>1. /\ pc[w] = "requeue" /\ onceQueue' = onceQueue /\ token' = token
        /\ pc' \in NotifyOne(LoopWorkers, [pc EXCEPT ![w] = "pop"])
    BY <1>7 DEF Requeue, flagVars
  <2>2. WakesOnly([pc EXCEPT ![w] = "pop"], pc')
    <3>1. [pc EXCEPT ![w] = "pop"] \in [Workers -> WorkerPc]
      BY <1>t DEF WorkerPc
    <3> QED BY <2>1, <3>1, NotifyOneWakes, WorkersFinite
  <2>3. \A v \in Workers : \/ pc'[v] = pc[v]
                           \/ pc'[v] = "pop"
    BY <1>t, <2>2 DEF WakesOnly
  <2>4. Exits'
    BY <2>1, <2>3 DEF Exits
  <2>5. Poppers(pc) \subseteq Poppers(pc')
    BY <2>3, WorkersFinite DEF Poppers
  <2> QED BY <2>1, <2>4, <2>5, MorePoppers
<1>8. ASSUME NEW w \in Workers, WaitAndPop(w) PROVE ParallelInv'
  BY <1>8, PopParallel
<1> QED BY <1>2, <1>3, <1>4, <1>5, <1>6, <1>7, <1>8 DEF Next, World, Worker, Stopped

\* No base map waits for the update of another one: for every queued request
\* there is a thread about to pop, whatever the number of maps and threads.
THEOREM OnceInParallel == Spec => []OnceParallel
<1>1. Init => ParallelInv
  <2> SUFFICES ASSUME Init PROVE ParallelInv
    OBVIOUS
  <2>1. Len(onceQueue) = 0 /\ Exits
    BY DEF Init, Exits
  <2> QED BY <2>1, PoppersFinite, ParallelIs DEF ParallelInv
<1>2. IndInv /\ ParallelInv /\ [Next]_vars => ParallelInv'
  BY StepParallel
<1>3. ParallelInv => OnceParallel
  BY DEF ParallelInv
<1> QED BY <1>1, <1>2, <1>3, InvHolds, PTL DEF Spec

=============================================================================
