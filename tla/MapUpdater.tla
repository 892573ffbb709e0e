----------------------------- MODULE MapUpdater -----------------------------
(***************************************************************************)
(* The multi-threaded map update of the world server: the world thread      *)
(* running MapManager::Update, the MapUpdater it drives, and the worker     *)
(* threads that pop MapUpdateRequests from two ProducerConsumerQueues.      *)
(*                                                                          *)
(* Once-maps (continents and the MapInstanced base maps) are updated by     *)
(* once-workers a single time per cycle.  Loop-maps (instances, battle-     *)
(* grounds, test maps) are scheduled by their base map while it is being    *)
(* updated, and are updated by loop-workers again and again until the       *)
(* world thread sees all once-maps finished.                                *)
(*                                                                          *)
(* A request is identified with its map.  Steps are the code's critical     *)
(* sections (_lock, _queueLock) and accesses to its atomics.                *)
(***************************************************************************)
EXTENDS Integers, Sequences, FiniteSets

CONSTANTS
    Continents,     \* base maps of MAP_TYPE_MAP
    BaseMaps,       \* base maps of MAP_TYPE_MAP_INSTANCED
    Instances,      \* instances, battlegrounds and test maps
    TestMaps,       \* the instances of MAP_TYPE_TEST_MAP
    Base,           \* Base[i]: the MapInstanced that holds instance i
    LoopWorkers,    \* threads of _loop_maps_workerThreads
    OnceWorkers,    \* threads that may enter _once_maps_workerThreads
    NoMap           \* a null MapUpdateRequest*

WorldMaps == Continents \cup BaseMaps
Maps      == WorldMaps \cup Instances
Workers   == LoopWorkers \cup OnceWorkers

ASSUME MapsAssumption ==
    /\ IsFiniteSet(WorldMaps) /\ IsFiniteSet(Instances)
    /\ Continents \cap BaseMaps = {}
    /\ WorldMaps \cap Instances = {}
    /\ TestMaps \subseteq Instances
    /\ Base \in [Instances -> BaseMaps]
    /\ NoMap \notin Maps

\* A once-worker is never lacking: threads are spawned on demand, one per
\* pending once-map.
ASSUME WorkersAssumption ==
    /\ IsFiniteSet(LoopWorkers) /\ LoopWorkers # {}
    /\ IsFiniteSet(OnceWorkers)
    /\ Cardinality(OnceWorkers) >= Cardinality(WorldMaps)
    /\ LoopWorkers \cap OnceWorkers = {}

UpdateCap == 2      \* completed updates of a map are counted up to here

VARIABLES
    activated,      \* MapUpdater::activated(): worker threads were started
    wpc,            \* where the world thread is
    todo,           \* entries of i_maps that Update has still to visit
    exist,          \* Map objects that exist (i_maps, m_InstancedMaps)
    iter,           \* instances a running MapInstanced::Update has to visit
    pc,             \* where each worker is
    req,            \* the request each worker holds
    loopQueue, onceQueue,           \* the two ProducerConsumerQueues
    loopShutdown, onceShutdown,     \* their _shutdown flags
    pendingLoop, pendingOnce,       \* pending_loop_maps, pending_once_maps
    enable,         \* _enable_updates_loop
    token,          \* _cancelationToken
    scheduled,      \* maps given to schedule_update in this cycle
    updated         \* updates completed for each map in this cycle

worldVars == <<activated, wpc, todo, exist, iter>>
queueVars == <<loopQueue, onceQueue, loopShutdown, onceShutdown>>
countVars == <<pendingLoop, pendingOnce>>
flagVars  == <<enable, token>>
histVars  == <<scheduled, updated>>
vars == <<worldVars, pc, req, queueVars, countVars, flagVars, histVars>>

-----------------------------------------------------------------------------
(***************************************************************************)
(* Helpers                                                                  *)
(***************************************************************************)

Instanceable(m) == m \in BaseMaps \cup (Instances \ TestMaps)

\* Mutant: without the test-map alternative.
IsLoopMapMutant(m) == Instanceable(m) /\ m \notin BaseMaps

\* The branch of schedule_update that picks the loop queue.
IsLoopMap(m) == (Instanceable(m) /\ m \notin BaseMaps) \/ m \in TestMaps

InstancesOf(m) == {i \in Instances : i \in exist /\ Base[i] = m}

Count(n) == IF n < UpdateCap THEN n + 1 ELSE n

Sleepers(W, f) == {w \in W : f[w] = "sleep"}

\* condition_variable::notify_one on the workers W, in thread state f.
NotifyOne(W, f) ==
    IF Sleepers(W, f) = {} THEN {f}
    ELSE {[f EXCEPT ![w] = "pop"] : w \in Sleepers(W, f)}

NotifyAll(W, f) == [w \in Workers |-> IF w \in Sleepers(W, f) THEN "pop" ELSE f[w]]

Unborn(f) == {w \in OnceWorkers : f[w] = "unborn"}

\* Mutant: one thread too few.
SpawnMutant(f, pending) ==
    LET size    == Cardinality(OnceWorkers \ Unborn(f))
        missing == IF size + 1 < pending THEN pending - size - 1 ELSE 0
    IN  {[w \in Workers |-> IF w \in S THEN "pop" ELSE f[w]] :
            S \in {T \in SUBSET Unborn(f) : Cardinality(T) = missing}}

\* spawnMissingOnceUpdateThreads: as many once-threads as pending once-maps.
SpawnMissingOnceUpdateThreads(f, pending) ==
    LET size    == Cardinality(OnceWorkers \ Unborn(f))
        missing == IF size < pending THEN pending - size ELSE 0
    IN  {[w \in Workers |-> IF w \in S THEN "pop" ELSE f[w]] :
            S \in {T \in SUBSET Unborn(f) : Cardinality(T) = missing}}

\* schedule_update(m), one critical section of _lock.
ScheduleUpdate(m) ==
    /\ scheduled' = scheduled \cup {m}
    /\ IF IsLoopMap(m)
         THEN /\ pendingLoop' = pendingLoop + 1
              /\ loopQueue' = Append(loopQueue, m)
              /\ UNCHANGED <<pendingOnce, onceQueue>>
              /\ \E g \in NotifyOne(LoopWorkers, pc) :
                    pc' \in SpawnMissingOnceUpdateThreads(g, pendingOnce)
         ELSE /\ pendingOnce' = pendingOnce + 1
              /\ onceQueue' = Append(onceQueue, m)
              /\ UNCHANGED <<pendingLoop, loopQueue>>
              /\ \E g \in NotifyOne(OnceWorkers, pc) :
                    pc' \in SpawnMissingOnceUpdateThreads(g, pendingOnce + 1)

-----------------------------------------------------------------------------
(***************************************************************************)
(* The world thread                                                         *)
(***************************************************************************)

\* MapManager::Initialize with MapUpdate.Threads 0 or more.
Init ==
    /\ activated \in BOOLEAN
    /\ wpc = "idle" /\ todo = {} /\ exist = {} /\ iter = {}
    /\ pc = [w \in Workers |->
                IF w \in LoopWorkers /\ activated THEN "pop" ELSE "unborn"]
    /\ req = [w \in Workers |-> NoMap]
    /\ loopQueue = <<>> /\ onceQueue = <<>>
    /\ loopShutdown = FALSE /\ onceShutdown = FALSE
    /\ pendingLoop = 0 /\ pendingOnce = 0
    /\ enable = FALSE /\ token = FALSE
    /\ scheduled = {}
    /\ updated = [m \in Maps |-> 0]

\* CreateBaseMap / CreateInstance called by the world thread between updates.
CreateMap(m) ==
    /\ wpc = "idle" /\ m \notin exist
    /\ m \in Instances => Base[m] \in exist
    /\ exist' = exist \cup {m}
    /\ UNCHANGED <<activated, wpc, todo, iter, pc, req, queueVars, countVars,
                   flagVars, histVars>>

\* MapManager::Update, once i_timer has passed.
StartUpdate ==
    /\ wpc = "idle"
    /\ wpc' = "schedule"
    /\ todo' = exist \cap WorldMaps
    /\ scheduled' = {}
    /\ updated' = [m \in Maps |-> 0]
    /\ UNCHANGED <<activated, exist, iter, pc, req, queueVars, countVars,
                   flagVars>>

\* One iteration of the loop over i_maps when worker threads are active.
ScheduleMap(m) ==
    /\ wpc = "schedule" /\ activated /\ m \in todo
    /\ todo' = todo \ {m}
    /\ ScheduleUpdate(m)
    /\ UNCHANGED <<activated, wpc, exist, iter, req, loopShutdown,
                   onceShutdown, flagVars, updated>>

\* The same iteration without worker threads: DoUpdate in place, which for
\* a MapInstanced goes on to its instances.
UpdateMapInline(m) ==
    /\ wpc = "schedule" /\ ~activated /\ m \in todo /\ iter = {}
    /\ todo' = todo \ {m}
    /\ iter' = InstancesOf(m)
    /\ scheduled' = scheduled \cup {m}
    /\ updated' = [updated EXCEPT ![m] = Count(@)]
    /\ UNCHANGED <<activated, wpc, exist, pc, req, queueVars, countVars,
                   flagVars>>

UpdateInstanceInline(i) ==
    /\ wpc = "schedule" /\ ~activated /\ i \in iter
    /\ iter' = iter \ {i}
    /\ \/ exist' = exist \ {i} /\ UNCHANGED histVars
       \/ UNCHANGED <<exist, histVars>>
       \/ /\ scheduled' = scheduled \cup {i}
          /\ updated' = [updated EXCEPT ![i] = Count(@)]
          /\ UNCHANGED exist
    /\ UNCHANGED <<activated, wpc, todo, pc, req, queueVars, countVars,
                   flagVars>>

\* enableUpdateLoop(true) after the loop over i_maps; skipped when inline.
EnableUpdateLoop ==
    /\ wpc = "schedule" /\ todo = {} /\ (activated \/ iter = {})
    /\ IF activated THEN wpc' = "waitOnces" /\ enable' = TRUE
                    ELSE wpc' = "delayed" /\ UNCHANGED enable
    /\ UNCHANGED <<activated, todo, exist, iter, pc, req, queueVars,
                   countVars, token, histVars>>

\* waitUpdateOnces: test and wait under _lock; also called by deactivate.
WaitUpdateOnces ==
    /\ wpc = "waitOnces"
    /\ wpc' = CASE pendingOnce > 0 -> "sleepOnces"
                [] pendingOnce = 0 /\ token -> "waitLoops"
                [] OTHER -> "disable"
    /\ UNCHANGED <<activated, todo, exist, iter, pc, req, queueVars,
                   countVars, flagVars, histVars>>

\* enableUpdateLoop(false)
DisableUpdateLoop ==
    /\ wpc = "disable"
    /\ wpc' = "waitLoops" /\ enable' = FALSE
    /\ UNCHANGED <<activated, todo, exist, iter, pc, req, queueVars,
                   countVars, token, histVars>>

\* Mutant: does not wait.
WaitUpdateLoopsMutant ==
    /\ wpc = "waitLoops"
    /\ wpc' = IF token THEN "join" ELSE "delayed"
    /\ UNCHANGED <<activated, todo, exist, iter, pc, req, queueVars,
                   countVars, flagVars, histVars>>

\* waitUpdateLoops
WaitUpdateLoops ==
    /\ wpc = "waitLoops"
    /\ wpc' = CASE pendingLoop > 0 -> "sleepLoops"
                [] pendingLoop = 0 /\ token -> "join"
                [] OTHER -> "delayed"
    /\ UNCHANGED <<activated, todo, exist, iter, pc, req, queueVars,
                   countVars, flagVars, histVars>>

\* Either wait may return without a notification.
WorldSpuriousWakeup ==
    /\ wpc \in {"sleepOnces", "sleepLoops"}
    /\ wpc' = IF wpc = "sleepOnces" THEN "waitOnces" ELSE "waitLoops"
    /\ UNCHANGED <<activated, todo, exist, iter, pc, req, queueVars,
                   countVars, flagVars, histVars>>

\* The loop of DelayedUpdate calls that ends MapManager::Update.
DelayedUpdate ==
    /\ wpc = "delayed"
    /\ wpc' = "idle"
    /\ UNCHANGED <<activated, todo, exist, iter, pc, req, queueVars,
                   countVars, flagVars, histVars>>

\* MapManager::UnloadAll deletes every map and then deactivates the updater.
UnloadAll ==
    /\ wpc = "idle"
    /\ exist' = {}
    /\ wpc' = IF activated THEN "deactivate" ELSE "stopped"
    /\ UNCHANGED <<activated, todo, iter, pc, req, queueVars, countVars,
                   flagVars, histVars>>

\* deactivate: _cancelationToken = true
Deactivate ==
    /\ wpc = "deactivate"
    /\ wpc' = "cancelLoop" /\ token' = TRUE
    /\ UNCHANGED <<activated, todo, exist, iter, pc, req, queueVars,
                   countVars, enable, histVars>>

\* deactivate: _loop_queue.Cancel()
CancelLoopQueue ==
    /\ wpc = "cancelLoop"
    /\ wpc' = "cancelOnce"
    /\ loopQueue' = <<>> /\ loopShutdown' = TRUE
    /\ pc' = NotifyAll(LoopWorkers, pc)
    /\ UNCHANGED <<activated, todo, exist, iter, req, onceQueue, onceShutdown,
                   countVars, flagVars, histVars>>

\* deactivate: _once_queue.Cancel()
CancelOnceQueue ==
    /\ wpc = "cancelOnce"
    /\ wpc' = "waitOnces"
    /\ onceQueue' = <<>> /\ onceShutdown' = TRUE
    /\ pc' = NotifyAll(OnceWorkers, pc)
    /\ UNCHANGED <<activated, todo, exist, iter, req, loopQueue, loopShutdown,
                   countVars, flagVars, histVars>>

\* deactivate: join every thread and clear the vectors.
Join ==
    /\ wpc = "join"
    /\ \A w \in Workers : pc[w] \in {"exit", "unborn"}
    /\ wpc' = "stopped" /\ activated' = FALSE
    /\ UNCHANGED <<todo, exist, iter, pc, req, queueVars, countVars, flagVars,
                   histVars>>

-----------------------------------------------------------------------------
(***************************************************************************)
(* The workers                                                              *)
(***************************************************************************)

Queue(w)    == IF w \in LoopWorkers THEN loopQueue ELSE onceQueue
Shutdown(w) == IF w \in LoopWorkers THEN loopShutdown ELSE onceShutdown

\* WaitAndPop, whole critical section of _queueLock up to wait or return.
WaitAndPop(w) ==
    /\ pc[w] = "pop"
    /\ IF Queue(w) = <<>> \/ Shutdown(w)
         THEN /\ pc' = [pc EXCEPT ![w] = IF Shutdown(w) THEN "popped" ELSE "sleep"]
              /\ UNCHANGED <<req, loopQueue, onceQueue>>
         ELSE /\ pc' = [pc EXCEPT ![w] = "popped"]
              /\ req' = [req EXCEPT ![w] = Head(Queue(w))]
              /\ IF w \in LoopWorkers
                   THEN loopQueue' = Tail(loopQueue) /\ UNCHANGED onceQueue
                   ELSE onceQueue' = Tail(onceQueue) /\ UNCHANGED loopQueue
    /\ UNCHANGED <<worldVars, loopShutdown, onceShutdown, countVars, flagVars,
                   histVars>>

\* condition_variable::wait may return without a notification.
SpuriousWakeup(w) ==
    /\ pc[w] = "sleep"
    /\ pc' = [pc EXCEPT ![w] = "pop"]
    /\ UNCHANGED <<worldVars, req, queueVars, countVars, flagVars, histVars>>

\* if (_cancelationToken) { if (request) ...Finished(); return; }
CheckToken(w) ==
    /\ pc[w] = "popped"
    /\ pc' = [pc EXCEPT ![w] = CASE token /\ req[w] # NoMap -> "cancel"
                                 [] token /\ req[w] = NoMap -> "exit"
                                 [] OTHER -> "start"]
    /\ UNCHANGED <<worldVars, req, queueVars, countVars, flagVars, histVars>>

\* ASSERT(request); request->call() enters Map::Update.
StartCall(w) ==
    /\ pc[w] = "start" /\ req[w] # NoMap
    /\ pc' = [pc EXCEPT ![w] = "call"]
    /\ iter' = iter \cup InstancesOf(req[w])
    /\ UNCHANGED <<activated, wpc, todo, exist, req, queueVars, countVars,
                   flagVars, histVars>>

\* Mutant: a destroyed instance is scheduled all the same.
VisitInstanceMutant(w, i) ==
    /\ pc[w] = "call" /\ i \in iter /\ Base[i] = req[w]
    /\ iter' = iter \ {i}
    /\ exist' \in {exist, exist \ {i}}
    /\ ScheduleUpdate(i)
    /\ UNCHANGED <<activated, wpc, todo, req, loopShutdown, onceShutdown,
                   flagVars, updated>>

\* One iteration of the loop over m_InstancedMaps in MapInstanced::Update:
\* the instance can unload and is destroyed (or DestroyInstance finds players
\* left and skips it), or its update is scheduled.
VisitInstance(w, i) ==
    /\ pc[w] = "call" /\ i \in iter /\ Base[i] = req[w]
    /\ iter' = iter \ {i}
    /\ \/ /\ exist' = exist \ {i}
          /\ UNCHANGED <<pc, loopQueue, onceQueue, countVars, scheduled>>
       \/ UNCHANGED <<exist, pc, loopQueue, onceQueue, countVars, scheduled>>
       \/ ScheduleUpdate(i) /\ UNCHANGED exist
    /\ UNCHANGED <<activated, wpc, todo, req, loopShutdown, onceShutdown,
                   flagVars, updated>>

\* Mutant: once-workers go on like loop-workers.
EndCallMutant(w) ==
    /\ pc[w] = "call"
    /\ \A i \in iter : Base[i] # req[w]
    /\ updated' = [updated EXCEPT ![req[w]] = Count(@)]
    /\ pc' = [pc EXCEPT ![w] = "called"]
    /\ UNCHANGED <<worldVars, req, queueVars, countVars, flagVars, scheduled>>

\* request->call() returns.
EndCall(w) ==
    /\ pc[w] = "call"
    /\ \A i \in iter : Base[i] # req[w]
    /\ updated' = [updated EXCEPT ![req[w]] = Count(@)]
    /\ pc' = [pc EXCEPT ![w] = IF w \in LoopWorkers THEN "called" ELSE "finish"]
    /\ UNCHANGED <<worldVars, req, queueVars, countVars, flagVars, scheduled>>

\* if (!(*enable_instance_updates_loop)) reads the atomic.
ReadEnable(w) ==
    /\ pc[w] = "called"
    /\ pc' = [pc EXCEPT ![w] = IF enable THEN "requeue" ELSE "finish"]
    /\ UNCHANGED <<worldVars, req, queueVars, countVars, flagVars, histVars>>

\* Mutant: the request is pushed but not given up.
RequeueKeeps(w) ==
    /\ pc[w] = "requeue"
    /\ loopQueue' = Append(loopQueue, req[w])
    /\ pc' \in NotifyOne(LoopWorkers, [pc EXCEPT ![w] = "finish"])
    /\ UNCHANGED <<worldVars, req, onceQueue, loopShutdown, onceShutdown,
                   countVars, flagVars, histVars>>

\* Mutant: the request is counted again.
RequeueCounts(w) ==
    /\ pc[w] = "requeue"
    /\ loopQueue' = Append(loopQueue, req[w])
    /\ req' = [req EXCEPT ![w] = NoMap]
    /\ pendingLoop' = pendingLoop + 1
    /\ pc' \in NotifyOne(LoopWorkers, [pc EXCEPT ![w] = "pop"])
    /\ UNCHANGED <<worldVars, onceQueue, loopShutdown, onceShutdown,
                   pendingOnce, flagVars, histVars>>

\* _loop_queue.Push(request)
Requeue(w) ==
    /\ pc[w] = "requeue"
    /\ loopQueue' = Append(loopQueue, req[w])
    /\ req' = [req EXCEPT ![w] = NoMap]
    /\ pc' \in NotifyOne(LoopWorkers, [pc EXCEPT ![w] = "pop"])
    /\ UNCHANGED <<worldVars, onceQueue, loopShutdown, onceShutdown, countVars,
                   flagVars, histVars>>

\* Mutant: the world thread is not notified.
FinishedMutant(w) ==
    /\ IF w \in LoopWorkers
         THEN pendingLoop' = pendingLoop - 1 /\ UNCHANGED pendingOnce
         ELSE pendingOnce' = pendingOnce - 1 /\ UNCHANGED pendingLoop
    /\ req' = [req EXCEPT ![w] = NoMap]
    /\ UNCHANGED <<activated, wpc, todo, exist, iter, queueVars, flagVars,
                   histVars>>

\* loopMapFinished / onceMapFinished, one critical section of _lock: the
\* world thread, if it sleeps on the counter that drops to 0, is notified.
Finished(w) ==
    /\ IF w \in LoopWorkers
         THEN /\ pendingLoop' = pendingLoop - 1
              /\ UNCHANGED pendingOnce
              /\ wpc' = IF pendingLoop' = 0 /\ wpc = "sleepLoops"
                          THEN "waitLoops" ELSE wpc
         ELSE /\ pendingOnce' = pendingOnce - 1
              /\ UNCHANGED pendingLoop
              /\ wpc' = IF pendingOnce' = 0 /\ wpc = "sleepOnces"
                          THEN "waitOnces" ELSE wpc
    /\ req' = [req EXCEPT ![w] = NoMap]
    /\ UNCHANGED <<activated, todo, exist, iter, queueVars, flagVars, histVars>>

\* The request is deleted (or, on cancelation, dropped) and accounted for.
FinishRequest(w) ==
    /\ pc[w] \in {"finish", "cancel"}
    /\ Finished(w)
    /\ pc' = [pc EXCEPT ![w] = IF @ = "finish" THEN "pop" ELSE "exit"]

Stopped == wpc = "stopped" /\ UNCHANGED vars

-----------------------------------------------------------------------------
World ==
    \/ StartUpdate \/ EnableUpdateLoop \/ WaitUpdateOnces \/ DisableUpdateLoop
    \/ WaitUpdateLoops \/ DelayedUpdate \/ UnloadAll \/ Deactivate
    \/ CancelLoopQueue \/ CancelOnceQueue \/ Join
    \/ \E m \in Maps : CreateMap(m)
    \/ \E m \in WorldMaps : ScheduleMap(m) \/ UpdateMapInline(m)
    \/ \E i \in Instances : UpdateInstanceInline(i)

Worker(w) ==
    \/ WaitAndPop(w) \/ CheckToken(w) \/ StartCall(w) \/ EndCall(w)
    \/ ReadEnable(w) \/ Requeue(w) \/ FinishRequest(w)
    \/ \E i \in Instances : VisitInstance(w, i)

Next ==
    \/ World \/ WorldSpuriousWakeup
    \/ \E w \in Workers : Worker(w) \/ SpuriousWakeup(w)
    \/ Stopped

Spec == Init /\ [][Next]_vars

\* Every thread runs when it can: the code relies on the OS scheduler and on
\* Map::Update returning.  Idling between updates, map creation and shutdown
\* are choices of the environment; spurious wakeups need not happen.
FairSpec == /\ Spec
            /\ WF_vars(World /\ wpc # "idle")
            /\ \A w \in Workers : WF_vars(Worker(w))

-----------------------------------------------------------------------------
(***************************************************************************)
(* Properties                                                               *)
(***************************************************************************)

WorldPc == {"idle", "schedule", "waitOnces", "sleepOnces", "disable",
            "waitLoops", "sleepLoops", "delayed", "deactivate", "cancelLoop",
            "cancelOnce", "join", "stopped"}
WorkerPc == {"unborn", "pop", "sleep", "popped", "cancel", "exit", "start",
             "call", "called", "requeue", "finish"}

\* The variables have the types of the fields they model; the unsigned
\* pending_*_maps never go below 0 (the ASSERTs of *MapFinished).
TypeOK ==
    /\ activated \in BOOLEAN
    /\ wpc \in WorldPc
    /\ todo \subseteq WorldMaps
    /\ exist \subseteq Maps
    /\ iter \subseteq Instances
    /\ pc \in [Workers -> WorkerPc]
    /\ req \in [Workers -> Maps \cup {NoMap}]
    /\ loopQueue \in Seq(Instances)
    /\ onceQueue \in Seq(WorldMaps)
    /\ loopShutdown \in BOOLEAN /\ onceShutdown \in BOOLEAN
    /\ pendingLoop \in Nat /\ pendingOnce \in Nat
    /\ enable \in BOOLEAN /\ token \in BOOLEAN
    /\ scheduled \subseteq Maps
    /\ updated \in [Maps -> 0..UpdateCap]

InQueue(q) == {q[k] : k \in 1..Len(q)}
Holders(W) == {w \in W : req[w] # NoMap}
InUpdate   == {w \in Workers : pc[w] \in {"call", "called", "requeue"}}

\* A map has at most one request, queued or in a worker's hands, so no two
\* threads ever run Map::Update on it, however often loop-maps are requeued.
MapExclusion ==
    /\ \A v, w \in Workers : v # w /\ req[v] # NoMap => req[v] # req[w]
    /\ \A q \in {loopQueue, onceQueue} : \A j, k \in 1..Len(q) :
           /\ j # k => q[j] # q[k]
           /\ \A w \in Workers : req[w] # q[j]

\* Whenever the world thread touches maps itself (sessions between updates,
\* DelayedUpdate, UnloadAll) no worker is inside a map and none is queued.
WorldExclusion ==
    wpc \in {"idle", "delayed", "deactivate", "cancelLoop", "cancelOnce", "join",
            "stopped"}
        => InUpdate = {} /\ loopQueue = <<>> /\ onceQueue = <<>>

\* No request outlives its map: MapInstanced::Update destroys instances while
\* loop-workers run others, and UnloadAll deletes all maps before the workers.
RequestsExist ==
    /\ InQueue(loopQueue) \cup InQueue(onceQueue) \subseteq exist
    /\ \A w \in Workers : req[w] # NoMap => req[w] \in exist

\* pending_*_maps counts the requests queued and held, so that the waits end
\* exactly when the last one is done, and ASSERT(pending_*_maps > 0) holds.
PendingCounts ==
    /\ pendingLoop = Len(loopQueue) + Cardinality(Holders(LoopWorkers))
    /\ pendingOnce = Len(onceQueue) + Cardinality(Holders(OnceWorkers))
    /\ \A w \in Workers : pc[w] \in {"finish", "cancel"} =>
          IF w \in LoopWorkers THEN pendingLoop > 0 ELSE pendingOnce > 0

\* ASSERT(request) in both workers: a null pop always comes with the token.
RequestAssert == \A w \in Workers : pc[w] = "start" => req[w] # NoMap

\* No once-map waits for another once-map's update: for each queued request
\* there is a once-worker awake and about to pop.
OnceParallel ==
    Len(onceQueue) <= Cardinality({w \in OnceWorkers : pc[w] = "pop"})

\* The world thread never waits for ever: each MapManager::Update reaches its
\* DelayedUpdate loop, though instances requeue themselves, and deactivate()
\* returns, though workers may sleep in WaitAndPop.
WaitsEnd ==
    /\ wpc = "schedule" ~> wpc = "delayed"
    /\ wpc = "deactivate" ~> wpc = "stopped"

-----------------------------------------------------------------------------
(***************************************************************************)
(* The update cycle this implements                                         *)
(***************************************************************************)

UpdatePhases == {"schedule", "waitOnces", "sleepOnces", "disable", "waitLoops",
                 "sleepLoops"}

Phase == CASE wpc = "delayed" -> "delayed"
           [] wpc \in UpdatePhases /\ ~token -> "update"
           [] OTHER -> "idle"

Active   == {req[w] : w \in {v \in Workers : pc[v] = "call"}}
Done     == {m \in Maps : updated[m] >= 1}
Required == exist \cap WorldMaps

Cycle == INSTANCE MapCycle WITH
    OnceMaps <- WorldMaps, LoopMaps <- Instances,
    phase <- Phase, active <- Active, done <- Done, required <- Required

\* The threads implement the abstract cycle of MapCycle.
CycleSpec == Cycle!Spec

=============================================================================
