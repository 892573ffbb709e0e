------------------------------ MODULE MapCycle ------------------------------
(***************************************************************************)
(* What MapManager::Update promises, without threads, queues or counters:   *)
(* the world alternates between a phase in which maps are updated, possibly *)
(* in parallel, and phases in which it has all maps to itself.  Once-maps   *)
(* are updated exactly once per cycle, loop-maps any number of times, and   *)
(* no map is updated twice at the same time.                                *)
(***************************************************************************)
CONSTANTS OnceMaps, LoopMaps

VARIABLES
    phase,      \* "idle", "update" or "delayed"
    active,     \* maps inside Map::Update
    done,       \* maps updated at least once in this cycle
    required    \* the once-maps that exist

vars == <<phase, active, done, required>>

Maps == OnceMaps \cup LoopMaps

Init == phase = "idle" /\ active = {} /\ done = {} /\ required = {}

\* Base maps come and go only while the world has the maps to itself.
ChangeMaps ==
    /\ phase = "idle"
    /\ required' \in SUBSET OnceMaps
    /\ UNCHANGED <<phase, active, done>>

StartCycle ==
    /\ phase = "idle"
    /\ phase' = "update" /\ done' = {}
    /\ UNCHANGED <<active, required>>

MayUpdate(m) ==
    /\ phase = "update" /\ m \notin active
    /\ m \in OnceMaps => m \in required \ done

BeginUpdate(m) ==
    /\ MayUpdate(m)
    /\ active' = active \cup {m}
    /\ UNCHANGED <<phase, done, required>>

EndUpdate(m) ==
    /\ phase = "update" /\ m \in active
    /\ active' = active \ {m} /\ done' = done \cup {m}
    /\ UNCHANGED <<phase, required>>

\* Without worker threads an update is one step of the world thread.
UpdateInline(m) ==
    /\ MayUpdate(m)
    /\ done' = done \cup {m}
    /\ UNCHANGED <<phase, active, required>>

Barrier ==
    /\ phase = "update" /\ active = {} /\ required \subseteq done
    /\ phase' = "delayed"
    /\ UNCHANGED <<active, done, required>>

EndCycle ==
    /\ phase = "delayed"
    /\ phase' = "idle"
    /\ UNCHANGED <<active, done, required>>

Next ==
    \/ ChangeMaps \/ StartCycle \/ Barrier \/ EndCycle
    \/ \E m \in Maps : BeginUpdate(m) \/ EndUpdate(m) \/ UpdateInline(m)

Spec == Init /\ [][Next]_vars

=============================================================================
