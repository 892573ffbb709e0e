---------------------------- MODULE WorldSessions ----------------------------
(***************************************************************************)
(* The session list of the world and its login queue: World::AddSession_,   *)
(* UpdateSessions, AddQueuedPlayer, RemoveQueuedPlayer, the player limit,   *)
(* the tolerance for reconnects and the kicks, driven by network threads    *)
(* that hand over new sessions and close sockets at any moment.             *)
(*                                                                          *)
(* The world thread works one session at a time; each such handler is one   *)
(* step.  A session object is a member of Sessions that is free again once  *)
(* deleted.                                                                 *)
(***************************************************************************)
EXTENDS Integers, Sequences, FiniteSets, SequencesExt

CONSTANTS
    Accounts,
    GMs,            \* accounts with a security above SEC_PLAYER
    Sessions,       \* WorldSession objects
    Limits,         \* values of PlayerLimit; 0 is no limit
    Tolerance,      \* DisconnectToleranceInterval; 0 is disabled
    MaxTime,        \* bound on game time
    ExpireTicks,    \* updates a player without socket stays in the world
    None

ASSUME SessionAssumption ==
    /\ IsFiniteSet(Accounts) /\ IsFiniteSet(Sessions)
    /\ GMs \subseteq Accounts
    /\ Limits \subseteq Nat /\ Limits # {}
    /\ Tolerance \in Nat /\ MaxTime \in Nat
    /\ ExpireTicks \in Nat \ {0}
    /\ None \notin Accounts \cup Sessions \cup 0..MaxTime

VARIABLES
    wpc,            \* "idle", "add" or "visit" (UpdateSessions), "stopped"
    stopping,       \* KickAll was called; the update under way is the last
    visit,          \* accounts the loop over m_sessions has still to visit
    addSessQueue,
    sess,           \* m_sessions
    queue,          \* m_QueuedPlayer
    limit,          \* m_playerLimit
    disconnects,    \* m_disconnects
    now,            \* WorldGameTime
    obj             \* the session objects, see NewSession

worldVars == <<wpc, stopping, visit>>
listVars  == <<sess, queue>>
confVars  == <<limit, now>>
vars == <<worldVars, addSessQueue, listVars, confVars, disconnects, obj>>

-----------------------------------------------------------------------------
(***************************************************************************)
(* Helpers                                                                  *)
(***************************************************************************)

Listed(m) == {m[a] : a \in Accounts} \ {None}

\* GetActiveSessionCount() for the lists m and q.
ActiveSessionCount(m, q) == Cardinality(Listed(m)) - Len(q)

\* Mutant: the accepted session stays in the queue.
RemoveQueuedPlayerKeeps(s, m, q) ==
    LET found    == s \in ToSet(q)
        rest     == RemoveFirst(q, s)
        active   == ActiveSessionCount(m, q)
        sessions == IF ~found /\ active > 0 THEN active - 1 ELSE active
        accept   == (limit = 0 \/ sessions < limit) /\ rest # <<>>
    IN  [found |-> found, queue |-> rest,
         accept |-> IF accept THEN Head(rest) ELSE None]

\* Mutant: one session too many is accepted.
RemoveQueuedPlayerExceeds(s, m, q) ==
    LET found    == s \in ToSet(q)
        rest     == RemoveFirst(q, s)
        active   == ActiveSessionCount(m, q)
        sessions == IF ~found /\ active > 0 THEN active - 1 ELSE active
        accept   == (limit = 0 \/ sessions <= limit) /\ rest # <<>>
    IN  [found  |-> found,
         queue  |-> IF accept THEN Tail(rest) ELSE rest,
         accept |-> IF accept THEN Head(rest) ELSE None]

\* RemoveQueuedPlayer(s) on the lists m and q: whether s was found, the queue
\* it leaves, and the session accepted from its front, if any.
RemoveQueuedPlayer(s, m, q) ==
    LET found    == s \in ToSet(q)
        rest     == RemoveFirst(q, s)
        active   == ActiveSessionCount(m, q)
        sessions == IF ~found /\ active > 0 THEN active - 1 ELSE active
        accept   == (limit = 0 \/ sessions < limit) /\ rest # <<>>
    IN  [found  |-> found,
         queue  |-> IF accept THEN Tail(rest) ELSE rest,
         accept |-> IF accept THEN Head(rest) ELSE None]

\* HasRecentlyDisconnected: difftime(then, now) < tolerance.
HasRecentlyDisconnected(a) ==
    /\ Tolerance > 0
    /\ disconnects[a] # None
    /\ disconnects[a] - now < Tolerance

\* The fields of a WorldSession; acct is None once it is deleted.  Two of them
\* are history: how InitializeSession was reached ("no", "slot", "gm" or
\* "tolerance"), and how old the disconnect was that gave "tolerance".
NewSession(a) ==
    [acct     |-> a,
     sock     |-> "open",       \* "closed", or "kicked": closed and forceExit
     inQueue  |-> FALSE,        \* m_inQueue
     loginCb  |-> FALSE,        \* _realmAccountLoginCallback is pending
     loading  |-> FALSE,        \* m_playerLoading
     player   |-> FALSE,        \* _player is set
     expire   |-> ExpireTicks,  \* expireTime, in updates
     admitted |-> "no",
     lag      |-> 0]

Deleted == NewSession(None)

\* Mutant: InitializeSession is not called.
AdmitMutant(o, how, age) == [o EXCEPT !.admitted = how, !.lag = age]

\* InitializeSession.
Admit(o, how, age) ==
    [o EXCEPT !.loginCb = TRUE, !.admitted = how, !.lag = age]

-----------------------------------------------------------------------------
Init ==
    /\ wpc = "idle" /\ stopping = FALSE /\ visit = {}
    /\ addSessQueue = <<>>
    /\ sess = [a \in Accounts |-> None] /\ queue = <<>>
    /\ limit \in Limits /\ now = 0
    /\ disconnects = [a \in Accounts |-> None]
    /\ obj = [s \in Sessions |-> Deleted]

(***************************************************************************)
(* Network threads                                                          *)
(***************************************************************************)

\* World::AddSession, called when a client has authenticated.
AddSession(s, a) ==
    /\ obj[s].acct = None /\ wpc # "stopped"
    /\ obj' = [obj EXCEPT ![s] = NewSession(a)]
    /\ addSessQueue' = Append(addSessQueue, s)
    /\ UNCHANGED <<worldVars, listVars, confVars, disconnects>>

\* The client goes away.
LoseSocket(s) ==
    /\ obj[s].acct # None /\ obj[s].sock = "open" /\ wpc # "stopped"
    /\ obj' = [obj EXCEPT ![s].sock = "closed"]
    /\ UNCHANGED <<worldVars, addSessQueue, listVars, confVars, disconnects>>

(***************************************************************************)
(* The world thread: UpdateSessions                                         *)
(***************************************************************************)

StartUpdateSessions ==
    /\ wpc = "idle"
    /\ wpc' = "add"
    /\ UNCHANGED <<stopping, visit, addSessQueue, listVars, confVars,
                   disconnects, obj>>

\* AddSession_ when the account's session is loading a player: the new one is
\* refused and deleted.
RefuseSession ==
    /\ wpc = "add" /\ addSessQueue # <<>>
    /\ LET s   == Head(addSessQueue)
           old == sess[obj[s].acct]
       IN  /\ old # None /\ obj[old].loading
           /\ obj' = [obj EXCEPT ![s] = Deleted]
    /\ addSessQueue' = Tail(addSessQueue)
    /\ UNCHANGED <<worldVars, listVars, confVars, disconnects>>

\* AddSession_ otherwise: the account's old session is kicked, taken out of
\* the queue and deleted, and the new one is queued or initialized.
AddSession_ ==
    /\ wpc = "add" /\ addSessQueue # <<>>
    /\ LET s       == Head(addSessQueue)
           a       == obj[s].acct
           old     == sess[a]
           removed == IF old = None
                        THEN [found |-> FALSE, queue |-> queue, accept |-> None]
                        ELSE RemoveQueuedPlayer(old, sess, queue)
           count   == Cardinality(Listed(sess')) - (IF removed.found THEN 0 ELSE 1)
           full    == limit > 0 /\ count >= limit
           recent  == HasRecentlyDisconnected(a)
           enqueue == full /\ a \notin GMs /\ ~recent
           how     == IF ~full THEN "slot"
                      ELSE IF a \in GMs THEN "gm" ELSE "tolerance"
           age     == IF how = "tolerance" THEN now - disconnects[a] ELSE 0
       IN  /\ old # None => ~obj[old].loading
           /\ sess' = [sess EXCEPT ![a] = s]
           /\ queue' = IF enqueue THEN Append(removed.queue, s)
                                  ELSE removed.queue
           /\ obj' = [x \in Sessions |->
                        IF x = s
                          THEN IF enqueue THEN [obj[x] EXCEPT !.inQueue = TRUE]
                                          ELSE Admit(obj[x], how, age)
                        ELSE IF x = removed.accept THEN Admit(obj[x], "slot", 0)
                        ELSE IF x = old THEN Deleted ELSE obj[x]]
    /\ addSessQueue' = Tail(addSessQueue)
    /\ UNCHANGED <<worldVars, confVars, disconnects>>

StartVisits ==
    /\ wpc = "add" /\ addSessQueue = <<>>
    /\ wpc' = "visit"
    /\ visit' = {a \in Accounts : sess[a] # None}
    /\ UNCHANGED <<stopping, addSessQueue, listVars, confVars, disconnects, obj>>

\* What WorldSession::Update may have done to a session before it looks at
\* the socket: nothing; InitializeSessionCallback; a character login that
\* starts (an AUTHED packet, dropped while m_inQueue), ends or fails; a logout.
Progress(o) ==
    {p \in {o,
            [o EXCEPT !.inQueue = FALSE, !.loginCb = FALSE],
            [o EXCEPT !.loading = TRUE],
            [o EXCEPT !.loading = FALSE, !.player = TRUE],
            [o EXCEPT !.loading = FALSE],
            [o EXCEPT !.player = FALSE]} :
        /\ p.inQueue # o.inQueue => o.loginCb
        /\ p.loading /\ ~o.loading => ~o.inQueue /\ ~o.player /\ o.sock = "open"
        /\ p.player /\ ~o.player => o.loading}

\* The socket cleanup of WorldSession::Update sets m_Socket to null.
SocketExpired(o) ==
    /\ o.sock # "open"
    /\ o.expire - 1 < 1 \/ o.sock = "kicked" \/ ~o.player

\* Mutant: expireTime does not run down.
UpdateSessionMutant(a) ==
    /\ wpc = "visit" /\ a \in visit
    /\ visit' = visit \ {a}
    /\ \E o \in Progress(obj[sess[a]]) :
          ~SocketExpired(o) /\ obj' = [obj EXCEPT ![sess[a]] = o]
    /\ UNCHANGED <<wpc, stopping, addSessQueue, listVars, confVars, disconnects>>

\* One session of the loop in UpdateSessions, kept...
UpdateSession(a) ==
    /\ wpc = "visit" /\ a \in visit
    /\ visit' = visit \ {a}
    /\ \E o \in Progress(obj[sess[a]]) :
          /\ ~SocketExpired(o)
          /\ obj' = [obj EXCEPT ![sess[a]] =
                       IF o.sock = "open" THEN o ELSE [o EXCEPT !.expire = @ - 1]]
    /\ UNCHANGED <<wpc, stopping, addSessQueue, listVars, confVars, disconnects>>

\* Mutant: the session is not taken out of the queue.
RemoveSessionMutant(a) ==
    /\ wpc = "visit" /\ a \in visit
    /\ visit' = visit \ {a}
    /\ \E o \in Progress(obj[sess[a]]) : SocketExpired(o)
    /\ obj' = [obj EXCEPT ![sess[a]] = Deleted]
    /\ sess' = [sess EXCEPT ![a] = None]
    /\ UNCHANGED <<wpc, stopping, addSessQueue, queue, confVars, disconnects>>

\* ... or removed: RemoveQueuedPlayer is called twice while the session is
\* still in m_sessions, and a disconnect is noted if it was not queued.
RemoveSession(a) ==
    /\ wpc = "visit" /\ a \in visit
    /\ visit' = visit \ {a}
    /\ LET s      == sess[a]
           first  == RemoveQueuedPlayer(s, sess, queue)
           second == RemoveQueuedPlayer(s, sess, first.queue)
       IN  /\ \E o \in Progress(obj[s]) : SocketExpired(o)
           /\ queue' = second.queue
           /\ disconnects' = IF ~first.found /\ Tolerance > 0
                               THEN [disconnects EXCEPT ![a] = now]
                               ELSE disconnects
           /\ obj' = [x \in Sessions |->
                        IF x = s THEN Deleted
                        ELSE IF x \in {first.accept, second.accept}
                          THEN Admit(obj[x], "slot", 0) ELSE obj[x]]
    /\ sess' = [sess EXCEPT ![a] = None]
    /\ UNCHANGED <<wpc, stopping, addSessQueue, confVars>>

EndUpdateSessions ==
    /\ wpc = "visit" /\ visit = {}
    /\ wpc' = IF stopping THEN "stopped" ELSE "idle"
    /\ UNCHANGED <<stopping, visit, addSessQueue, listVars, confVars,
                   disconnects, obj>>

(***************************************************************************)
(* The world thread between updates                                         *)
(***************************************************************************)

Kick(A) == obj' = [s \in Sessions |->
                     IF s \in {sess[a] : a \in A}
                       THEN [obj[s] EXCEPT !.sock = "kicked"] ELSE obj[s]]

\* KickPlayer, KickAllLess(sec): some listed sessions are kicked.
KickSessions(A) ==
    /\ wpc = "idle"
    /\ A # {} /\ \A a \in A : sess[a] # None
    /\ Kick(A)
    /\ UNCHANGED <<worldVars, addSessQueue, listVars, confVars, disconnects>>

\* KickAll when the world stops, and the UpdateSessions(1) that follows it.
KickAll ==
    /\ wpc = "idle"
    /\ queue' = <<>>
    /\ Kick(Accounts)
    /\ wpc' = "add" /\ stopping' = TRUE
    /\ UNCHANGED <<visit, addSessQueue, sess, confVars, disconnects>>

SetPlayerLimit(l) ==
    /\ wpc = "idle" /\ l # limit
    /\ limit' = l
    /\ UNCHANGED <<worldVars, addSessQueue, listVars, now, disconnects, obj>>

Tick ==
    /\ wpc = "idle" /\ now < MaxTime
    /\ now' = now + 1
    /\ UNCHANGED <<worldVars, addSessQueue, listVars, limit, disconnects, obj>>

Stopped == wpc = "stopped" /\ UNCHANGED vars

-----------------------------------------------------------------------------
UpdateSessions ==
    \/ StartUpdateSessions \/ RefuseSession \/ AddSession_ \/ StartVisits
    \/ EndUpdateSessions
    \/ \E a \in Accounts : UpdateSession(a) \/ RemoveSession(a)

Next ==
    \/ UpdateSessions \/ KickAll \/ Tick \/ Stopped
    \/ \E s \in Sessions : LoseSocket(s) \/ \E a \in Accounts : AddSession(s, a)
    \/ \E A \in SUBSET Accounts : KickSessions(A)
    \/ \E l \in Limits : SetPlayerLimit(l)

Spec == Init /\ [][Next]_vars

\* The world loop keeps calling UpdateSessions, and each time the loop over
\* addSessQueue ends: clients connect more slowly than AddSession_ runs.
FairSpec == /\ Spec
            /\ WF_vars(UpdateSessions)
            /\ []<>(wpc \in {"visit", "stopped"})

-----------------------------------------------------------------------------
(***************************************************************************)
(* Properties                                                               *)
(***************************************************************************)

SessionObject ==
    [acct : Accounts \cup {None}, sock : {"open", "closed", "kicked"},
     inQueue : BOOLEAN, loginCb : BOOLEAN, loading : BOOLEAN, player : BOOLEAN,
     expire : 0..ExpireTicks, admitted : {"no", "slot", "gm", "tolerance"},
     lag : 0..MaxTime]

\* The variables have the types of the fields they model.
TypeOK ==
    /\ wpc \in {"idle", "add", "visit", "stopped"}
    /\ stopping \in BOOLEAN
    /\ visit \subseteq Accounts
    /\ addSessQueue \in Seq(Sessions)
    /\ sess \in [Accounts -> Sessions \cup {None}]
    /\ queue \in Seq(Sessions)
    /\ limit \in Limits /\ now \in 0..MaxTime
    /\ disconnects \in [Accounts -> 0..MaxTime \cup {None}]
    /\ obj \in [Sessions -> SessionObject]

\* The lists never point to a deleted session: each session of m_sessions is
\* alive under its account, the queue holds listed sessions once each, and
\* a session waiting in addSessQueue is in neither.
ListsSound ==
    /\ TypeOK
    /\ \A a \in Accounts : sess[a] # None => obj[sess[a]].acct = a
    /\ ToSet(queue) \subseteq Listed(sess)
    /\ Cardinality(ToSet(queue)) = Len(queue)
    /\ \A s \in ToSet(addSessQueue) : obj[s].acct # None /\ s \notin Listed(sess)
    /\ Cardinality(ToSet(addSessQueue)) = Len(addSessQueue)

\* No client plays before the queue let it in: a session that logs a character
\* in was admitted, a queued one has m_inQueue set, and one that is neither
\* queued nor admitted lost its place to KickAll.
NoQueueSkipping ==
    \A s \in Listed(sess) :
        /\ obj[s].loading \/ obj[s].player => obj[s].admitted # "no"
        /\ s \in ToSet(queue) => obj[s].inQueue /\ obj[s].admitted = "no"
        /\ s \notin ToSet(queue) /\ obj[s].admitted = "no"
              => obj[s].sock = "kicked"

\* Sessions admitted to a free slot do not exceed the player limit.
LimitRespected ==
    limit > 0 =>
        Cardinality({s \in Listed(sess) : obj[s].admitted = "slot"}) <= limit

\* While someone waits in the queue no slot is idle.
NoIdleSlot ==
    queue # <<>> => limit > 0 /\ ActiveSessionCount(sess, queue) >= limit

\* Only SetPlayerLimit may leave more sessions than the limit allows, or a slot
\* idle while someone waits: a session that is removed (RemoveQueuedPlayer is
\* called twice) or replaced by a reconnect passes its slot on, to one session.
SlotsKept ==
    [][limit' = limit => /\ LimitRespected => LimitRespected'
                         /\ NoIdleSlot => NoIdleSlot']_vars

\* m_inQueue of a session that left the queue is cleared: its login callback
\* is still to come, or the session is being kicked.
InQueueCleared ==
    \A s \in Listed(sess) :
        obj[s].inQueue /\ s \notin ToSet(queue)
            => obj[s].loginCb \/ obj[s].sock = "kicked"

\* A session whose socket is gone is removed from the world (or replaced).
ClosedSessionsGo ==
    \A a \in Accounts :
        sess[a] # None /\ obj[sess[a]].sock # "open" ~>
            (sess[a] = None \/ obj[sess[a]].sock = "open" \/ wpc = "stopped")

\* worldserver.conf: the tolerance lasts DisconnectToleranceInterval seconds.
ToleranceExpires ==
    \A s \in Listed(sess) :
        obj[s].admitted = "tolerance" => obj[s].lag < Tolerance

=============================================================================
