--------------------------- MODULE SessionPackets ---------------------------
(***************************************************************************)
(* How a WorldSession handles the packets of its client: the network thread *)
(* fills _recvQueue, WorldSession::Update takes packets from its front, in  *)
(* the world thread (WorldSessionFilter) and in the thread of the player's  *)
(* map (MapSessionFilter), which take turns (MapUpdater!WorldExclusion).    *)
(* A packet is handled, dropped or put back according to the status of its  *)
(* opcode and to the player, who logs in, changes maps and logs out while   *)
(* packets are under way.                                                   *)
(*                                                                          *)
(* The client keeps to the protocol: it asks for its characters, logs one   *)
(* in, plays it until it learns of the logout, and starts again.  A packet  *)
(* carries the number of the login it belongs to.                           *)
(***************************************************************************)
EXTENDS Integers, Sequences

CONSTANTS
    Kinds,          \* the opcodes an in-world client sends, see Status
    MaxProcessed,   \* MAX_PROCESSED_PACKETS_IN_SAME_WORLDSESSION_UPDATE
    MaxLogins,      \* bound on logins
    MaxPackets,     \* bound on in-world packets per login
    MaxTeleports    \* bound on teleports to another map

ASSUME PacketsAssumption ==
    /\ Kinds \subseteq {"safe", "unsafe", "inplace", "logout", "cancel"}
    /\ {MaxProcessed, MaxLogins, MaxPackets, MaxTeleports} \subseteq Nat

VARIABLES
    \* the client
    screen,         \* it shows the character list
    login,          \* number of its logins
    count,          \* packets it has sent since the last one
    ackDue,         \* it owes a MSG_MOVE_WORLDPORT_ACK
    told,           \* a SMSG_LOGOUT_COMPLETE is on its way to it
    \* the session
    recvQueue,      \* _recvQueue
    requeue,        \* requeuePackets
    upc,            \* Update: "idle", "loop", "callbacks", "logout"; "gone"
    filter,         \* "world" or "map"
    processed,      \* processedPackets
    player,         \* _player: "none", "in" (IsInWorld), "out"
    who,            \* the login that loaded _player or the one before
    loading,        \* m_playerLoading
    query,          \* _charLoginCallback: "none", "pending", "ready"
    recentlyLogout, \* m_playerRecentlyLogout
    logoutAt,       \* _logoutTime is set
    socket,         \* "open", "closed"; "none" when m_Socket is null
    teleports,
    last            \* what was done to which packet last

clientVars == <<screen, login, count, ackDue, told>>
loopVars   == <<upc, filter, processed, requeue>>
playerVars == <<player, who, loading, query, recentlyLogout, logoutAt>>
vars == <<clientVars, recvQueue, loopVars, playerVars, socket, teleports, last>>

-----------------------------------------------------------------------------
(***************************************************************************)
(* The opcode table                                                         *)
(***************************************************************************)

Status(k) == CASE k \in {"safe", "unsafe", "inplace", "logout"} -> "LOGGEDIN"
               [] k = "cancel" -> "LOGGEDIN_OR_RECENTLY_LOGGOUT"
               [] k = "ack" -> "TRANSFER"
               [] k \in {"enum", "login"} -> "AUTHED"

ProcessingPlace(k) == CASE k = "inplace" -> "INPLACE"
                        [] k = "safe" -> "THREADSAFE"
                        [] OTHER -> "THREADUNSAFE"

\* Mutant: no packet of an in-world player is left to the map.
WorldSessionFilterMutant(k) == ProcessingPlace(k) # "THREADSAFE"

\* The filters.
MapSessionFilter(k) ==
    \/ ProcessingPlace(k) = "INPLACE"
    \/ ProcessingPlace(k) = "THREADSAFE" /\ player = "in"

WorldSessionFilter(k) ==
    \/ ProcessingPlace(k) \in {"INPLACE", "THREADUNSAFE"}
    \/ player # "in"

Process(k) == IF filter = "world" THEN WorldSessionFilter(k)
                                  ELSE MapSessionFilter(k)

Packet(k, e, n) == [kind |-> k, login |-> e, num |-> n]

Nothing == [kind |-> "", login |-> 0, num |-> 0, what |-> ""]

Init ==
    /\ screen = TRUE /\ login = 0 /\ count = 0 /\ ackDue = FALSE
    /\ told = FALSE
    /\ recvQueue = <<>>
    /\ requeue = <<>> /\ upc = "idle" /\ filter = "world" /\ processed = 0
    /\ player = "none" /\ who = 0 /\ loading = FALSE /\ query = "none"
    /\ recentlyLogout = FALSE /\ logoutAt = FALSE
    /\ socket = "open" /\ teleports = 0
    /\ last = Nothing

-----------------------------------------------------------------------------
(***************************************************************************)
(* The client (external), and the network thread that queues its packets    *)
(***************************************************************************)

\* WorldSession::QueuePacket.
QueuePackets(s) == recvQueue' = recvQueue \o s

\* CMSG_CHAR_ENUM and CMSG_PLAYER_LOGIN.
ClientLogin ==
    /\ socket = "open" /\ screen /\ login < MaxLogins
    /\ login' = login + 1 /\ count' = 0 /\ screen' = FALSE
    /\ QueuePackets(<<Packet("enum", login + 1, 0), Packet("login", login + 1, 0)>>)
    /\ UNCHANGED <<ackDue, told, loopVars, playerVars, socket, teleports, last>>

\* A packet of the game, from the moment the login was sent.
ClientPlays(k) ==
    /\ socket = "open" /\ ~screen /\ count < MaxPackets
    /\ count' = count + 1
    /\ QueuePackets(<<Packet(k, login, count + 1)>>)
    /\ UNCHANGED <<screen, login, ackDue, told, loopVars, playerVars, socket,
                   teleports, last>>

ClientAck ==
    /\ socket = "open" /\ ackDue
    /\ ackDue' = FALSE
    /\ QueuePackets(<<Packet("ack", login, 0)>>)
    /\ UNCHANGED <<screen, login, count, told, loopVars, playerVars, socket,
                   teleports, last>>

\* The client learns that it has been logged out.
ClientLoggedOut ==
    /\ told
    /\ told' = FALSE /\ screen' = TRUE /\ ackDue' = FALSE
    /\ UNCHANGED <<login, count, recvQueue, loopVars, playerVars, socket,
                   teleports, last>>

\* The socket is closed: by the client, the idle timer or a kick.
SocketClosed ==
    /\ socket = "open"
    /\ socket' = "closed"
    /\ UNCHANGED <<clientVars, recvQueue, loopVars, playerVars, teleports, last>>

\* The database answers the login query.  External.
LoginQueryReady ==
    /\ query = "pending"
    /\ query' = "ready"
    /\ UNCHANGED <<clientVars, recvQueue, loopVars, player, who, loading,
                   recentlyLogout, logoutAt, socket, teleports, last>>

-----------------------------------------------------------------------------
(***************************************************************************)
(* WorldSession::Update: the loop over the packets                          *)
(***************************************************************************)

\* The world thread updates every session, a map those of its players.
StartUpdate(f) ==
    /\ upc = "idle"
    /\ f = "map" => player = "in"
    /\ filter' = f /\ processed' = 0 /\ upc' = "loop"
    /\ UNCHANGED <<requeue, clientVars, recvQueue, playerVars, socket,
                   teleports, last>>

\* The condition of the loop, after the check at the end of its body.
More == /\ upc = "loop" /\ socket # "none"
        /\ recvQueue # <<>> /\ Process(Head(recvQueue).kind)
        /\ processed <= MaxProcessed

\* The two answers of the switch over opHandle->Status.
Keeps(k) == Status(k) = "LOGGEDIN" /\ player = "none" /\ ~recentlyLogout

Accepts(k) == \/ Status(k) = "AUTHED"
              \/ Status(k) = "LOGGEDIN" /\ player = "in"
              \/ /\ Status(k) = "LOGGEDIN_OR_RECENTLY_LOGGOUT"
                 /\ player # "none" \/ recentlyLogout
              \/ Status(k) = "TRANSFER" /\ player = "out"

\* One round of the loop: the packet is taken and the count goes up.
Take(what) ==
    /\ recvQueue' = Tail(recvQueue)
    /\ processed' = processed + 1
    /\ last' = [kind  |-> Head(recvQueue).kind, login |-> Head(recvQueue).login,
                num   |-> Head(recvQueue).num,  what  |-> what]
    /\ UNCHANGED <<upc, filter>>

\* Mutant: _recvQueue.add.
RequeueMutant ==
    /\ More
    /\ Keeps(Head(recvQueue).kind)
    /\ recvQueue' = Append(Tail(recvQueue), Head(recvQueue))
    /\ processed' = processed + 1
    /\ UNCHANGED <<upc, filter, requeue, clientVars, playerVars, socket,
                   teleports, last>>

\* STATUS_LOGGEDIN with no player yet: the packet is kept for later.
Requeue ==
    /\ More
    /\ Keeps(Head(recvQueue).kind)
    /\ requeue' = Append(requeue, Head(recvQueue))
    /\ Take("kept")
    /\ UNCHANGED <<clientVars, playerVars, socket, teleports>>

\* The packet is not for the player's state and is deleted.
Drop ==
    /\ More
    /\ ~Keeps(Head(recvQueue).kind) /\ ~Accepts(Head(recvQueue).kind)
    /\ Take("dropped")
    /\ UNCHANGED <<requeue, clientVars, playerVars, socket, teleports>>

\* AntiDOS.EvaluateOpcode refuses the packet and kicks the client; the loop
\* goes on with what is queued.
RefuseFlood ==
    /\ More
    /\ Accepts(Head(recvQueue).kind)
    /\ Take("refused")
    /\ socket' = "closed"
    /\ recentlyLogout' = (recentlyLogout /\ Head(recvQueue).kind # "enum")
    /\ UNCHANGED <<requeue, clientVars, player, who, loading, query, logoutAt,
                   teleports>>

\* The handler of an in-world packet that is not about the logout.
HandlePacket ==
    /\ More
    /\ Head(recvQueue).kind \in {"safe", "unsafe", "inplace"}
    /\ Accepts(Head(recvQueue).kind)
    /\ Take("handled")
    /\ UNCHANGED <<requeue, clientVars, playerVars, socket, teleports>>

\* Mutant: m_playerRecentlyLogout is not set.
LogoutPlayerMutant ==
    /\ player' = "none"
    /\ logoutAt' = FALSE
    /\ told' = (told \/ player # "none")
    /\ UNCHANGED <<who, loading, query, recentlyLogout, screen, login, count, ackDue>>

\* LogoutPlayer: pending transfers are finished, the player is saved and
\* deleted and the client told (SMSG_LOGOUT_COMPLETE).
LogoutPlayer ==
    /\ player' = "none"
    /\ recentlyLogout' = TRUE /\ logoutAt' = FALSE
    /\ told' = (told \/ player # "none")
    /\ UNCHANGED <<who, loading, query, screen, login, count, ackDue>>

\* A far teleport: the player leaves the world until the client has loaded the
\* new map and acknowledges it.
SendAway ==
    /\ teleports < MaxTeleports
    /\ teleports' = teleports + 1
    /\ player' = "out" /\ ackDue' = TRUE
    /\ UNCHANGED <<screen, login, count, told>>

\* HandleLogoutRequestOpcode: refused, instant, or in 20 seconds.
HandleLogoutRequest ==
    /\ More
    /\ Head(recvQueue).kind = "logout" /\ Accepts("logout")
    /\ Take("handled")
    /\ \/ LogoutPlayer
       \/ /\ logoutAt' \in BOOLEAN
          /\ UNCHANGED <<player, who, loading, query, recentlyLogout, clientVars>>
    /\ UNCHANGED <<requeue, socket, teleports>>

\* HandleLogoutCancelOpcode.
HandleLogoutCancel ==
    /\ More
    /\ Head(recvQueue).kind = "cancel" /\ Accepts("cancel")
    /\ Take("handled")
    /\ logoutAt' = IF player = "none" THEN logoutAt ELSE FALSE
    /\ UNCHANGED <<requeue, player, who, loading, query, recentlyLogout,
                   clientVars, socket, teleports>>

\* HandleMoveWorldportAckOpcode: the player enters the new map, is sent home
\* because the map takes nobody in, or is logged out at a bad position.
HandleMoveWorldportAck ==
    /\ More
    /\ Head(recvQueue).kind = "ack" /\ Accepts("ack")
    /\ Take("handled")
    /\ \/ /\ player' = "in"
          /\ UNCHANGED <<who, loading, query, recentlyLogout, logoutAt,
                         clientVars, teleports>>
       \/ /\ SendAway
          /\ UNCHANGED <<who, loading, query, recentlyLogout, logoutAt>>
       \/ LogoutPlayer /\ UNCHANGED teleports
    /\ UNCHANGED <<requeue, socket>>

\* Mutant: CMSG_CHAR_ENUM leaves m_playerRecentlyLogout alone.
HandleCharEnumMutant ==
    /\ More
    /\ Head(recvQueue).kind = "enum"
    /\ Take("handled")
    /\ UNCHANGED <<requeue, clientVars, playerVars, socket, teleports>>

\* STATUS_AUTHED, CMSG_CHAR_ENUM.
HandleCharEnum ==
    /\ More
    /\ Head(recvQueue).kind = "enum"
    /\ Take("handled")
    /\ recentlyLogout' = FALSE
    /\ UNCHANGED <<requeue, clientVars, player, who, loading, query, logoutAt,
                   socket, teleports>>

\* HandlePlayerLoginOpcode; ignored while a player is loading or there is one.
HandlePlayerLogin ==
    /\ More
    /\ Head(recvQueue).kind = "login"
    /\ Take("handled")
    /\ IF loading \/ player # "none"
         THEN UNCHANGED <<loading, query, who>>
         ELSE loading' = TRUE /\ query' = "pending" /\ who' = Head(recvQueue).login
    /\ UNCHANGED <<requeue, clientVars, player, recentlyLogout, logoutAt,
                   socket, teleports>>

-----------------------------------------------------------------------------
(***************************************************************************)
(* WorldSession::Update: the rest                                           *)
(***************************************************************************)

\* The loop ends and what was kept goes back to the front of the queue.
Readd ==
    /\ upc = "loop" /\ ~More
    /\ recvQueue' = requeue \o recvQueue
    /\ requeue' = <<>>
    /\ upc' = "callbacks"
    /\ UNCHANGED <<filter, processed, clientVars, playerVars, socket,
                   teleports, last>>

\* A delayed teleport, or one that a handler, a callback or the map starts.
TeleportTo ==
    /\ upc # "gone" /\ player = "in"
    /\ SendAway
    /\ UNCHANGED <<recvQueue, loopVars, who, loading, query, recentlyLogout,
                   logoutAt, socket, last>>

\* ProcessQueryCallbacks, up to HandlePlayerLogin: the player is loaded and
\* put into the world, or the client is kicked.
ProcessQueryCallbacks ==
    /\ upc = "callbacks"
    /\ upc' = IF filter = "world" THEN "logout" ELSE "idle"
    /\ IF query # "ready"
         THEN UNCHANGED <<playerVars, socket>>
         ELSE /\ query' = "none" /\ loading' = FALSE
              /\ \/ player' = "in" /\ UNCHANGED socket
                 \/ /\ socket' = IF socket = "open" THEN "closed" ELSE socket
                    /\ UNCHANGED player
              /\ UNCHANGED <<who, recentlyLogout, logoutAt>>
    /\ UNCHANGED <<clientVars, recvQueue, filter, processed, requeue,
                   teleports, last>>

\* ProcessLogout: the 20 seconds are over.
LogoutNow ==
    /\ upc = "logout" /\ logoutAt /\ ~loading
    /\ LogoutPlayer
    /\ UNCHANGED <<recvQueue, loopVars, socket, teleports, last>>

\* The socket cleanup at the end of Update: the session stays, or it is
\* removed, and its destructor logs the player out.
EndUpdate ==
    /\ upc = "logout"
    /\ \/ /\ upc' = "idle" /\ (socket = "open" \/ player # "none")
          /\ UNCHANGED <<clientVars, playerVars, socket>>
       \/ /\ socket = "closed"
          /\ socket' = "none" /\ upc' = "gone"
          /\ IF player = "none" THEN UNCHANGED <<clientVars, playerVars>>
                                ELSE LogoutPlayer
    /\ UNCHANGED <<recvQueue, filter, processed, requeue, teleports, last>>

Gone == upc = "gone" /\ UNCHANGED vars

-----------------------------------------------------------------------------
Handle == \/ Requeue \/ Drop \/ RefuseFlood \/ HandlePacket \/ HandleLogoutRequest
          \/ HandleLogoutCancel \/ HandleMoveWorldportAck \/ HandleCharEnum
          \/ HandlePlayerLogin

Work == Handle \/ Readd \/ ProcessQueryCallbacks \/ LogoutNow \/ EndUpdate

Next ==
    \/ ClientLogin \/ ClientAck \/ ClientLoggedOut
    \/ SocketClosed \/ LoginQueryReady
    \/ \E k \in Kinds : ClientPlays(k)
    \/ \E f \in {"world", "map"} : StartUpdate(f)
    \/ Work \/ TeleportTo \/ Gone

Spec == Init /\ [][Next]_vars

\* The world loop and the player's map update the session again and again,
\* an update under way is finished, and the login query is answered
\* (DatabasePool!CallbacksCalled).
FairSpec == /\ Spec
            /\ WF_vars(Work)
            /\ SF_vars(StartUpdate("world")) /\ SF_vars(StartUpdate("map"))
            /\ WF_vars(LoginQueryReady)

-----------------------------------------------------------------------------
(***************************************************************************)
(* Properties                                                               *)
(***************************************************************************)

AllKinds == Kinds \cup {"enum", "login", "ack"}
PacketSet == [kind : AllKinds, login : 1..MaxLogins, num : 0..MaxPackets]

\* The variables have the types of the fields they model.
TypeOK ==
    /\ screen \in BOOLEAN /\ login \in 0..MaxLogins /\ count \in 0..MaxPackets
    /\ ackDue \in BOOLEAN /\ told \in BOOLEAN
    /\ recvQueue \in Seq(PacketSet) /\ requeue \in Seq(PacketSet)
    /\ upc \in {"idle", "loop", "callbacks", "logout", "gone"}
    /\ filter \in {"world", "map"} /\ processed \in 0..(MaxProcessed + 1)
    /\ player \in {"none", "in", "out"} /\ who \in 0..MaxLogins
    /\ loading \in BOOLEAN /\ query \in {"none", "pending", "ready"}
    /\ recentlyLogout \in BOOLEAN /\ logoutAt \in BOOLEAN
    /\ socket \in {"open", "closed", "none"}
    /\ teleports \in 0..MaxTeleports

\* A packet sent while one character was played is never handled for another:
\* not across a logout, a quick second login or a transfer.
NoStalePacket ==
    [][last' # last /\ last'.what = "handled" /\ Status(last'.kind) # "AUTHED"
          /\ player # "none"
        => last'.login = who]_vars

\* What is to be handled yet, in the order in which it will be.
Line == requeue \o recvQueue

\* In-world packets are handled in the order they were sent, though some are
\* put back while the player loads and two threads take turns at the queue.
InOrder ==
    /\ TypeOK
    /\ \A i, j \in DOMAIN Line :
          i < j /\ {Status(Line[i].kind), Status(Line[j].kind)} = {"LOGGEDIN"}
          => \/ Line[i].login < Line[j].login
             \/ Line[i].login = Line[j].login /\ Line[i].num < Line[j].num

\* An eager in-world packet waits for its player: it is dropped only after the
\* player has logged out again or while the player changes maps.
EagerPacketsKept ==
    [][last' # last /\ last'.what = "dropped" /\ Status(last'.kind) = "LOGGEDIN"
        => player = "out" \/ (last'.login = who /\ ~loading)]_vars

\* The loop never ends up with everything it put back in front of it: every
\* packet of a connection that stays up is handled or dropped in the end.
PacketsProcessed ==
    (recvQueue # <<>>) ~> (recvQueue = <<>> \/ socket # "open")

=============================================================================
