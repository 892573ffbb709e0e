----------------------------- MODULE WorldSocket -----------------------------
(***************************************************************************)
(* One connection of a client: Socket and WorldSocket, the network thread   *)
(* that runs their handlers one at a time, the database that answers their  *)
(* queries, the WorldSession the socket shares with the world thread, and   *)
(* the client.                                                              *)
(*                                                                          *)
(* The network thread gives up control only between handlers; within one it *)
(* is split where another thread can tell: at _worldSessionLock, between    *)
(* the two halves of CloseSocket and around every write.  _bufferQueue is   *)
(* the queue FifoQueue specifies and MPSCQueue implements: it may be found  *)
(* shorter than it is.                                                      *)
(***************************************************************************)
EXTENDS Integers, Sequences, FiniteSets, SequencesExt

CONSTANTS
    MaxIn,          \* bound on packets of the client after the login
    MaxOut,         \* bound on packets of the world thread
    MaxBlocks       \* bound on how often the send buffer fills up

ASSUME SocketAssumption ==
    MaxIn \in Nat /\ MaxOut \in Nat /\ MaxBlocks \in Nat

VARIABLES
    \* the client and the wire
    gone,           \* the client has left
    out,            \* what the client has sent, in order
    wire,           \* what of it the server has not read
    rcvd,           \* what the client has received
    full,           \* the send buffer of the connection is full
    blocks,         \* how often it has been
    \* the socket
    npc,            \* control of the network thread
    where,          \* "new" (_newSockets), "listed" (_sockets), "removed"
    query,          \* _queryProcessor: "none", "ip", "ip!", "auth", "auth!"
    reading,        \* an async_read_some is outstanding
    readBuffer,
    writeQueue,     \* _writeQueue, a sequence of buffers
    bufferQueue,    \* _bufferQueue
    writing,        \* _isWritingAsync
    closed,         \* _closed
    closing,        \* _closing
    authed,         \* _authed
    lock,           \* holder of _worldSessionLock
    worldSession,   \* _worldSession is not null
    \* the session and the world thread
    wpc,            \* "idle", "close" (in CloseSocket), "delete" (likewise, ~WorldSession)
    sess,           \* "none", "alive", "deleted"
    recvQueue,      \* every packet put into _recvQueue
    sent            \* every packet put into _bufferQueue

clientVars  == <<gone, out, wire>>
wireVars    == <<rcvd, full, blocks>>
readVars    == <<reading, readBuffer>>
writeVars   == <<writeQueue, writing>>
stateVars   == <<closed, closing>>
sessionVars == <<worldSession, authed>>
worldVars   == <<wpc, sess>>
vars == <<clientVars, wireVars, npc, where, query, readVars, writeVars,
          bufferQueue, sent, stateVars, lock, sessionVars, worldVars, recvQueue>>

IsOpen == ~closed /\ ~closing

Inputs == {"data", "ping", "alive"}

Init ==
    /\ gone = FALSE /\ out = <<>> /\ wire = <<>>
    /\ rcvd = <<>> /\ full = FALSE /\ blocks = 0
    /\ npc = "idle" /\ where = "new" /\ query = "ip"
    /\ reading = FALSE /\ readBuffer = <<>>
    /\ writeQueue = <<>> /\ writing = FALSE
    /\ bufferQueue = <<>> /\ sent = <<>>
    /\ closed = FALSE /\ closing = FALSE
    /\ lock = "free" /\ worldSession = FALSE /\ authed = FALSE
    /\ wpc = "idle" /\ sess = "none" /\ recvQueue = <<>>

-----------------------------------------------------------------------------
(***************************************************************************)
(* The client: it answers the challenge, plays once it is let in, and may   *)
(* leave at any time.  External.                                            *)
(***************************************************************************)

ClientSend(x) ==
    /\ ~gone
    /\ IF x = "auth" THEN "chal" \in ToSet(rcvd) /\ out = <<>>
                     ELSE "ok" \in ToSet(rcvd) /\ Len(out) <= MaxIn
    /\ LET p == IF x = "auth" THEN <<x, 0>> ELSE <<x, Len(out)>>
       IN  out' = Append(out, p) /\ wire' = Append(wire, p)
    /\ UNCHANGED <<gone, wireVars, npc, where, query, readVars, writeVars,
                   bufferQueue, sent, stateVars, lock, sessionVars, worldVars,
                   recvQueue>>

ClientLeave ==
    /\ ~gone
    /\ gone' = TRUE
    /\ UNCHANGED <<out, wire, wireVars, npc, where, query, readVars, writeVars,
                   bufferQueue, sent, stateVars, lock, sessionVars, worldVars,
                   recvQueue>>

ClientReads ==
    /\ full /\ ~gone
    /\ full' = FALSE
    /\ UNCHANGED <<clientVars, rcvd, blocks, npc, where, query, readVars,
                   writeVars, bufferQueue, sent, stateVars, lock, sessionVars,
                   worldVars, recvQueue>>

\* The database answers.  External.
QueryAnswered ==
    /\ query \in {"ip", "auth"}
    /\ query' = IF query = "ip" THEN "ip!" ELSE "auth!"
    /\ UNCHANGED <<clientVars, wireVars, npc, where, readVars, writeVars,
                   bufferQueue, sent, stateVars, lock, sessionVars, worldVars,
                   recvQueue>>

-----------------------------------------------------------------------------
(***************************************************************************)
(* Socket                                                                   *)
(***************************************************************************)

\* SendPacket, by any thread.
SendPacket(x) ==
    /\ bufferQueue' = IF IsOpen THEN Append(bufferQueue, x) ELSE bufferQueue
    /\ sent' = IF IsOpen THEN Append(sent, x) ELSE sent

\* The first half of CloseSocket in the network thread: _closed.exchange(true).
NetClose ==
    /\ closed' = TRUE
    /\ npc' = IF closed THEN "idle" ELSE "onclose"

\* OnClose, the second half of CloseSocket.
NetOnClose ==
    /\ npc = "onclose" /\ lock = "free"
    /\ worldSession' = FALSE
    /\ npc' = "idle"
    /\ UNCHANGED <<clientVars, wireVars, where, query, readVars, writeVars,
                   bufferQueue, sent, stateVars, lock, authed, worldVars,
                   recvQueue>>

\* Where the buffers may end into which Update packs n packets: that depends
\* on the sizes of the packets.
Ends(n) ==
    {e \in UNION {[1..m -> 1..n] : m \in 0..n} :
        /\ n > 0 => e # <<>> /\ e[Len(e)] = n
        /\ \A i \in 2..Len(e) : e[i - 1] < e[i]}

\* The packets of d in buffers that end at e.
Pack(d, e) ==
    [i \in 1..Len(e) |-> SubSeq(d, IF i = 1 THEN 1 ELSE e[i - 1] + 1, e[i])]

\* The timer: NetworkThread::Update with AddNewSockets, then
\* WorldSocket::Update up to the first write.
NetUpdate ==
    /\ npc = "idle" /\ where # "removed" /\ ~closed
    /\ \E n \in 0..Len(bufferQueue) : \E e \in Ends(n) :
          /\ writeQueue' = writeQueue \o Pack(SubSeq(bufferQueue, 1, n), e)
          /\ bufferQueue' = SubSeq(bufferQueue, n + 1, Len(bufferQueue))
    /\ where' = "listed"
    /\ npc' = IF writing \/ (writeQueue' = <<>> /\ ~closing) THEN "queries"
                                                             ELSE "flush"
    /\ UNCHANGED <<clientVars, wireVars, query, readVars, writing, sent,
                   stateVars, lock, sessionVars, worldVars, recvQueue>>

\* The timer, for a socket that is closed: it leaves _sockets, and what is
\* queued is never written.
NetRemove ==
    /\ npc = "idle" /\ where # "removed" /\ closed
    /\ where' = "removed"
    /\ UNCHANGED <<clientVars, wireVars, npc, query, readVars, writeVars,
                   bufferQueue, sent, stateVars, lock, sessionVars, worldVars,
                   recvQueue>>

\* WriteHandlerWrapper: the socket has become writable.
WriteHandler ==
    /\ npc = "idle" /\ writing /\ (~full \/ gone \/ closed)
    /\ writing' = FALSE
    /\ npc' = "write"
    /\ UNCHANGED <<clientVars, wireVars, where, query, readVars, writeQueue,
                   bufferQueue, sent, stateVars, lock, sessionVars, worldVars,
                   recvQueue>>

\* Where the network thread goes on when HandleQueue returns r: Update calls
\* it in a loop, the write handler once.
AfterHandleQueue(r) ==
    IF npc = "write" THEN "idle" ELSE IF npc = "flush" /\ r THEN "flush" ELSE "queries"

\* _writeQueue.pop(), and CloseSocket if that was the last buffer of a closing
\* socket; r is what HandleQueue returns if more is queued.
Pop(r) ==
    /\ writeQueue' = Tail(writeQueue)
    /\ IF closing /\ Len(writeQueue) = 1
         THEN NetClose
         ELSE /\ npc' = AfterHandleQueue(r /\ Tail(writeQueue) # <<>>)
              /\ UNCHANGED closed

\* HandleQueue with nothing to write.
HandleEmptyQueue ==
    /\ npc \in {"flush", "write"} /\ writeQueue = <<>>
    /\ npc' = AfterHandleQueue(FALSE)
    /\ UNCHANGED <<clientVars, wireVars, where, query, readVars, writeVars,
                   bufferQueue, sent, stateVars, lock, sessionVars, worldVars,
                   recvQueue>>

\* HandleQueue: the buffer is written.
WriteAll ==
    /\ npc \in {"flush", "write"} /\ writeQueue # <<>>
    /\ ~gone /\ ~closed /\ ~full
    /\ rcvd' = rcvd \o Head(writeQueue)
    /\ Pop(TRUE)
    /\ UNCHANGED <<clientVars, full, blocks, where, query, readVars, writing,
                   bufferQueue, sent, closing, lock, sessionVars, worldVars,
                   recvQueue>>

\* Mutant: the buffer is not shortened by what was written.
WriteSomeMutant ==
    /\ npc \in {"flush", "write"} /\ writeQueue # <<>>
    /\ ~gone /\ ~closed /\ ~full /\ blocks < MaxBlocks
    /\ \E k \in 0..Len(Head(writeQueue)) - 1 :
          rcvd' = rcvd \o SubSeq(Head(writeQueue), 1, k)
    /\ full' = TRUE /\ blocks' = blocks + 1
    /\ writing' = TRUE
    /\ npc' = AfterHandleQueue(FALSE)
    /\ UNCHANGED <<clientVars, where, query, readVars, writeQueue, bufferQueue,
                   sent, stateVars, lock, sessionVars, worldVars, recvQueue>>

\* HandleQueue: only the first k packets of the buffer, or a part of one,
\* fit into the send buffer of the connection, which is full now; with k = 0
\* also would_block, when an earlier write had filled it to the brim.
WriteSome ==
    /\ npc \in {"flush", "write"} /\ writeQueue # <<>>
    /\ ~gone /\ ~closed /\ ~full /\ blocks < MaxBlocks
    /\ \E k \in 0..Len(Head(writeQueue)) - 1 :
          LET b == Head(writeQueue)
          IN  /\ rcvd' = rcvd \o SubSeq(b, 1, k)
              /\ writeQueue' = <<SubSeq(b, k + 1, Len(b))>> \o Tail(writeQueue)
    /\ full' = TRUE /\ blocks' = blocks + 1
    /\ writing' = TRUE
    /\ npc' = AfterHandleQueue(FALSE)
    /\ UNCHANGED <<clientVars, where, query, readVars, bufferQueue, sent,
                   stateVars, lock, sessionVars, worldVars, recvQueue>>

\* HandleQueue: the client has left or the socket is shut down; the write
\* fails, or its bytes go nowhere.
WriteFails ==
    /\ npc \in {"flush", "write"} /\ writeQueue # <<>>
    /\ gone \/ closed
    /\ \E r \in BOOLEAN : Pop(r)
    /\ UNCHANGED <<clientVars, wireVars, where, query, readVars, writing,
                   bufferQueue, sent, closing, lock, sessionVars, worldVars,
                   recvQueue>>

-----------------------------------------------------------------------------
(***************************************************************************)
(* WorldSocket: the queries                                                 *)
(***************************************************************************)

\* ProcessReadyQueries with no answer.
NoQueryReady ==
    /\ npc = "queries" /\ query \notin {"ip!", "auth!"}
    /\ npc' = "idle"
    /\ UNCHANGED <<clientVars, wireVars, where, query, readVars, writeVars,
                   bufferQueue, sent, stateVars, lock, sessionVars, worldVars,
                   recvQueue>>

\* Mutant: CloseSocket instead of DelayedCloseSocket.
RefuseAtOnce ==
    /\ npc = "queries" /\ query \in {"ip!", "auth!"}
    /\ query' = "none"
    /\ SendPacket("err")
    /\ NetClose
    /\ UNCHANGED <<clientVars, wireVars, where, readVars, writeVars, closing,
                   lock, sessionVars, worldVars, recvQueue>>

\* Mutant: the socket is marked before the response is sent.
RefuseMutant ==
    /\ npc = "queries" /\ query \in {"ip!", "auth!"}
    /\ query' = "none"
    /\ closing' = TRUE
    /\ npc' = "idle"
    /\ UNCHANGED <<clientVars, wireVars, where, readVars, writeVars,
                   bufferQueue, sent, closed, lock, sessionVars, worldVars,
                   recvQueue>>

\* CheckIpCallback for a banned address, and HandleAuthSessionCallback for a
\* client that is refused: SendAuthResponseError, DelayedCloseSocket.
Refuse ==
    /\ npc = "queries" /\ query \in {"ip!", "auth!"}
    /\ query' = "none"
    /\ SendPacket("err")
    /\ closing' = TRUE
    /\ npc' = "idle"
    /\ UNCHANGED <<clientVars, wireVars, where, readVars, writeVars, closed,
                   lock, sessionVars, worldVars, recvQueue>>

\* CheckIpCallback otherwise.
CheckIp ==
    /\ npc = "queries" /\ query = "ip!"
    /\ query' = "none"
    /\ reading' = IsOpen
    /\ SendPacket("chal")
    /\ npc' = "idle"
    /\ UNCHANGED <<clientVars, wireVars, where, readBuffer, writeVars,
                   stateVars, lock, sessionVars, worldVars, recvQueue>>

\* Mutant: _worldSession is not set.
AcceptMutant ==
    /\ npc = "queries" /\ query = "auth!"
    /\ query' = "none"
    /\ authed' = TRUE
    /\ sess' = "alive"
    /\ npc' = "rearm"
    /\ UNCHANGED <<clientVars, wireVars, where, readVars, writeVars,
                   bufferQueue, sent, stateVars, lock, worldSession, wpc,
                   recvQueue>>

\* HandleAuthSessionCallback for a client that is let in, up to AddSession.
Accept ==
    /\ npc = "queries" /\ query = "auth!"
    /\ query' = "none"
    /\ authed' = TRUE /\ worldSession' = TRUE
    /\ sess' = "alive"
    /\ npc' = "rearm"
    /\ UNCHANGED <<clientVars, wireVars, where, readVars, writeVars,
                   bufferQueue, sent, stateVars, lock, wpc, recvQueue>>

-----------------------------------------------------------------------------
(***************************************************************************)
(* WorldSocket: reading                                                     *)
(***************************************************************************)

\* AsyncRead, at the end of ReadHandler and of HandleAuthSessionCallback.
AsyncRead ==
    /\ npc = "rearm"
    /\ reading' = IsOpen
    /\ npc' = "idle"
    /\ UNCHANGED <<clientVars, wireVars, where, query, readBuffer, writeVars,
                   bufferQueue, sent, stateVars, lock, sessionVars, worldVars,
                   recvQueue>>

\* ReadHandlerInternal with data: some packets are complete.
ReadHandler ==
    /\ npc = "idle" /\ reading /\ wire # <<>>
    /\ reading' = FALSE
    /\ \E n \in 1..Len(wire) :
          /\ readBuffer' = readBuffer \o SubSeq(wire, 1, n)
          /\ wire' = SubSeq(wire, n + 1, Len(wire))
    /\ npc' = IF IsOpen THEN "read" ELSE "idle"
    /\ UNCHANGED <<gone, out, wireVars, where, query, writeVars, bufferQueue,
                   sent, stateVars, lock, sessionVars, worldVars, recvQueue>>

\* ReadHandlerInternal with an error.
ReadError ==
    /\ npc = "idle" /\ reading /\ gone
    /\ reading' = FALSE
    /\ NetClose
    /\ UNCHANGED <<clientVars, wireVars, where, query, readBuffer, writeVars,
                   bufferQueue, sent, closing, lock, sessionVars, worldVars,
                   recvQueue>>

\* Mutant: no new read is started.
ReadDoneMutant ==
    /\ npc = "read" /\ readBuffer = <<>>
    /\ npc' = "idle"
    /\ UNCHANGED <<clientVars, wireVars, where, query, readVars, writeVars,
                   bufferQueue, sent, stateVars, lock, sessionVars, worldVars,
                   recvQueue>>

\* The loop of ReadHandler ends.
ReadDone ==
    /\ npc = "read" /\ readBuffer = <<>>
    /\ npc' = "rearm"
    /\ UNCHANGED <<clientVars, wireVars, where, query, readVars, writeVars,
                   bufferQueue, sent, stateVars, lock, sessionVars, worldVars,
                   recvQueue>>

NextPacket == Head(readBuffer)

\* The top of ReadDataHandler while CONFIG_DEBUG_LOG_ALL_PACKETS, which can be
\* reloaded at any time, is on: _worldSession is tested without the lock...
LogPacket ==
    /\ npc = "read" /\ readBuffer # <<>>
    /\ npc' = IF worldSession THEN "dump" ELSE "packet"
    /\ UNCHANGED <<clientVars, wireVars, where, query, readVars, writeVars,
                   bufferQueue, sent, stateVars, lock, sessionVars, worldVars,
                   recvQueue>>

\* ... and its GetPlayerInfo is called.
DumpPacket ==
    /\ npc = "dump"
    /\ npc' = "packet"
    /\ UNCHANGED <<clientVars, wireVars, where, query, readVars, writeVars,
                   bufferQueue, sent, stateVars, lock, sessionVars, worldVars,
                   recvQueue>>

AtPacket == npc = "packet" \/ (npc = "read" /\ readBuffer # <<>>)

\* ReadDataHandler, CMSG_AUTH_SESSION: the query is sent and no read started
\* (WaitingForQuery), or it is a duplicate and the socket is closed.
HandleAuthSession ==
    /\ AtPacket /\ NextPacket[1] = "auth"
    /\ readBuffer' = Tail(readBuffer)
    /\ IF authed THEN NetClose /\ UNCHANGED query
                 ELSE query' = "auth" /\ npc' = "idle" /\ UNCHANGED closed
    /\ UNCHANGED <<clientVars, wireVars, where, reading, writeVars,
                   bufferQueue, sent, closing, lock, sessionVars, worldVars,
                   recvQueue>>

\* Mutant: the lock is not taken.
LockSessionMutant ==
    /\ AtPacket /\ NextPacket[1] # "auth"
    /\ npc' = IF worldSession THEN "session" ELSE "nosession"
    /\ UNCHANGED <<clientVars, wireVars, where, query, readVars, writeVars,
                   bufferQueue, sent, stateVars, lock, sessionVars, worldVars,
                   recvQueue>>

\* ReadDataHandler otherwise: _worldSessionLock is taken and _worldSession
\* looked at.
LockSession ==
    /\ AtPacket /\ NextPacket[1] # "auth" /\ lock = "free"
    /\ lock' = "net"
    /\ npc' = IF worldSession THEN "session" ELSE "nosession"
    /\ UNCHANGED <<clientVars, wireVars, where, query, readVars, writeVars,
                   bufferQueue, sent, stateVars, sessionVars, worldVars,
                   recvQueue>>

\* The packet is handed to the session: queued, or handled at once
\* (CMSG_PING, CMSG_KEEP_ALIVE, CMSG_TIME_SYNC_RESP).
UseSession ==
    /\ npc = "session"
    /\ recvQueue' = IF NextPacket[1] = "data" THEN Append(recvQueue, NextPacket)
                                              ELSE recvQueue
    /\ IF NextPacket[1] = "ping" THEN SendPacket("pong")
                                 ELSE UNCHANGED <<bufferQueue, sent>>
    /\ lock' = "free"
    /\ readBuffer' = Tail(readBuffer)
    /\ npc' = "read"
    /\ UNCHANGED <<clientVars, wireVars, where, query, reading, writeVars,
                   stateVars, sessionVars, worldVars>>

\* HandlePing finds the pings too fast: the socket is closed.
OverSpeedPing ==
    /\ npc = "session" /\ NextPacket[1] = "ping"
    /\ lock' = "free"
    /\ readBuffer' = Tail(readBuffer)
    /\ NetClose
    /\ UNCHANGED <<clientVars, wireVars, where, query, reading, writeVars,
                   bufferQueue, sent, closing, sessionVars, worldVars, recvQueue>>

\* _worldSession is null: a KEEP_ALIVE is ignored; for other packets the
\* socket is closed, with the lock still held for all but CMSG_PING.
NoSession ==
    /\ npc = "nosession"
    /\ readBuffer' = Tail(readBuffer)
    /\ IF NextPacket[1] = "alive"
         THEN lock' = "free" /\ npc' = "read" /\ UNCHANGED closed
         ELSE /\ lock' = IF NextPacket[1] = "ping" \/ closed THEN "free" ELSE "net"
              /\ NetClose
    /\ UNCHANGED <<clientVars, wireVars, where, query, reading, writeVars,
                   bufferQueue, sent, closing, sessionVars, worldVars, recvQueue>>

-----------------------------------------------------------------------------
(***************************************************************************)
(* The world thread                                                         *)
(***************************************************************************)

\* WorldSession::SendPacket.
WorldSend ==
    /\ sess = "alive" /\ wpc = "idle" /\ IsOpen
    /\ Len(SelectSeq(sent, LAMBDA x : x \in {"ok", "msg"})) < MaxOut
    /\ SendPacket(IF "ok" \in ToSet(sent) THEN "msg" ELSE "ok")
    /\ UNCHANGED <<clientVars, wireVars, npc, where, query, readVars,
                   writeVars, stateVars, lock, sessionVars, worldVars, recvQueue>>

\* KickPlayer, or the idle timer of WorldSession::Update: CloseSocket.
WorldKick ==
    /\ sess = "alive" /\ wpc = "idle" /\ ~closed
    /\ closed' = TRUE /\ wpc' = "close"
    /\ UNCHANGED <<clientVars, wireVars, npc, where, query, readVars,
                   writeVars, bufferQueue, sent, closing, lock, sessionVars,
                   sess, recvQueue>>

\* WorldSession::Update finds the socket closed and drops m_Socket; the
\* session is deleted.
WorldDrop ==
    /\ sess = "alive" /\ wpc = "idle" /\ ~IsOpen
    /\ sess' = "deleted"
    /\ UNCHANGED <<clientVars, wireVars, npc, where, query, readVars,
                   writeVars, bufferQueue, sent, stateVars, lock, sessionVars,
                   wpc, recvQueue>>

\* AddSession_ deletes a session it refuses or replaces: ~WorldSession calls
\* CloseSocket, which returns at once if the socket is closed already.
WorldDelete ==
    /\ sess = "alive" /\ wpc = "idle"
    /\ closed' = TRUE
    /\ IF closed THEN sess' = "deleted" /\ UNCHANGED wpc
                 ELSE wpc' = "delete" /\ UNCHANGED sess
    /\ UNCHANGED <<clientVars, wireVars, npc, where, query, readVars,
                   writeVars, bufferQueue, sent, closing, lock, sessionVars,
                   recvQueue>>

\* OnClose in the world thread, and the end of ~WorldSession.
WorldOnClose ==
    /\ wpc \in {"close", "delete"} /\ lock = "free"
    /\ worldSession' = FALSE
    /\ sess' = IF wpc = "delete" THEN "deleted" ELSE sess
    /\ wpc' = "idle"
    /\ UNCHANGED <<clientVars, wireVars, npc, where, query, readVars,
                   writeVars, bufferQueue, sent, stateVars, lock, authed,
                   recvQueue>>

-----------------------------------------------------------------------------
\* The socket has left the network thread, its session is gone and no handler
\* is outstanding.
Done ==
    /\ where = "removed" /\ sess # "alive" /\ npc = "idle" /\ gone
    /\ UNCHANGED vars

HandleQueue == HandleEmptyQueue \/ WriteAll \/ WriteSome \/ WriteFails

Handle == \/ NetOnClose \/ HandleQueue
          \/ NoQueryReady \/ Refuse \/ CheckIp \/ Accept
          \/ AsyncRead \/ ReadDone \/ LogPacket \/ DumpPacket
          \/ HandleAuthSession \/ LockSession \/ UseSession \/ OverSpeedPing
          \/ NoSession

Timer == NetUpdate \/ NetRemove

Reads == ReadHandler \/ ReadError

World == WorldSend \/ WorldKick \/ WorldDrop \/ WorldDelete \/ WorldOnClose

Next ==
    \/ \E x \in Inputs \cup {"auth"} : ClientSend(x)
    \/ ClientLeave \/ ClientReads \/ QueryAnswered
    \/ Handle \/ Timer \/ Reads \/ WriteHandler
    \/ World \/ Done

Spec == Init /\ [][Next]_vars

\* The network thread finishes the handler it runs, its timer fires every
\* 10 ms, and io_context runs the handlers of completed operations in turn
\* (strong fairness: each waits while another runs); what is in _bufferQueue
\* is found there in the end (MPSCQueue!AllDelivered); the client reads what
\* it is sent; the database answers (DatabasePool!CallbacksCalled); the world
\* thread updates its sessions.
FairSpec == /\ Spec
            /\ WF_vars(Handle)
            /\ SF_vars(Timer) /\ SF_vars(NetUpdate /\ bufferQueue' = <<>>)
            /\ SF_vars(Reads) /\ SF_vars(WriteHandler)
            /\ WF_vars(ClientReads) /\ WF_vars(QueryAnswered)
            /\ WF_vars(WorldDrop) /\ WF_vars(WorldOnClose)

-----------------------------------------------------------------------------
(***************************************************************************)
(* Properties                                                               *)
(***************************************************************************)

Packets == {"auth", "data", "ping", "alive"} \X (0..MaxIn)
Answers == {"chal", "err", "ok", "msg", "pong"}

\* The variables have the types of the fields they model.
TypeOK ==
    /\ gone \in BOOLEAN /\ full \in BOOLEAN /\ blocks \in 0..MaxBlocks
    /\ out \in Seq(Packets) /\ wire \in Seq(Packets)
    /\ readBuffer \in Seq(Packets) /\ recvQueue \in Seq(Packets)
    /\ rcvd \in Seq(Answers) /\ sent \in Seq(Answers)
    /\ bufferQueue \in Seq(Answers) /\ writeQueue \in Seq(Seq(Answers) \ {<<>>})
    /\ npc \in {"idle", "onclose", "queries", "flush", "write", "rearm",
                "read", "dump", "packet", "session", "nosession"}
    /\ where \in {"new", "listed", "removed"}
    /\ query \in {"none", "ip", "ip!", "auth", "auth!"}
    /\ reading \in BOOLEAN /\ writing \in BOOLEAN
    /\ closed \in BOOLEAN /\ closing \in BOOLEAN /\ authed \in BOOLEAN
    /\ lock \in {"free", "net"} /\ worldSession \in BOOLEAN
    /\ wpc \in {"idle", "close", "delete"}
    /\ sess \in {"none", "alive", "deleted"}

\* The network thread uses its raw pointer to the session only while the
\* session lives, though the world thread deletes sessions without the lock.
SessionAlive == npc = "session" => sess = "alive"

\* ReadDataHandler calls CloseSocket with _worldSessionLock held; OnClose would
\* lock it again.  For a client that keeps to the protocol the socket is
\* closed by then, and OnClose is not reached.
NoRelock == npc = "onclose" => lock # "net"

\* The packets of s that are for the session.
Data(s) ==
    LET data[n \in 0..Len(s)] ==
            IF n = 0 THEN <<>>
            ELSE IF s[n][1] = "data" THEN Append(data[n - 1], s[n]) ELSE data[n - 1]
    IN  data[Len(s)]

\* Nothing is lost, repeated or reordered on the way: what the server sends,
\* between SendPacket, the two queues, partial writes and the client; what the
\* client sends, up to the moment the socket is closed.
NothingLost ==
    /\ TypeOK
    /\ ~gone /\ ~closed => rcvd \o FlattenSeq(writeQueue) \o bufferQueue = sent
    /\ IsPrefix(recvQueue, Data(out))

\* A client that stays is told why it is refused before its socket is closed.
RefusalDelivered ==
    closed /\ ~gone /\ "err" \in ToSet(sent) => "err" \in ToSet(rcvd)

\* What the client sends reaches its session and what the server sends reaches
\* the client, unless the connection ends: no way through the handlers leaves
\* the socket without a pending read, or the write queue without a writer.
DataFlows ==
    /\ (recvQueue # Data(out)) ~> (recvQueue = Data(out) \/ closed \/ gone)
    /\ (rcvd # sent) ~> (rcvd = sent \/ closed \/ gone)

\* A socket marked by DelayedCloseSocket is closed and leaves its thread; after
\* the client has left or the socket is closed, the network thread lets the
\* socket go and the world thread deletes the session.
ConnectionEnds ==
    /\ closing ~> (closed /\ where = "removed")
    /\ (gone \/ closed) ~> (where = "removed" /\ sess # "alive")

=============================================================================
