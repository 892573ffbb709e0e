------------------------ MODULE SessionPacketsProofs ------------------------
(***************************************************************************)
(* Theorems about SessionPackets: packets are handled in the order in which *)
(* they were sent, for the character for which they were sent, and those    *)
(* that come early are kept.                                                *)
(***************************************************************************)
EXTENDS SessionPackets, SequenceTheorems, TLAPS

-----------------------------------------------------------------------------
(***************************************************************************)
(* The inductive invariant                                                  *)
(***************************************************************************)

\* What the client sends while its player is in the world.
InWorld(p) == p.kind \in Kinds

\* What the client sends to log in.
Opening(p) == p.kind \in {"enum", "login"}

\* p may be before r in the line.
Before(p, r) ==
    /\ p.login <= r.login
    /\ r.kind = "enum" => p.login < r.login
    /\ r.kind = "login" /\ p.login = r.login => p.kind = "enum"
    /\ InWorld(p) /\ InWorld(r) /\ p.login = r.login => p.num < r.num

\* The line is in the order in which the client sent.
Sorted(q) == \A i, j \in 1..Len(q) : i < j => Before(q[i], q[j])

\* The client has sent what is in the line; the session has not seen the
\* openings yet, and has seen all that came before the one of its player.
Sent(q) ==
    \A i \in 1..Len(q) :
        /\ who <= q[i].login /\ q[i].login <= login
        /\ Opening(q[i]) => who < q[i].login
        /\ InWorld(q[i]) /\ q[i].login = login => q[i].num <= count

\* The client is at most one login ahead of the session, whose player has then
\* logged out.  What it has sent for that player is in front of its
\* CMSG_CHAR_ENUM, which ends m_playerRecentlyLogout.
Ahead(q) ==
    login # who =>
        /\ login = who + 1
        /\ player = "none" /\ ~loading /\ ~told /\ ~screen
        /\ (\E i \in 1..Len(q) : q[i].login = who) => recentlyLogout
        /\ recentlyLogout =>
              \E i \in 1..Len(q) : q[i].kind = "enum" /\ q[i].login = login

\* The player of the last login has left, and the next has not been asked for.
LoggedOut == login = who /\ player = "none" /\ ~loading /\ (who > 0 => recentlyLogout)

\* What the client and the session know of the player.
Phases ==
    /\ screen \/ told => LoggedOut
    /\ told => ~screen /\ who > 0
    /\ loading <=> query # "none"
    /\ loading => player = "none" /\ ~recentlyLogout
    /\ player # "none" \/ loading => who > 0
    /\ ackDue \/ ~screen => login > 0
    /\ logoutAt => player # "none"

\* Packets are kept within one round of Update, while there is no player.
Keeping ==
    /\ \A i \in 1..Len(requeue) : requeue[i].kind \in Kinds
    /\ requeue # <<>> => upc = "loop" /\ player = "none" /\ ~recentlyLogout

\* The inductive invariant.
PacketInv == TypeOK /\ Sorted(Line) /\ Sent(Line) /\ Ahead(Line) /\ Phases /\ Keeping

-----------------------------------------------------------------------------
(***************************************************************************)
(* The line of packets                                                      *)
(***************************************************************************)

\* What requeue and recvQueue are together.
LEMMA LineIs ==
    ASSUME TypeOK
    PROVE  /\ Line \in Seq(PacketSet)
           /\ Len(Line) = Len(requeue) + Len(recvQueue)
           /\ Len(requeue) \in Nat /\ Len(recvQueue) \in Nat /\ Len(Line) \in Nat
           /\ \A i \in 1..Len(Line) : Line[i] \in PacketSet
           /\ \A i \in 1..Len(requeue) : Line[i] = requeue[i]
           /\ \A i \in 1..Len(recvQueue) : Line[Len(requeue) + i] = recvQueue[i]
<1>1. requeue \in Seq(PacketSet) /\ recvQueue \in Seq(PacketSet)
  BY DEF TypeOK
<1>2. /\ Line \in Seq(PacketSet)
      /\ Len(Line) = Len(requeue) + Len(recvQueue)
      /\ \A i \in 1..(Len(requeue) + Len(recvQueue)) :
            Line[i] = IF i <= Len(requeue) THEN requeue[i]
                                           ELSE recvQueue[i - Len(requeue)]
  BY <1>1, ConcatProperties DEF Line
<1>3. Len(requeue) \in Nat /\ Len(recvQueue) \in Nat
  BY <1>1, LenProperties
<1>4. \A i \in 1..Len(Line) : Line[i] \in PacketSet
  BY <1>2, ElementOfSeq
<1>5. \A i \in 1..Len(requeue) : Line[i] = requeue[i]
  BY <1>2, <1>3
<1>6. ASSUME NEW i \in 1..Len(recvQueue)
      PROVE  Line[Len(requeue) + i] = recvQueue[i]
  <2>1. /\ Len(requeue) + i \in 1..(Len(requeue) + Len(recvQueue))
        /\ ~(Len(requeue) + i <= Len(requeue))
        /\ (Len(requeue) + i) - Len(requeue) = i
    BY <1>3
  <2> QED BY <1>2, <2>1
<1> QED BY <1>2, <1>3, <1>4, <1>5, <1>6

\* The packet that is taken is the first one behind those that were kept.
LEMMA FrontIs ==
    ASSUME TypeOK, recvQueue # <<>>
    PROVE  /\ Len(requeue) + 1 \in 1..Len(Line)
           /\ Line[Len(requeue) + 1] = Head(recvQueue)
           /\ Head(recvQueue) \in PacketSet
           /\ Tail(recvQueue) \in Seq(PacketSet)
           /\ Len(Tail(recvQueue)) = Len(recvQueue) - 1
           /\ \A i \in 1..(Len(recvQueue) - 1) :
                 Tail(recvQueue)[i] = recvQueue[i + 1]
<1>1. recvQueue \in Seq(PacketSet)
  BY DEF TypeOK
<1>2. /\ Head(recvQueue) = recvQueue[1] /\ Head(recvQueue) \in PacketSet
      /\ Tail(recvQueue) \in Seq(PacketSet)
      /\ Len(Tail(recvQueue)) = Len(recvQueue) - 1
      /\ \A i \in 1..Len(Tail(recvQueue)) : Tail(recvQueue)[i] = recvQueue[i + 1]
  BY <1>1, HeadTailProperties
<1>3. Len(recvQueue) \in Nat \ {0}
  BY <1>1, EmptySeq
<1>4. 1 \in 1..Len(recvQueue) /\ Len(requeue) + 1 \in 1..Len(Line)
  BY <1>3, LineIs
<1>5. Line[Len(requeue) + 1] = recvQueue[1]
  BY <1>4, LineIs
<1> QED BY <1>2, <1>4, <1>5

\* Taking a packet closes the gap and changes no order.
LEMMA TakenLine ==
    ASSUME TypeOK, recvQueue # <<>>, Sorted(Line),
           recvQueue' = Tail(recvQueue), requeue' = requeue
    PROVE  /\ Line' \in Seq(PacketSet) /\ Sorted(Line')
           /\ \A i \in 1..Len(Line') :
                 \E j \in 1..Len(Line) \ {Len(requeue) + 1} : Line'[i] = Line[j]
           /\ \A j \in 1..Len(Line) \ {Len(requeue) + 1} :
                 \E i \in 1..Len(Line') : Line'[i] = Line[j]
<1> DEFINE a == Len(requeue)
           n == Len(recvQueue)
           F(i) == IF i <= a THEN i ELSE i + 1
<1>1. /\ Line' \in Seq(PacketSet) /\ Len(Line') = a + (n - 1)
      /\ \A i \in 1..(a + (n - 1)) :
            Line'[i] = IF i <= a THEN requeue[i] ELSE Tail(recvQueue)[i - a]
  <2>1. requeue \in Seq(PacketSet) /\ Tail(recvQueue) \in Seq(PacketSet)
    BY FrontIs DEF TypeOK
  <2>2. Len(Tail(recvQueue)) = n - 1
    BY FrontIs
  <2> QED BY <2>1, <2>2, ConcatProperties DEF Line
<1>2. /\ a \in Nat /\ n \in Nat /\ n > 0 /\ Len(Line) = a + n
      /\ \A i \in 1..a : Line[i] = requeue[i]
      /\ \A i \in 1..n : Line[a + i] = recvQueue[i]
      /\ \A i \in 1..(n - 1) : Tail(recvQueue)[i] = recvQueue[i + 1]
  BY LineIs, FrontIs
<1> HIDE DEF a, n
<1>3. ASSUME NEW i \in 1..Len(Line')
      PROVE  Line'[i] = Line[F(i)] /\ F(i) \in 1..Len(Line) /\ F(i) # a + 1
  <2>1. CASE i <= a
    BY <2>1, <1>1, <1>2
  <2>2. CASE ~(i <= a)
    <3>1. i - a \in 1..(n - 1) /\ (i - a) + 1 \in 1..n /\ a + ((i - a) + 1) = i + 1
      BY <2>2, <1>1, <1>2
    <3>2. Line'[i] = Tail(recvQueue)[i - a]
      BY <2>2, <1>1
    <3>3. Tail(recvQueue)[i - a] = recvQueue[(i - a) + 1]
      BY <3>1, <1>2
    <3>4. recvQueue[(i - a) + 1] = Line[i + 1]
      BY <3>1, <1>2
    <3>5. F(i) = i + 1 /\ i + 1 \in 1..Len(Line) /\ i + 1 # a + 1
      BY <2>2, <1>1, <1>2
    <3> QED BY <3>2, <3>3, <3>4, <3>5
  <2> QED BY <2>1, <2>2
<1>4. ASSUME NEW j \in 1..Len(Line), j # a + 1
      PROVE  \E i \in 1..Len(Line') : Line'[i] = Line[j]
  <2>1. CASE j <= a
    <3>1. j \in 1..Len(Line') /\ F(j) = j
      BY <2>1, <1>1, <1>2
    <3>2. Line'[j] = Line[F(j)]
      BY <3>1, <1>3
    <3> QED BY <3>1, <3>2
  <2>2. CASE ~(j <= a)
    <3>1. j - 1 \in 1..Len(Line') /\ F(j - 1) = j
      BY <2>2, <1>4, <1>1, <1>2
    <3>2. Line'[j - 1] = Line[F(j - 1)]
      BY <3>1, <1>3
    <3> QED BY <3>1, <3>2
  <2> QED BY <2>1, <2>2
<1>5. ASSUME NEW i \in 1..Len(Line'), NEW j \in 1..Len(Line'), i < j
      PROVE  Before(Line'[i], Line'[j])
  <2>1. F(i) < F(j)
    BY <1>5, <1>1, <1>2
  <2>2. Line'[i] = Line[F(i)] /\ F(i) \in 1..Len(Line)
    BY <1>3
  <2>3. Line'[j] = Line[F(j)] /\ F(j) \in 1..Len(Line)
    BY <1>3
  <2> HIDE DEF F
  <2> QED BY <2>1, <2>2, <2>3 DEF Sorted
<1>6. \A i \in 1..Len(Line') : \E j \in 1..Len(Line) \ {a + 1} : Line'[i] = Line[j]
  BY <1>3
<1>7. Sorted(Line')
  BY <1>5 DEF Sorted
<1> QED BY <1>1, <1>4, <1>6, <1>7 DEF a

\* A packet that is kept stays where it was in the line.
LEMMA KeptLine ==
    ASSUME TypeOK, recvQueue # <<>>,
           recvQueue' = Tail(recvQueue), requeue' = Append(requeue, Head(recvQueue))
    PROVE  Line' = Line /\ requeue' \in Seq(PacketSet) /\ recvQueue' \in Seq(PacketSet)
<1> DEFINE a == Len(requeue)
           n == Len(recvQueue)
<1>1. /\ requeue' \in Seq(PacketSet) /\ recvQueue' \in Seq(PacketSet)
      /\ Len(requeue') = a + 1 /\ Len(recvQueue') = n - 1
      /\ \A i \in 1..a : requeue'[i] = requeue[i]
      /\ requeue'[a + 1] = Head(recvQueue)
  BY FrontIs, AppendProperties DEF TypeOK
<1>2. /\ Line' \in Seq(PacketSet) /\ Len(Line') = (a + 1) + (n - 1)
      /\ \A i \in 1..((a + 1) + (n - 1)) :
            Line'[i] = IF i <= a + 1 THEN requeue'[i] ELSE recvQueue'[i - (a + 1)]
  BY <1>1, ConcatProperties DEF Line
<1>3. /\ a \in Nat /\ n \in Nat /\ n > 0 /\ Len(Line) = a + n
      /\ Line \in Seq(PacketSet)
      /\ \A i \in 1..a : Line[i] = requeue[i]
      /\ \A i \in 1..n : Line[a + i] = recvQueue[i]
      /\ \A i \in 1..(n - 1) : recvQueue'[i] = recvQueue[i + 1]
      /\ Line[a + 1] = Head(recvQueue)
  BY LineIs, FrontIs
<1> HIDE DEF a, n
<1>4. Len(Line') = Len(Line)
  BY <1>2, <1>3
<1>5. ASSUME NEW i \in 1..Len(Line') PROVE Line'[i] = Line[i]
  <2>1. CASE i <= a
    BY <2>1, <1>1, <1>2, <1>3
  <2>2. CASE i = a + 1
    BY <2>2, <1>1, <1>2, <1>3
  <2>3. CASE i > a + 1
    <3>1. /\ i - (a + 1) \in 1..(n - 1) /\ (i - (a + 1)) + 1 \in 1..n
          /\ a + ((i - (a + 1)) + 1) = i
      BY <2>3, <1>2, <1>3
    <3>2. Line'[i] = recvQueue'[i - (a + 1)]
      <4>1. i \in 1..((a + 1) + (n - 1)) /\ ~(i <= a + 1)
        BY <2>3, <1>2, <1>3
      <4> QED BY <4>1, <1>2
    <3>3. recvQueue'[i - (a + 1)] = recvQueue[(i - (a + 1)) + 1]
      BY <3>1, <1>3
    <3>4. Line[a + ((i - (a + 1)) + 1)] = recvQueue[(i - (a + 1)) + 1]
      BY <3>1, <1>3
    <3> QED BY <3>1, <3>2, <3>3, <3>4
  <2> QED BY <2>1, <2>2, <2>3, <1>2, <1>3
<1> QED BY <1>1, <1>2, <1>3, <1>4, <1>5, SeqEqual

\* What was kept goes back to the front: the line stays as it is.
LEMMA ReaddedLine ==
    ASSUME TypeOK, recvQueue' = requeue \o recvQueue, requeue' = <<>>
    PROVE  Line' = Line /\ requeue' \in Seq(PacketSet) /\ recvQueue' \in Seq(PacketSet)
<1>1. Line \in Seq(PacketSet) /\ recvQueue' = Line
  BY LineIs DEF Line
<1>2. Line' = <<>> \o Line
  BY <1>1 DEF Line
<1>3. <<>> \o Line = Line
  BY <1>1, ConcatEmptySeq
<1> QED BY <1>1, <1>2, <1>3, EmptySeq

\* Packets of the client are queued.
LEMMA QueuedLine ==
    ASSUME TypeOK, NEW s \in Seq(PacketSet), recvQueue' = recvQueue \o s,
           requeue' = requeue
    PROVE  /\ Line' \in Seq(PacketSet) /\ Len(Line') = Len(Line) + Len(s)
           /\ recvQueue' \in Seq(PacketSet)
           /\ \A i \in 1..Len(Line) : Line'[i] = Line[i]
           /\ \A i \in 1..Len(s) : Line'[Len(Line) + i] = s[i]
<1>1. requeue \in Seq(PacketSet) /\ recvQueue \in Seq(PacketSet)
  BY DEF TypeOK
<1>2. requeue \o (recvQueue \o s) = (requeue \o recvQueue) \o s
  BY <1>1, ConcatAssociative
<1>3. Line' = Line \o s
  BY <1>2 DEF Line
<1>4. Line \in Seq(PacketSet) /\ Len(Line) \in Nat /\ Len(s) \in Nat
  BY LineIs, LenProperties
<1>5. /\ Line' \in Seq(PacketSet) /\ Len(Line') = Len(Line) + Len(s)
      /\ \A i \in 1..(Len(Line) + Len(s)) :
            Line'[i] = IF i <= Len(Line) THEN Line[i] ELSE s[i - Len(Line)]
  BY <1>3, <1>4, ConcatProperties
<1>6. recvQueue' \in Seq(PacketSet)
  BY <1>1, ConcatProperties
<1>7. ASSUME NEW i \in 1..Len(s) PROVE Line'[Len(Line) + i] = s[i]
  <2>1. /\ Len(Line) + i \in 1..(Len(Line) + Len(s)) /\ ~(Len(Line) + i <= Len(Line))
        /\ (Len(Line) + i) - Len(Line) = i
    BY <1>4
  <2> QED BY <1>5, <2>1
<1> QED BY <1>4, <1>5, <1>6, <1>7

-----------------------------------------------------------------------------
(***************************************************************************)
(* Packets and their kinds                                                  *)
(***************************************************************************)

\* What a packet of the model holds.
LEMMA PacketFields ==
    ASSUME NEW x \in PacketSet
    PROVE  /\ x.kind \in AllKinds /\ x.login \in Nat /\ x.login > 0 /\ x.num \in Nat
           /\ x.login <= MaxLogins
BY PacketsAssumption DEF PacketSet

\* Each kind of packet has one status, as in the opcode table.
LEMMA KindsAre ==
    ASSUME NEW k \in AllKinds
    PROVE  /\ k \in Kinds <=> k \notin {"enum", "login", "ack"}
           /\ Status(k) = "LOGGEDIN" <=> k \in Kinds \ {"cancel"}
           /\ Status(k) = "AUTHED" <=> k \in {"enum", "login"}
           /\ Status(k) = "TRANSFER" <=> k = "ack"
           /\ Status(k) = "LOGGEDIN_OR_RECENTLY_LOGGOUT" <=> k = "cancel"
<1>1. k \in {"safe", "unsafe", "inplace", "logout", "cancel", "enum", "login", "ack"}
  BY PacketsAssumption DEF AllKinds
<1>2. k \in Kinds <=> k \notin {"enum", "login", "ack"}
  BY <1>1, PacketsAssumption DEF AllKinds
<1>3. Status(k) = "LOGGEDIN" <=> k \in {"safe", "unsafe", "inplace", "logout"}
  BY <1>1 DEF Status
<1>4. Status(k) = "AUTHED" <=> k \in {"enum", "login"}
  BY <1>1 DEF Status
<1>5. Status(k) = "TRANSFER" <=> k = "ack"
  BY <1>1 DEF Status
<1>6. Status(k) = "LOGGEDIN_OR_RECENTLY_LOGGOUT" <=> k = "cancel"
  BY <1>1 DEF Status
<1> QED BY <1>1, <1>2, <1>3, <1>4, <1>5, <1>6

\* The line while a round of the loop is under way.
LEMMA AtFront ==
    ASSUME PacketInv, More
    PROVE  /\ recvQueue # <<>> /\ upc = "loop"
           /\ Head(recvQueue) \in PacketSet /\ Head(recvQueue).kind \in AllKinds
           /\ Len(requeue) + 1 \in 1..Len(Line)
           /\ Line[Len(requeue) + 1] = Head(recvQueue)
           /\ who <= Head(recvQueue).login /\ Head(recvQueue).login <= login
           /\ Opening(Head(recvQueue)) => who < Head(recvQueue).login
           /\ login \in Nat /\ who \in Nat
<1>1. recvQueue # <<>> /\ upc = "loop"
  BY DEF More
<1>2. /\ Head(recvQueue) \in PacketSet /\ Len(requeue) + 1 \in 1..Len(Line)
      /\ Line[Len(requeue) + 1] = Head(recvQueue)
  BY <1>1, FrontIs DEF PacketInv
<1>3. Head(recvQueue).kind \in AllKinds
  BY <1>2, PacketFields
<1>4. /\ who <= Head(recvQueue).login /\ Head(recvQueue).login <= login
      /\ Opening(Head(recvQueue)) => who < Head(recvQueue).login
  BY <1>2 DEF PacketInv, Sent
<1>5. login \in Nat /\ who \in Nat
  BY PacketsAssumption DEF PacketInv, TypeOK
<1> QED BY <1>1, <1>2, <1>3, <1>4, <1>5

\* Whatever is in the line for a player who has logged out is behind nothing
\* that was sent later, and was not kept.
LEMMA StaleFirst ==
    ASSUME PacketInv, More, NEW j \in 1..Len(Line), Line[j].login = who,
           Head(recvQueue).login # who
    PROVE  FALSE
<1>1. PICK x : x = Head(recvQueue)
  OBVIOUS
<1>2. /\ Len(requeue) + 1 \in 1..Len(Line) /\ Line[Len(requeue) + 1] = x
      /\ who <= x.login /\ x.login # who /\ x.login <= login
      /\ login \in Nat /\ who \in Nat /\ x \in PacketSet
  BY <1>1, AtFront
<1>3. x.login \in Nat /\ who < x.login /\ login # who
  BY <1>2, PacketFields
<1>4. recvQueue # <<>> /\ recentlyLogout
  BY <1>3, AtFront DEF PacketInv, Ahead
<1>5. requeue = <<>>
  BY <1>4 DEF PacketInv, Keeping
<1>6. Len(requeue) = 0
  BY <1>5
<1>7. Line[1] = x /\ 1 \in 1..Len(Line)
  BY <1>2, <1>6
<1>8. j # 1
  BY <1>3, <1>7
<1>9. 1 < j
  BY <1>8
<1>10. Before(x, Line[j])
  BY <1>7, <1>9 DEF PacketInv, Sorted
<1> QED BY <1>2, <1>3, <1>10 DEF Before

\* A packet is taken from the line.
LEMMA TakeKeeps ==
    ASSUME PacketInv, More, recvQueue' = Tail(recvQueue), requeue' = requeue,
           login' = login, who' = who, count' = count
    PROVE  /\ Sorted(Line)' /\ Sent(Line)' /\ recvQueue' \in Seq(PacketSet)
           /\ \A i \in 1..Len(Line') :
                 \E j \in 1..Len(Line) \ {Len(requeue) + 1} : Line'[i] = Line[j]
           /\ \A j \in 1..Len(Line) \ {Len(requeue) + 1} :
                 \E i \in 1..Len(Line') : Line'[i] = Line[j]
<1>1. TypeOK /\ recvQueue # <<>> /\ Sorted(Line)
  BY AtFront DEF PacketInv
<1>2. /\ Sorted(Line')
      /\ \A i \in 1..Len(Line') :
            \E j \in 1..Len(Line) \ {Len(requeue) + 1} : Line'[i] = Line[j]
      /\ \A j \in 1..Len(Line) \ {Len(requeue) + 1} :
            \E i \in 1..Len(Line') : Line'[i] = Line[j]
  BY <1>1, TakenLine
<1>3. Sorted(Line)'
  BY <1>2 DEF Sorted, Before, InWorld
<1>4. Sent(Line)'
  <2> SUFFICES ASSUME NEW i \in 1..Len(Line')
               PROVE  /\ who <= Line'[i].login /\ Line'[i].login <= login
                      /\ Opening(Line'[i]) => who < Line'[i].login
                      /\ InWorld(Line'[i]) /\ Line'[i].login = login
                            => Line'[i].num <= count
    BY DEF Sent, Opening, InWorld
  <2>1. PICK j \in 1..Len(Line) : Line'[i] = Line[j]
    BY <1>2
  <2> QED BY <2>1 DEF PacketInv, Sent
<1>5. recvQueue' \in Seq(PacketSet)
  BY <1>1, FrontIs
<1> QED BY <1>2, <1>3, <1>4, <1>5

\* What taking a packet may do to the session so that the client stays at most
\* one login ahead.
LEMMA TakeAhead ==
    ASSUME PacketInv, More, recvQueue' = Tail(recvQueue), requeue' = requeue,
           login' = login, who' = who, count' = count, screen' = screen,
           loading' = loading,
           player = "none" => player' = "none" /\ told' = told,
           player = "none" /\ Head(recvQueue).kind = "enum" => ~recentlyLogout',
           player = "none" /\ Head(recvQueue).kind # "enum" =>
               recentlyLogout' = recentlyLogout
    PROVE  Ahead(Line)'
<1> SUFFICES ASSUME login # who
             PROVE  /\ login = who + 1
                    /\ player' = "none" /\ ~loading /\ ~told' /\ ~screen
                    /\ (\E i \in 1..Len(Line') : Line'[i].login = who) => recentlyLogout'
                    /\ recentlyLogout' =>
                          \E i \in 1..Len(Line') :
                              Line'[i].kind = "enum" /\ Line'[i].login = login
  BY DEF Ahead
<1>1. /\ login = who + 1
      /\ player = "none" /\ ~loading /\ ~told /\ ~screen
      /\ (\E i \in 1..Len(Line) : Line[i].login = who) => recentlyLogout
      /\ recentlyLogout =>
            \E i \in 1..Len(Line) : Line[i].kind = "enum" /\ Line[i].login = login
  BY DEF PacketInv, Ahead
<1>2. /\ \A i \in 1..Len(Line') :
            \E j \in 1..Len(Line) \ {Len(requeue) + 1} : Line'[i] = Line[j]
      /\ \A j \in 1..Len(Line) \ {Len(requeue) + 1} :
            \E i \in 1..Len(Line') : Line'[i] = Line[j]
  BY TakeKeeps
<1>3. ASSUME NEW i \in 1..Len(Line'), Line'[i].login = who
      PROVE  recentlyLogout'
  <2>1. PICK j \in 1..Len(Line) : Line[j].login = who
    BY <1>2, <1>3
  <2>2. recentlyLogout
    BY <2>1, <1>1
  <2>3. Head(recvQueue).login = who
    BY <2>1, StaleFirst
  <2>4. Head(recvQueue).kind # "enum"
    BY <2>3, AtFront DEF Opening
  <2> QED BY <2>2, <2>4, <1>1
<1>4. ASSUME recentlyLogout'
      PROVE  \E i \in 1..Len(Line') : Line'[i].kind = "enum" /\ Line'[i].login = login
  <2>1. recentlyLogout /\ Head(recvQueue).kind # "enum"
    BY <1>1, <1>4
  <2>2. PICK j \in 1..Len(Line) : Line[j].kind = "enum" /\ Line[j].login = login
    BY <2>1, <1>1
  <2>3. j # Len(requeue) + 1
    BY <2>1, <2>2, AtFront
  <2> QED BY <2>2, <2>3, <1>2
<1> QED BY <1>1, <1>3, <1>4

-----------------------------------------------------------------------------
(***************************************************************************)
(* The client's steps                                                       *)
(***************************************************************************)

\* What is queued goes to the end of the line.
LEMMA ClientSends ==
    ASSUME PacketInv, NEW s \in Seq(PacketSet), recvQueue' = recvQueue \o s,
           requeue' = requeue, Sorted(s),
           \A i \in 1..Len(Line) : \A k \in 1..Len(s) : Before(Line[i], s[k])
    PROVE  /\ Sorted(Line)' /\ recvQueue' \in Seq(PacketSet)
           /\ \A i \in 1..Len(Line') :
                 \/ \E j \in 1..Len(Line) : Line'[i] = Line[j]
                 \/ \E k \in 1..Len(s) : Line'[i] = s[k]
           /\ \A j \in 1..Len(Line) : \E i \in 1..Len(Line') : Line'[i] = Line[j]
           /\ \A k \in 1..Len(s) : \E i \in 1..Len(Line') : Line'[i] = s[k]
<1> DEFINE n == Len(Line)
           m == Len(s)
<1>1. /\ Line' \in Seq(PacketSet) /\ Len(Line') = n + m
      /\ recvQueue' \in Seq(PacketSet)
      /\ \A i \in 1..n : Line'[i] = Line[i]
      /\ \A i \in 1..m : Line'[n + i] = s[i]
  BY QueuedLine DEF PacketInv
<1>2. n \in Nat /\ m \in Nat
  BY LineIs, LenProperties DEF PacketInv
<1>3. /\ \A i, j \in 1..n : i < j => Before(Line[i], Line[j])
      /\ \A i, j \in 1..m : i < j => Before(s[i], s[j])
      /\ \A i \in 1..n : \A k \in 1..m : Before(Line[i], s[k])
  BY DEF PacketInv, Sorted
<1> HIDE DEF n, m
<1>4. ASSUME NEW i \in 1..(n + m)
      PROVE  i \in 1..n \/ (i - n \in 1..m /\ Line'[i] = s[i - n])
  <2>1. CASE i > n
    <3>1. i - n \in 1..m /\ n + (i - n) = i
      BY <2>1, <1>2
    <3>2. Line'[n + (i - n)] = s[i - n]
      BY <3>1, <1>1
    <3> QED BY <3>1, <3>2
  <2> QED BY <2>1, <1>2
<1>5. ASSUME NEW i \in 1..(n + m), NEW j \in 1..(n + m), i < j
      PROVE  Before(Line'[i], Line'[j])
  <2>1. CASE i \in 1..n /\ j \in 1..n
    BY <2>1, <1>1, <1>3, <1>5
  <2>2. CASE i \in 1..n /\ j \notin 1..n
    BY <2>2, <1>1, <1>3, <1>4
  <2>3. CASE i \notin 1..n
    <3>1. j \notin 1..n /\ i - n < j - n
      BY <2>3, <1>2, <1>5
    <3> QED BY <2>3, <3>1, <1>3, <1>4
  <2> QED BY <2>1, <2>2, <2>3
<1>6. Sorted(Line)'
  BY <1>1, <1>5 DEF Sorted, Before, InWorld
<1>7. \A i \in 1..Len(Line') : \/ \E j \in 1..n : Line'[i] = Line[j]
                               \/ \E k \in 1..m : Line'[i] = s[k]
  BY <1>1, <1>4
<1>8. \A j \in 1..n : \E i \in 1..Len(Line') : Line'[i] = Line[j]
  BY <1>1, <1>2
<1>9. ASSUME NEW k \in 1..m PROVE \E i \in 1..Len(Line') : Line'[i] = s[k]
  <2>1. n + k \in 1..Len(Line')
    BY <1>1, <1>2
  <2> QED BY <2>1, <1>1
<1> QED BY <1>1, <1>6, <1>7, <1>8, <1>9 DEF n, m

\* The counters and the packets of the line are numbers the provers can compare.
LEMMA NumbersAre ==
    ASSUME TypeOK
    PROVE  /\ login \in Nat /\ who \in Nat /\ count \in Nat
           /\ \A i \in 1..Len(Line) :
                 /\ Line[i] \in PacketSet
                 /\ Line[i].login \in Nat /\ Line[i].login > 0 /\ Line[i].num \in Nat
<1>1. login \in Nat /\ who \in Nat /\ count \in Nat
  BY PacketsAssumption DEF TypeOK
<1>2. \A i \in 1..Len(Line) : Line[i] \in PacketSet
  BY LineIs
<1> QED BY <1>1, <1>2, PacketFields

\* A packet of the game, or an acknowledgement, is queued.
LEMMA PacketSent ==
    ASSUME PacketInv, NEW k \in Kinds \cup {"ack"}, NEW n \in 0..MaxPackets,
           login > 0, count' \in {count, count + 1},
           k \in Kinds => n > count /\ n <= count',
           recvQueue' = recvQueue \o <<Packet(k, login, n)>>,
           UNCHANGED <<screen, login, told, loopVars, playerVars>>
    PROVE  /\ Sorted(Line)' /\ Sent(Line)' /\ Ahead(Line)' /\ Keeping'
           /\ recvQueue' \in Seq(PacketSet)
<1>1. /\ requeue' = requeue /\ login' = login /\ who' = who /\ screen' = screen
      /\ told' = told /\ player' = player /\ loading' = loading
      /\ recentlyLogout' = recentlyLogout /\ upc' = upc
  BY DEF loopVars, playerVars
<1>2. PICK x : x = Packet(k, login, n)
  OBVIOUS
<1>3. x.kind = k /\ x.login = login /\ x.num = n
  BY <1>2 DEF Packet
<1>4. x \in PacketSet /\ n \in Nat
  <2>1. login \in 1..MaxLogins /\ k \in AllKinds
    BY DEF PacketInv, TypeOK, AllKinds
  <2> QED BY <1>2, <2>1, PacketsAssumption DEF Packet, PacketSet
<1>5. k \notin {"enum", "login"}
  BY PacketsAssumption
<1>6. PICK s : s = <<x>>
  OBVIOUS
<1>7. s \in Seq(PacketSet) /\ Len(s) = 1 /\ s[1] = x
  BY <1>4, <1>6
<1>8. Sorted(s)
  BY <1>7 DEF Sorted
<1>9. ASSUME NEW i \in 1..Len(Line) PROVE Before(Line[i], x)
  <2>1. /\ Line[i].login <= login
        /\ InWorld(Line[i]) /\ Line[i].login = login => Line[i].num <= count
    BY DEF PacketInv, Sent
  <2>2. Line[i].num \in Nat /\ count \in Nat
    BY NumbersAre DEF PacketInv
  <2> QED BY <1>3, <1>4, <1>5, <2>1, <2>2 DEF Before, InWorld
<1>10. \A i \in 1..Len(Line) : \A j \in 1..Len(s) : Before(Line[i], s[j])
  BY <1>7, <1>9
<1>11. /\ Sorted(Line)' /\ recvQueue' \in Seq(PacketSet)
       /\ \A i \in 1..Len(Line') : \/ \E j \in 1..Len(Line) : Line'[i] = Line[j]
                                   \/ \E j \in 1..Len(s) : Line'[i] = s[j]
       /\ \A j \in 1..Len(Line) : \E i \in 1..Len(Line') : Line'[i] = Line[j]
  BY <1>1, <1>2, <1>6, <1>7, <1>8, <1>10, ClientSends
<1>12. \A i \in 1..Len(Line') : \/ \E j \in 1..Len(Line) : Line'[i] = Line[j]
                                \/ Line'[i] = x
  BY <1>7, <1>11
<1>13. login \in Nat /\ who \in Nat /\ count \in Nat /\ who <= login
  <2>1. login # who => login = who + 1
    BY DEF PacketInv, Ahead
  <2> QED BY <2>1, NumbersAre DEF PacketInv
<1>14. Sent(Line)'
  <2> SUFFICES ASSUME NEW i \in 1..Len(Line')
               PROVE  /\ who <= Line'[i].login /\ Line'[i].login <= login
                      /\ Opening(Line'[i]) => who < Line'[i].login
                      /\ InWorld(Line'[i]) /\ Line'[i].login = login
                            => Line'[i].num <= count'
    BY <1>1 DEF Sent, Opening, InWorld
  <2>1. CASE Line'[i] = x
    BY <2>1, <1>3, <1>5, <1>13 DEF Opening, InWorld
  <2>2. CASE \E j \in 1..Len(Line) : Line'[i] = Line[j]
    <3>1. PICK j \in 1..Len(Line) : Line'[i] = Line[j]
      BY <2>2
    <3>2. Line[j].num \in Nat
      BY NumbersAre DEF PacketInv
    <3> QED BY <3>1, <3>2, <1>13 DEF PacketInv, Sent
  <2> QED BY <2>1, <2>2, <1>12
<1>15. Ahead(Line)'
  <2> SUFFICES ASSUME login # who
               PROVE  /\ login = who + 1
                      /\ player = "none" /\ ~loading /\ ~told /\ ~screen
                      /\ (\E i \in 1..Len(Line') : Line'[i].login = who) => recentlyLogout
                      /\ recentlyLogout =>
                            \E i \in 1..Len(Line') :
                                Line'[i].kind = "enum" /\ Line'[i].login = login
    BY <1>1 DEF Ahead
  <2>1. /\ login = who + 1
        /\ player = "none" /\ ~loading /\ ~told /\ ~screen
        /\ (\E i \in 1..Len(Line) : Line[i].login = who) => recentlyLogout
        /\ recentlyLogout =>
              \E i \in 1..Len(Line) : Line[i].kind = "enum" /\ Line[i].login = login
    BY DEF PacketInv, Ahead
  <2>2. (\E i \in 1..Len(Line') : Line'[i].login = who) => recentlyLogout
    BY <2>1, <1>3, <1>12
  <2>3. recentlyLogout => \E i \in 1..Len(Line') :
                             Line'[i].kind = "enum" /\ Line'[i].login = login
    BY <2>1, <1>11
  <2> QED BY <2>1, <2>2, <2>3
<1>16. Keeping'
  BY <1>1 DEF PacketInv, Keeping
<1> QED BY <1>11, <1>14, <1>15, <1>16

\* A packet for the present player goes to the end of the line.
LEMMA ClientPlaysStep ==
    ASSUME PacketInv, NEW k \in Kinds, ClientPlays(k)
    PROVE  PacketInv'
<1>1. /\ ~screen /\ count < MaxPackets /\ count' = count + 1
      /\ recvQueue' = recvQueue \o <<Packet(k, login, count + 1)>>
      /\ UNCHANGED <<screen, login, ackDue, told, loopVars, playerVars, socket,
                     teleports>>
  BY DEF ClientPlays, QueuePackets
<1>2. login > 0 /\ count \in Nat /\ MaxPackets \in Nat
  BY <1>1, NumbersAre, PacketsAssumption DEF PacketInv, Phases
<1>3. count + 1 \in 0..MaxPackets /\ count + 1 > count /\ count + 1 <= count'
  BY <1>1, <1>2
<1>4. /\ Sorted(Line)' /\ Sent(Line)' /\ Ahead(Line)' /\ Keeping'
      /\ recvQueue' \in Seq(PacketSet)
  BY <1>1, <1>2, <1>3, PacketSent
<1>5. TypeOK'
  BY <1>1, <1>3, <1>4 DEF PacketInv, TypeOK, loopVars, playerVars
<1>6. Phases'
  BY <1>1 DEF PacketInv, Phases, LoggedOut, playerVars
<1> QED BY <1>4, <1>5, <1>6 DEF PacketInv

\* So does the acknowledgement of a teleport.
LEMMA ClientAckStep ==
    ASSUME PacketInv, ClientAck
    PROVE  PacketInv'
<1>1. /\ ackDue /\ ackDue' = FALSE /\ count' = count
      /\ recvQueue' = recvQueue \o <<Packet("ack", login, 0)>>
      /\ UNCHANGED <<screen, login, told, loopVars, playerVars, socket, teleports>>
  BY DEF ClientAck, QueuePackets
<1>2. login > 0 /\ "ack" \notin Kinds /\ 0 \in 0..MaxPackets
  BY <1>1, PacketsAssumption DEF PacketInv, Phases
<1>3. /\ Sorted(Line)' /\ Sent(Line)' /\ Ahead(Line)' /\ Keeping'
      /\ recvQueue' \in Seq(PacketSet)
  BY <1>1, <1>2, PacketSent
<1>4. TypeOK'
  <2>1. ackDue' \in BOOLEAN
    BY <1>1
  <2> QED BY <2>1, <1>1, <1>3 DEF PacketInv, TypeOK, loopVars, playerVars
<1>5. Phases'
  BY <1>1 DEF PacketInv, Phases, LoggedOut, playerVars
<1> QED BY <1>3, <1>4, <1>5 DEF PacketInv

\* The client logs in again: its player has logged out.
LEMMA ClientLoginStep ==
    ASSUME PacketInv, ClientLogin
    PROVE  PacketInv'
<1> DEFINE e == Packet("enum", login + 1, 0)
           l == Packet("login", login + 1, 0)
<1>1. /\ screen /\ login < MaxLogins
      /\ login' = login + 1 /\ count' = 0 /\ screen' = FALSE
      /\ recvQueue' = recvQueue \o <<e, l>>
      /\ UNCHANGED <<ackDue, told, loopVars, playerVars, socket, teleports>>
  BY DEF ClientLogin, QueuePackets
<1>2. /\ requeue' = requeue /\ who' = who /\ told' = told /\ player' = player
      /\ loading' = loading /\ recentlyLogout' = recentlyLogout /\ upc' = upc
      /\ query' = query /\ logoutAt' = logoutAt /\ ackDue' = ackDue
  BY <1>1 DEF loopVars, playerVars
<1>3. /\ login = who /\ player = "none" /\ ~loading /\ (who > 0 => recentlyLogout)
      /\ ~told
  BY <1>1 DEF PacketInv, Phases, LoggedOut
<1>4. login \in Nat /\ who \in Nat /\ count \in Nat
  BY NumbersAre DEF PacketInv
<1>5. /\ e.kind = "enum" /\ e.login = login + 1 /\ e.num = 0
      /\ l.kind = "login" /\ l.login = login + 1 /\ l.num = 0
  BY DEF Packet
<1>6. e \in PacketSet /\ l \in PacketSet
  BY <1>1, <1>4, PacketsAssumption DEF Packet, PacketSet, AllKinds
<1> HIDE DEF e, l
<1>7. PICK s : s = <<e, l>>
  OBVIOUS
<1>8. s \in Seq(PacketSet) /\ Len(s) = 2 /\ s[1] = e /\ s[2] = l
  BY <1>6, <1>7
<1>9. ~InWorld(e) /\ ~InWorld(l) /\ Opening(e) /\ Opening(l)
  BY <1>5, PacketsAssumption DEF InWorld, Opening
<1>10. Sorted(s)
  <2>1. Before(e, l)
    BY <1>4, <1>5, <1>9 DEF Before
  <2> QED BY <1>8, <2>1 DEF Sorted
<1>11. ASSUME NEW i \in 1..Len(Line) PROVE Before(Line[i], e) /\ Before(Line[i], l)
  <2>1. Line[i].login <= login /\ Line[i].login \in Nat
    BY NumbersAre DEF PacketInv, Sent
  <2> QED BY <2>1, <1>4, <1>5, <1>9 DEF Before
<1>12. \A i \in 1..Len(Line) : \A k \in 1..Len(s) : Before(Line[i], s[k])
  BY <1>8, <1>11
<1>13. /\ Sorted(Line)' /\ recvQueue' \in Seq(PacketSet)
       /\ \A i \in 1..Len(Line') : \/ \E j \in 1..Len(Line) : Line'[i] = Line[j]
                                   \/ \E k \in 1..Len(s) : Line'[i] = s[k]
       /\ \A k \in 1..Len(s) : \E i \in 1..Len(Line') : Line'[i] = s[k]
  BY <1>1, <1>2, <1>7, <1>8, <1>10, <1>12, ClientSends
<1>14. /\ \A i \in 1..Len(Line') : \/ \E j \in 1..Len(Line) : Line'[i] = Line[j]
                                   \/ Line'[i] = e \/ Line'[i] = l
       /\ \E i \in 1..Len(Line') : Line'[i] = e
  BY <1>8, <1>13
<1>15. Sent(Line)'
  <2> SUFFICES ASSUME NEW i \in 1..Len(Line')
               PROVE  /\ who <= Line'[i].login /\ Line'[i].login <= login + 1
                      /\ Opening(Line'[i]) => who < Line'[i].login
                      /\ InWorld(Line'[i]) /\ Line'[i].login = login + 1
                            => Line'[i].num <= 0
    BY <1>1, <1>2 DEF Sent, Opening, InWorld
  <2>1. CASE Line'[i] = e \/ Line'[i] = l
    BY <2>1, <1>3, <1>4, <1>5, <1>9
  <2>2. CASE \E j \in 1..Len(Line) : Line'[i] = Line[j]
    <3>1. PICK j \in 1..Len(Line) : Line'[i] = Line[j]
      BY <2>2
    <3>2. /\ who <= Line[j].login /\ Line[j].login <= login
          /\ Opening(Line[j]) => who < Line[j].login /\ Line[j].login \in Nat
      BY NumbersAre DEF PacketInv, Sent
    <3>3. Line[j].login \in Nat
      BY NumbersAre DEF PacketInv
    <3> QED BY <3>1, <3>2, <3>3, <1>4
  <2> QED BY <2>1, <2>2, <1>14
<1>16. Ahead(Line)'
  <2>1. ASSUME NEW i \in 1..Len(Line'), Line'[i].login = who
        PROVE  recentlyLogout
    <3>1. PICK j \in 1..Len(Line) : Line'[i] = Line[j]
      BY <2>1, <1>3, <1>4, <1>5, <1>14
    <3>2. Line[j].login > 0
      BY NumbersAre DEF PacketInv
    <3> QED BY <2>1, <3>1, <3>2, <1>3
  <2>2. \E i \in 1..Len(Line') : Line'[i].kind = "enum" /\ Line'[i].login = login'
    BY <1>1, <1>5, <1>14
  <2> QED BY <2>1, <2>2, <1>1, <1>2, <1>3 DEF Ahead
<1>17. Keeping'
  BY <1>2 DEF PacketInv, Keeping
<1>18. Phases'
  BY <1>1, <1>2, <1>3, <1>4 DEF PacketInv, Phases, LoggedOut
<1>19. TypeOK'
  <2>1. screen' \in BOOLEAN
    BY <1>1
  <2>2. login' \in 0..MaxLogins /\ count' \in 0..MaxPackets
    BY <1>1, <1>4, PacketsAssumption
  <2> QED BY <2>1, <2>2, <1>1, <1>13 DEF PacketInv, TypeOK, loopVars, playerVars
<1> QED BY <1>13, <1>15, <1>16, <1>17, <1>18, <1>19 DEF PacketInv

-----------------------------------------------------------------------------
(***************************************************************************)
(* The session's steps                                                      *)
(***************************************************************************)

\* While there is a player the client is not ahead, and nothing is kept.
LEMMA PlayerIsThere ==
    ASSUME PacketInv, player # "none"
    PROVE  /\ login = who /\ who > 0 /\ login > 0 /\ ~loading /\ query = "none"
           /\ ~screen /\ ~told /\ requeue = <<>>
BY DEF PacketInv, Ahead, Phases, Keeping, LoggedOut

\* Steps that leave the line and the numbers alone.
LEMMA SameLine ==
    ASSUME PacketInv, Line' = Line, login' = login, who' = who, count' = count
    PROVE  Sorted(Line)' /\ Sent(Line)'
BY DEF PacketInv, Sorted, Sent, Before, InWorld, Opening

\* LogoutPlayer leaves the client one message behind.
LEMMA LoggingOut ==
    ASSUME PacketInv, player # "none", LogoutPlayer
    PROVE  /\ Phases' /\ login' = login /\ who' = who /\ count' = count
           /\ login = who /\ requeue = <<>>
           /\ player' \in {"none", "in", "out"} /\ who' \in 0..MaxLogins
           /\ loading' \in BOOLEAN /\ query' \in {"none", "pending", "ready"}
           /\ recentlyLogout' \in BOOLEAN /\ logoutAt' \in BOOLEAN
           /\ screen' \in BOOLEAN /\ login' \in 0..MaxLogins
           /\ count' \in 0..MaxPackets /\ ackDue' \in BOOLEAN /\ told' \in BOOLEAN
<1>1. /\ player' = "none" /\ recentlyLogout' = TRUE /\ logoutAt' = FALSE
      /\ told' = TRUE
      /\ who' = who /\ loading' = loading /\ query' = query /\ screen' = screen
      /\ login' = login /\ count' = count /\ ackDue' = ackDue
  BY DEF LogoutPlayer
<1>2. /\ login = who /\ who > 0 /\ login > 0 /\ ~loading /\ query = "none"
      /\ ~screen /\ ~told /\ requeue = <<>>
  BY PlayerIsThere
<1>3. Phases'
  BY <1>1, <1>2 DEF Phases, LoggedOut
<1>4. recentlyLogout' \in BOOLEAN /\ logoutAt' \in BOOLEAN /\ told' \in BOOLEAN
  BY <1>1
<1> QED BY <1>1, <1>2, <1>3, <1>4 DEF PacketInv, TypeOK

\* The client reads SMSG_LOGOUT_COMPLETE: it is at the character screen.
LEMMA ClientLoggedOutStep ==
    ASSUME PacketInv, ClientLoggedOut
    PROVE  PacketInv'
<1>1. /\ told /\ told' = FALSE /\ screen' = TRUE /\ ackDue' = FALSE
      /\ UNCHANGED <<login, count, recvQueue, loopVars, playerVars, socket, teleports>>
  BY DEF ClientLoggedOut
<1>2. /\ requeue' = requeue /\ who' = who /\ player' = player
      /\ loading' = loading /\ recentlyLogout' = recentlyLogout /\ upc' = upc
      /\ query' = query /\ logoutAt' = logoutAt
  BY <1>1 DEF loopVars, playerVars
<1>3. Line' = Line
  BY <1>1, <1>2 DEF Line
<1>4. LoggedOut
  BY <1>1 DEF PacketInv, Phases
<1>5. Ahead(Line)' /\ Keeping'
  BY <1>1, <1>2, <1>4 DEF PacketInv, Ahead, Keeping, LoggedOut
<1>6. Phases'
  BY <1>1, <1>2, <1>4 DEF PacketInv, Phases, LoggedOut
<1>7. TypeOK'
  <2>1. told' \in BOOLEAN /\ screen' \in BOOLEAN /\ ackDue' \in BOOLEAN
    BY <1>1
  <2> QED BY <2>1, <1>1, <1>2 DEF PacketInv, TypeOK, loopVars
<1> QED BY <1>1, <1>2, <1>3, <1>5, <1>6, <1>7, SameLine DEF PacketInv

\* A lost connection leaves the line as it is.
LEMMA SocketClosedStep ==
    ASSUME PacketInv, SocketClosed
    PROVE  PacketInv'
<1>1. /\ socket' = "closed"
      /\ UNCHANGED <<clientVars, recvQueue, loopVars, playerVars, teleports>>
  BY DEF SocketClosed
<1>2. Line' = Line
  BY <1>1 DEF Line, loopVars
<1>3. TypeOK' /\ Ahead(Line)' /\ Phases' /\ Keeping'
  BY <1>1, <1>2 DEF PacketInv, TypeOK, Ahead, Phases, Keeping, LoggedOut, clientVars,
                    loopVars, playerVars
<1>4. Sorted(Line)' /\ Sent(Line)'
  BY <1>1, <1>2, SameLine DEF clientVars, playerVars
<1> QED BY <1>3, <1>4 DEF PacketInv

\* The characters of the login are read: nobody has looked at them yet.
LEMMA LoginQueryReadyStep ==
    ASSUME PacketInv, LoginQueryReady
    PROVE  PacketInv'
<1>1. /\ query = "pending" /\ query' = "ready"
      /\ UNCHANGED <<clientVars, recvQueue, loopVars, player, who, loading,
                     recentlyLogout, logoutAt, socket, teleports>>
  BY DEF LoginQueryReady
<1>2. Line' = Line
  BY <1>1 DEF Line, loopVars
<1>3. TypeOK' /\ Ahead(Line)' /\ Phases' /\ Keeping'
  BY <1>1, <1>2 DEF PacketInv, TypeOK, Ahead, Phases, Keeping, LoggedOut, clientVars,
                    loopVars
<1>4. Sorted(Line)' /\ Sent(Line)'
  BY <1>1, <1>2, SameLine DEF clientVars
<1> QED BY <1>3, <1>4 DEF PacketInv

\* A round starts with nothing set aside.
LEMMA StartUpdateStep ==
    ASSUME PacketInv, NEW f \in {"world", "map"}, StartUpdate(f)
    PROVE  PacketInv'
<1>1. /\ upc = "idle" /\ filter' = f /\ processed' = 0 /\ upc' = "loop"
      /\ UNCHANGED <<requeue, clientVars, recvQueue, playerVars, socket, teleports>>
  BY DEF StartUpdate
<1>2. Line' = Line
  BY <1>1 DEF Line
<1>3. TypeOK'
  BY <1>1, PacketsAssumption DEF PacketInv, TypeOK, clientVars, playerVars
<1>4. Ahead(Line)' /\ Phases' /\ Keeping'
  BY <1>1, <1>2 DEF PacketInv, Ahead, Phases, Keeping, LoggedOut, clientVars, playerVars
<1>5. Sorted(Line)' /\ Sent(Line)'
  BY <1>1, <1>2, SameLine DEF clientVars, playerVars
<1> QED BY <1>3, <1>4, <1>5 DEF PacketInv

\* Putting back what was set aside keeps the line: it only moves the border.
LEMMA ReaddStep ==
    ASSUME PacketInv, Readd
    PROVE  PacketInv'
<1>1. /\ recvQueue' = requeue \o recvQueue /\ requeue' = <<>> /\ upc' = "callbacks"
      /\ UNCHANGED <<filter, processed, clientVars, playerVars, socket, teleports>>
  BY DEF Readd
<1>2. Line' = Line /\ requeue' \in Seq(PacketSet) /\ recvQueue' \in Seq(PacketSet)
  BY <1>1, ReaddedLine DEF PacketInv
<1>3. TypeOK'
  BY <1>1, <1>2 DEF PacketInv, TypeOK, clientVars, playerVars
<1>4. Ahead(Line)' /\ Phases'
  BY <1>1, <1>2 DEF PacketInv, Ahead, Phases, LoggedOut, clientVars, playerVars
<1>5. Keeping'
  <2>1. Len(requeue') = 0
    BY <1>1
  <2> QED BY <1>1, <2>1 DEF Keeping
<1>6. Sorted(Line)' /\ Sent(Line)'
  BY <1>1, <1>2, SameLine DEF clientVars, playerVars
<1> QED BY <1>3, <1>4, <1>5, <1>6 DEF PacketInv

\* A far teleport takes the player out of the world, and the line stays.
LEMMA TeleportToStep ==
    ASSUME PacketInv, TeleportTo
    PROVE  PacketInv'
<1>1. /\ player = "in" /\ teleports < MaxTeleports /\ teleports' = teleports + 1
      /\ player' = "out" /\ ackDue' = TRUE
      /\ UNCHANGED <<screen, login, count, told, recvQueue, loopVars, who, loading,
                     query, recentlyLogout, logoutAt, socket>>
  BY DEF TeleportTo, SendAway
<1>2. Line' = Line
  BY <1>1 DEF Line, loopVars
<1>3. /\ login = who /\ who > 0 /\ login > 0 /\ ~loading /\ query = "none"
      /\ ~screen /\ ~told /\ requeue = <<>>
  BY <1>1, PlayerIsThere
<1>4. TypeOK'
  <2>1. ackDue' \in BOOLEAN /\ teleports' \in 0..MaxTeleports
    BY <1>1, PacketsAssumption DEF PacketInv, TypeOK
  <2> QED BY <2>1, <1>1 DEF PacketInv, TypeOK, loopVars
<1>5. Ahead(Line)'
  BY <1>1, <1>3 DEF Ahead
<1>6. Phases'
  BY <1>1, <1>3 DEF PacketInv, Phases, LoggedOut
<1>7. Keeping'
  BY <1>1, <1>3 DEF PacketInv, Keeping, loopVars
<1>8. Sorted(Line)' /\ Sent(Line)'
  BY <1>1, <1>2, SameLine
<1> QED BY <1>4, <1>5, <1>6, <1>7, <1>8 DEF PacketInv

\* The login that was waited for ends, with a player or without.
LEMMA ProcessQueryCallbacksStep ==
    ASSUME PacketInv, ProcessQueryCallbacks
    PROVE  PacketInv'
<1>1. /\ upc = "callbacks" /\ upc' \in {"logout", "idle"}
      /\ UNCHANGED <<clientVars, recvQueue, filter, processed, requeue, teleports>>
      /\ who' = who /\ recentlyLogout' = recentlyLogout /\ logoutAt' = logoutAt
  BY DEF ProcessQueryCallbacks, playerVars
<1>2. Line' = Line
  BY <1>1 DEF Line
<1>3. requeue = <<>>
  BY <1>1 DEF PacketInv, Keeping
<1>4. CASE query # "ready"
  <2>1. UNCHANGED <<playerVars, socket>>
    BY <1>4 DEF ProcessQueryCallbacks
  <2>2. TypeOK' /\ Ahead(Line)' /\ Phases' /\ Keeping'
    BY <1>1, <1>2, <1>3, <2>1 DEF PacketInv, TypeOK, Ahead, Phases, Keeping, LoggedOut,
                                  clientVars, playerVars
  <2>3. Sorted(Line)' /\ Sent(Line)'
    BY <1>1, <1>2, SameLine DEF clientVars
  <2> QED BY <2>2, <2>3 DEF PacketInv
<1>5. CASE query = "ready"
  <2>1. /\ query' = "none" /\ loading' = FALSE
        /\ player' \in {"in", player} /\ socket' \in {socket, "closed"}
    BY <1>5 DEF ProcessQueryCallbacks
  <2>2. loading /\ player = "none" /\ ~recentlyLogout /\ login = who /\ who > 0
    BY <1>5 DEF PacketInv, Phases, Ahead
  <2>3. ~screen /\ ~told /\ ~logoutAt
    BY <2>2 DEF PacketInv, Phases, LoggedOut
  <2>4. TypeOK'
    <3>1. loading' \in BOOLEAN
      BY <2>1
    <3> QED BY <1>1, <2>1, <3>1 DEF PacketInv, TypeOK, clientVars
  <2>5. Ahead(Line)' /\ Keeping'
    BY <1>1, <1>3, <2>2 DEF PacketInv, Ahead, Keeping, clientVars
  <2>6. Phases'
    BY <1>1, <2>1, <2>2, <2>3 DEF PacketInv, Phases, LoggedOut, clientVars
  <2>7. Sorted(Line)' /\ Sent(Line)'
    BY <1>1, <1>2, SameLine DEF clientVars
  <2> QED BY <2>4, <2>5, <2>6, <2>7 DEF PacketInv
<1> QED BY <1>4, <1>5

\* The time of a requested logout has come.
LEMMA LogoutNowStep ==
    ASSUME PacketInv, LogoutNow
    PROVE  PacketInv'
<1>1. /\ logoutAt /\ LogoutPlayer
      /\ UNCHANGED <<recvQueue, loopVars, socket, teleports>>
  BY DEF LogoutNow
<1>2. player # "none"
  BY <1>1 DEF PacketInv, Phases
<1>3. Line' = Line
  BY <1>1 DEF Line, loopVars
<1>4. TypeOK'
  BY <1>1, <1>2, LoggingOut DEF PacketInv, TypeOK, loopVars
<1>5. Ahead(Line)' /\ Keeping' /\ Phases'
  BY <1>1, <1>2, LoggingOut DEF PacketInv, Ahead, Keeping, loopVars
<1>6. Sorted(Line)' /\ Sent(Line)'
  BY <1>1, <1>2, <1>3, LoggingOut, SameLine
<1> QED BY <1>4, <1>5, <1>6 DEF PacketInv

\* The end of a round; without a socket the player is logged out.
LEMMA EndUpdateStep ==
    ASSUME PacketInv, EndUpdate
    PROVE  PacketInv'
<1>1. /\ upc = "logout" /\ upc' \in {"idle", "gone"} /\ socket' \in {socket, "none"}
      /\ UNCHANGED <<recvQueue, filter, processed, requeue, teleports>>
  BY DEF EndUpdate
<1>2. Line' = Line /\ requeue = <<>>
  BY <1>1 DEF Line, PacketInv, Keeping
<1>3. CASE UNCHANGED <<clientVars, playerVars>>
  <2>1. TypeOK' /\ Ahead(Line)' /\ Phases' /\ Keeping'
    BY <1>1, <1>2, <1>3 DEF PacketInv, TypeOK, Ahead, Phases, Keeping, LoggedOut,
                            clientVars, playerVars
  <2>2. Sorted(Line)' /\ Sent(Line)'
    BY <1>3, <1>2, SameLine DEF clientVars, playerVars
  <2> QED BY <2>1, <2>2 DEF PacketInv
<1>4. CASE player # "none" /\ LogoutPlayer
  <2>1. TypeOK'
    BY <1>1, <1>4, LoggingOut DEF PacketInv, TypeOK
  <2>2. Ahead(Line)' /\ Keeping' /\ Phases'
    BY <1>1, <1>2, <1>4, LoggingOut DEF PacketInv, Ahead, Keeping
  <2>3. Sorted(Line)' /\ Sent(Line)'
    BY <1>2, <1>4, LoggingOut, SameLine
  <2> QED BY <2>1, <2>2, <2>3 DEF PacketInv
<1> QED BY <1>3, <1>4 DEF EndUpdate

-----------------------------------------------------------------------------
(***************************************************************************)
(* The rounds of the loop                                                   *)
(***************************************************************************)

\* What every handler does: take the packet at the head of _recvQueue.
LEMMA Taking ==
    ASSUME PacketInv, More, NEW what, Take(what)
    PROVE  /\ recvQueue' = Tail(recvQueue) /\ recvQueue' \in Seq(PacketSet)
           /\ processed' \in 0..(MaxProcessed + 1) /\ upc' = upc /\ filter' = filter
           /\ upc = "loop"
<1>1. recvQueue # <<>> /\ upc = "loop" /\ processed <= MaxProcessed
  BY DEF More
<1>2. /\ recvQueue' = Tail(recvQueue) /\ processed' = processed + 1
      /\ upc' = upc /\ filter' = filter
  BY DEF Take
<1>3. recvQueue' \in Seq(PacketSet)
  BY <1>1, <1>2, FrontIs DEF PacketInv
<1>4. processed' \in 0..(MaxProcessed + 1)
  BY <1>1, <1>2, PacketsAssumption DEF PacketInv, TypeOK
<1> QED BY <1>1, <1>2, <1>3, <1>4

\* A packet that comes too early is set aside behind the others set aside.
LEMMA RequeueStep ==
    ASSUME PacketInv, Requeue
    PROVE  PacketInv'
<1>1. /\ More /\ Keeps(Head(recvQueue).kind) /\ Take("kept")
      /\ requeue' = Append(requeue, Head(recvQueue))
      /\ UNCHANGED <<clientVars, playerVars, socket, teleports>>
  BY DEF Requeue
<1>2. /\ recvQueue' = Tail(recvQueue) /\ upc' = upc /\ filter' = filter
      /\ processed' \in 0..(MaxProcessed + 1) /\ upc = "loop"
  BY <1>1, Taking
<1>3. Head(recvQueue) \in PacketSet /\ recvQueue # <<>>
  BY <1>1, AtFront
<1>4. Line' = Line /\ requeue' \in Seq(PacketSet) /\ recvQueue' \in Seq(PacketSet)
  BY <1>1, <1>2, <1>3, KeptLine DEF PacketInv
<1>5. player = "none" /\ ~recentlyLogout /\ Head(recvQueue).kind \in Kinds
  <2>1. player = "none" /\ ~recentlyLogout /\ Status(Head(recvQueue).kind) = "LOGGEDIN"
    BY <1>1 DEF Keeps
  <2>2. Head(recvQueue).kind \in AllKinds
    BY <1>3, PacketFields
  <2> QED BY <2>1, <2>2, KindsAre
<1>6. Keeping'
  <2>1. /\ Len(requeue') = Len(requeue) + 1 /\ Len(requeue) \in Nat
        /\ \A i \in 1..Len(requeue) : requeue'[i] = requeue[i]
        /\ requeue'[Len(requeue) + 1] = Head(recvQueue)
    BY <1>1, <1>3, AppendProperties, LenProperties DEF PacketInv, TypeOK
  <2>2. ASSUME NEW i \in 1..Len(requeue') PROVE requeue'[i].kind \in Kinds
    <3>1. CASE i = Len(requeue) + 1
      BY <3>1, <2>1, <1>5
    <3>2. CASE i \in 1..Len(requeue)
      BY <3>2, <2>1 DEF PacketInv, Keeping
    <3> QED BY <2>1, <3>1, <3>2
  <2> QED BY <2>2, <1>1, <1>2, <1>5 DEF Keeping, playerVars
<1>7. TypeOK'
  BY <1>1, <1>2, <1>4 DEF PacketInv, TypeOK, clientVars, playerVars
<1>8. Ahead(Line)' /\ Phases'
  BY <1>1, <1>4 DEF PacketInv, Ahead, Phases, LoggedOut, clientVars, playerVars
<1>9. Sorted(Line)' /\ Sent(Line)'
  BY <1>1, <1>4, SameLine DEF clientVars, playerVars
<1> QED BY <1>6, <1>7, <1>8, <1>9 DEF PacketInv

\* Handlers that change nothing but the time of the logout, and packets that
\* are thrown away.
LEMMA QuietStep ==
    ASSUME PacketInv, More, NEW what, Take(what), Head(recvQueue).kind # "enum",
           UNCHANGED <<requeue, clientVars, player, who, loading, query,
                       recentlyLogout, teleports>>,
           socket' \in {socket, "closed"},
           logoutAt' \in BOOLEAN, logoutAt' => player # "none"
    PROVE  PacketInv'
<1>1. /\ recvQueue' = Tail(recvQueue) /\ recvQueue' \in Seq(PacketSet)
      /\ processed' \in 0..(MaxProcessed + 1) /\ upc' = upc /\ filter' = filter
  BY Taking
<1>2. /\ login' = login /\ count' = count /\ screen' = screen /\ told' = told
      /\ ackDue' = ackDue
  BY DEF clientVars
<1>3. Sorted(Line)' /\ Sent(Line)'
  BY <1>1, <1>2, TakeKeeps
<1>4. Ahead(Line)'
  BY <1>1, <1>2, TakeAhead
<1>5. Phases'
  BY <1>2 DEF PacketInv, Phases, LoggedOut
<1>6. Keeping'
  BY <1>1 DEF PacketInv, Keeping
<1>7. TypeOK'
  BY <1>1, <1>2 DEF PacketInv, TypeOK
<1> QED BY <1>3, <1>4, <1>5, <1>6, <1>7 DEF PacketInv

\* A packet that the state of the session does not allow is thrown away.
LEMMA DropStep ==
    ASSUME PacketInv, Drop
    PROVE  PacketInv'
<1>1. /\ More /\ ~Accepts(Head(recvQueue).kind) /\ Take("dropped")
      /\ UNCHANGED <<requeue, clientVars, playerVars, socket, teleports>>
  BY DEF Drop
<1>2. Head(recvQueue).kind # "enum"
  <2>1. Status("enum") = "AUTHED"
    BY KindsAre DEF AllKinds
  <2> QED BY <1>1, <2>1 DEF Accepts
<1>3. logoutAt' \in BOOLEAN /\ (logoutAt' => player # "none")
  BY <1>1 DEF PacketInv, TypeOK, Phases, playerVars
<1> QED BY <1>1, <1>2, <1>3, QuietStep DEF playerVars

\* An ordinary packet is handled.
LEMMA HandlePacketStep ==
    ASSUME PacketInv, HandlePacket
    PROVE  PacketInv'
<1>1. /\ More /\ Head(recvQueue).kind # "enum" /\ Take("handled")
      /\ UNCHANGED <<requeue, clientVars, playerVars, socket, teleports>>
  BY DEF HandlePacket
<1>2. logoutAt' \in BOOLEAN /\ (logoutAt' => player # "none")
  BY <1>1 DEF PacketInv, TypeOK, Phases, playerVars
<1> QED BY <1>1, <1>2, QuietStep DEF playerVars

\* The player cancels the logout.
LEMMA HandleLogoutCancelStep ==
    ASSUME PacketInv, HandleLogoutCancel
    PROVE  PacketInv'
<1>1. /\ More /\ Head(recvQueue).kind # "enum" /\ Take("handled")
      /\ logoutAt' = IF player = "none" THEN logoutAt ELSE FALSE
      /\ UNCHANGED <<requeue, player, who, loading, query, recentlyLogout,
                     clientVars, socket, teleports>>
  BY DEF HandleLogoutCancel
<1>2. logoutAt' \in BOOLEAN /\ (logoutAt' => player # "none")
  BY <1>1 DEF PacketInv, TypeOK, Phases
<1> QED BY <1>1, <1>2, QuietStep

\* m_playerRecentlyLogout is over: what was in front of the CMSG_CHAR_ENUM is gone.
LEMMA EnumStep ==
    ASSUME PacketInv, More, NEW what, Take(what), Head(recvQueue).kind = "enum",
           recentlyLogout' = FALSE, socket' \in {socket, "closed"},
           UNCHANGED <<requeue, clientVars, player, who, loading, query, logoutAt,
                       teleports>>
    PROVE  PacketInv'
<1>1. /\ recvQueue' = Tail(recvQueue) /\ recvQueue' \in Seq(PacketSet)
      /\ processed' \in 0..(MaxProcessed + 1) /\ upc' = upc /\ filter' = filter
  BY Taking
<1>2. /\ login' = login /\ count' = count /\ screen' = screen /\ told' = told
      /\ ackDue' = ackDue
  BY DEF clientVars
<1>3. Sorted(Line)' /\ Sent(Line)'
  BY <1>1, <1>2, TakeKeeps
<1>4. Ahead(Line)'
  BY <1>1, <1>2, TakeAhead
<1>5. login # who
  <2>1. /\ who < Head(recvQueue).login /\ Head(recvQueue).login <= login
        /\ Head(recvQueue).login \in Nat /\ who \in Nat /\ login \in Nat
    BY AtFront, PacketFields DEF Opening
  <2> QED BY <2>1
<1>6. ~screen /\ ~told
  BY <1>5 DEF PacketInv, Ahead
<1>7. Phases'
  BY <1>2, <1>6 DEF PacketInv, Phases
<1>8. Keeping'
  BY <1>1 DEF PacketInv, Keeping
<1>9. TypeOK'
  <2>1. recentlyLogout' \in BOOLEAN
    OBVIOUS
  <2> QED BY <1>1, <1>2, <2>1 DEF PacketInv, TypeOK
<1> QED BY <1>3, <1>4, <1>7, <1>8, <1>9 DEF PacketInv

\* CMSG_CHAR_ENUM is handled.
LEMMA HandleCharEnumStep ==
    ASSUME PacketInv, HandleCharEnum
    PROVE  PacketInv'
<1>1. /\ More /\ Head(recvQueue).kind = "enum" /\ Take("handled")
      /\ recentlyLogout' = FALSE
      /\ UNCHANGED <<requeue, clientVars, player, who, loading, query, logoutAt,
                     socket, teleports>>
  BY DEF HandleCharEnum
<1> QED BY <1>1, EnumStep

\* One packet too many: the session is kicked.
LEMMA RefuseFloodStep ==
    ASSUME PacketInv, RefuseFlood
    PROVE  PacketInv'
<1>1. /\ More /\ Take("refused") /\ socket' = "closed"
      /\ recentlyLogout' = (recentlyLogout /\ Head(recvQueue).kind # "enum")
      /\ UNCHANGED <<requeue, clientVars, player, who, loading, query, logoutAt,
                     teleports>>
  BY DEF RefuseFlood
<1>2. CASE Head(recvQueue).kind = "enum"
  <2>1. recentlyLogout' = FALSE
    BY <1>1, <1>2
  <2> QED BY <1>1, <1>2, <2>1, EnumStep
<1>3. CASE Head(recvQueue).kind # "enum"
  <2>1. recentlyLogout' = recentlyLogout
    BY <1>1, <1>3 DEF PacketInv, TypeOK
  <2>2. logoutAt' \in BOOLEAN /\ (logoutAt' => player # "none")
    BY <1>1 DEF PacketInv, TypeOK, Phases
  <2> QED BY <1>1, <1>3, <2>1, <2>2, QuietStep
<1> QED BY <1>2, <1>3

\* A handler that logs the player out.
LEMMA TakeAndLogOut ==
    ASSUME PacketInv, More, NEW what, Take(what), player # "none", LogoutPlayer,
           UNCHANGED <<requeue, socket, teleports>>
    PROVE  PacketInv'
<1>1. /\ recvQueue' = Tail(recvQueue) /\ recvQueue' \in Seq(PacketSet)
      /\ processed' \in 0..(MaxProcessed + 1) /\ upc' = upc /\ filter' = filter
  BY Taking
<1>2. /\ Phases' /\ login' = login /\ who' = who /\ count' = count
      /\ login = who /\ requeue = <<>>
  BY LoggingOut
<1>3. TypeOK'
  BY <1>1, LoggingOut DEF PacketInv, TypeOK
<1>4. Sorted(Line)' /\ Sent(Line)'
  BY <1>1, <1>2, TakeKeeps
<1>5. Ahead(Line)' /\ Keeping'
  BY <1>2 DEF PacketInv, Ahead, Keeping
<1> QED BY <1>2, <1>3, <1>4, <1>5 DEF PacketInv

\* CMSG_LOGOUT_REQUEST, at once or at a later time.
LEMMA HandleLogoutRequestStep ==
    ASSUME PacketInv, HandleLogoutRequest
    PROVE  PacketInv'
<1>1. /\ More /\ Head(recvQueue).kind = "logout" /\ Take("handled")
      /\ Accepts("logout") /\ UNCHANGED <<requeue, socket, teleports>>
  BY DEF HandleLogoutRequest
<1>2. player = "in"
  <2>1. "logout" \in AllKinds
    BY <1>1, AtFront
  <2>2. Status("logout") = "LOGGEDIN"
    BY DEF Status
  <2> QED BY <1>1, <2>2 DEF Accepts
<1>3. CASE LogoutPlayer
  BY <1>1, <1>2, <1>3, TakeAndLogOut
<1>4. CASE /\ logoutAt' \in BOOLEAN
           /\ UNCHANGED <<player, who, loading, query, recentlyLogout, clientVars>>
  BY <1>1, <1>2, <1>4, QuietStep
<1> QED BY <1>3, <1>4 DEF HandleLogoutRequest

\* The far teleport ends, or the player cannot enter the map and is logged out.
LEMMA HandleMoveWorldportAckStep ==
    ASSUME PacketInv, HandleMoveWorldportAck
    PROVE  PacketInv'
<1>1. /\ More /\ Head(recvQueue).kind = "ack" /\ Take("handled")
      /\ Accepts("ack") /\ UNCHANGED <<requeue, socket>>
  BY DEF HandleMoveWorldportAck
<1>2. player = "out"
  <2>1. Status("ack") = "TRANSFER"
    BY DEF Status
  <2> QED BY <1>1, <2>1 DEF Accepts
<1>3. /\ login = who /\ who > 0 /\ login > 0 /\ ~loading /\ query = "none"
      /\ ~screen /\ ~told /\ requeue = <<>>
  BY <1>2, PlayerIsThere
<1>4. /\ recvQueue' = Tail(recvQueue) /\ recvQueue' \in Seq(PacketSet)
      /\ processed' \in 0..(MaxProcessed + 1) /\ upc' = upc /\ filter' = filter
  BY <1>1, Taking
<1>5. CASE LogoutPlayer /\ UNCHANGED teleports
  BY <1>1, <1>2, <1>5, TakeAndLogOut
<1>6. ASSUME /\ player' \in {"in", "out"}
             /\ teleports' \in 0..MaxTeleports /\ ackDue' \in BOOLEAN
             /\ UNCHANGED <<screen, login, count, told, who, loading, query,
                            recentlyLogout, logoutAt>>
      PROVE  PacketInv'
  <2>1. Sorted(Line)' /\ Sent(Line)'
    BY <1>1, <1>4, <1>6, TakeKeeps
  <2>2. Ahead(Line)' /\ Keeping'
    BY <1>1, <1>3, <1>6 DEF PacketInv, Ahead, Keeping
  <2>3. Phases'
    BY <1>3, <1>6 DEF PacketInv, Phases, LoggedOut
  <2>4. TypeOK'
    BY <1>1, <1>4, <1>6 DEF PacketInv, TypeOK
  <2> QED BY <2>1, <2>2, <2>3, <2>4 DEF PacketInv
<1>7. CASE /\ player' = "in"
           /\ UNCHANGED <<who, loading, query, recentlyLogout, logoutAt,
                          clientVars, teleports>>
  <2>1. teleports' \in 0..MaxTeleports /\ ackDue' \in BOOLEAN
    BY <1>7 DEF PacketInv, TypeOK, clientVars
  <2> QED BY <1>6, <1>7, <2>1 DEF clientVars
<1>8. CASE SendAway /\ UNCHANGED <<who, loading, query, recentlyLogout, logoutAt>>
  <2>1. /\ teleports < MaxTeleports /\ teleports' = teleports + 1
        /\ player' = "out" /\ ackDue' = TRUE
        /\ UNCHANGED <<screen, login, count, told>>
    BY <1>8 DEF SendAway
  <2>2. teleports' \in 0..MaxTeleports /\ ackDue' \in BOOLEAN
    BY <2>1, PacketsAssumption DEF PacketInv, TypeOK
  <2> QED BY <1>6, <1>8, <2>1, <2>2
<1> QED BY <1>5, <1>7, <1>8 DEF HandleMoveWorldportAck

\* The login of the player that the client waits for: nothing of an earlier one
\* is left in the line.
LEMMA HandlePlayerLoginStep ==
    ASSUME PacketInv, HandlePlayerLogin
    PROVE  PacketInv'
<1> DEFINE x == Head(recvQueue)
           a == Len(requeue)
<1>1. /\ More /\ x.kind = "login" /\ Take("handled")
      /\ UNCHANGED <<requeue, clientVars, player, recentlyLogout, logoutAt,
                     socket, teleports>>
  BY DEF HandlePlayerLogin
<1>2. /\ recvQueue' = Tail(recvQueue) /\ recvQueue' \in Seq(PacketSet)
      /\ processed' \in 0..(MaxProcessed + 1) /\ upc' = upc /\ filter' = filter
  BY <1>1, Taking
<1>3. /\ recvQueue # <<>> /\ x \in PacketSet /\ x.login \in Nat /\ x.login <= MaxLogins
      /\ a + 1 \in 1..Len(Line) /\ Line[a + 1] = x
      /\ who < x.login /\ x.login <= login /\ login \in Nat /\ who \in Nat
  BY <1>1, AtFront, PacketFields DEF Opening
<1>4. /\ login # who /\ login = who + 1 /\ x.login = login
      /\ player = "none" /\ ~loading /\ ~told /\ ~screen
      /\ recentlyLogout =>
            \E i \in 1..Len(Line) : Line[i].kind = "enum" /\ Line[i].login = login
  BY <1>3 DEF PacketInv, Ahead
<1>5. loading' = TRUE /\ query' = "pending" /\ who' = x.login
  BY <1>4 DEF HandlePlayerLogin
<1>6. a \in Nat /\ Len(Line) \in Nat /\ \A i \in 1..a : Line[i] = requeue[i]
  BY LineIs DEF PacketInv
<1> HIDE DEF x, a
<1>7. ASSUME NEW j \in 1..Len(Line), j # a + 1
      PROVE  Line[j].login = login /\ ~Opening(Line[j])
  <2>1. /\ who <= Line[j].login /\ Line[j].login <= login /\ Line[j].login \in Nat
    BY NumbersAre DEF PacketInv, Sent
  <2>2. Line[j].login # who
    BY <1>1, <1>3, <1>4, StaleFirst DEF x
  <2>3. Line[j].login = login
    BY <1>4, <2>1, <2>2, <1>3
  <2>4. CASE j < a + 1
    <3>1. Before(Line[j], x)
      BY <1>3, <2>4 DEF PacketInv, Sorted
    <3>2. Line[j].kind = "enum"
      BY <3>1, <1>1, <1>4, <2>3 DEF Before, x
    <3>3. Line[j].kind \in Kinds
      BY <1>6, <2>4 DEF PacketInv, Keeping, a
    <3> QED BY <3>2, <3>3, PacketsAssumption
  <2>5. CASE j > a + 1
    <3>1. Before(x, Line[j])
      BY <1>3, <2>5 DEF PacketInv, Sorted
    <3>2. Line[j].kind # "enum"
      BY <3>1, <1>3, <1>4, <2>3 DEF Before
    <3>3. Line[j].kind # "login"
      BY <3>1, <1>1, <1>4, <2>3 DEF Before, x
    <3> QED BY <2>3, <3>2, <3>3 DEF Opening
  <2> QED BY <2>4, <2>5, <1>6, <1>7
<1>8. ~recentlyLogout
  <2> SUFFICES ASSUME recentlyLogout PROVE FALSE
    OBVIOUS
  <2>1. PICK j \in 1..Len(Line) : Line[j].kind = "enum" /\ Line[j].login = login
    BY <1>4
  <2>2. j # a + 1
    BY <2>1, <1>1, <1>3 DEF x
  <2> QED BY <2>1, <2>2, <1>7 DEF Opening
<1>9. /\ login' = login /\ count' = count /\ screen' = screen /\ told' = told
      /\ ackDue' = ackDue /\ requeue' = requeue /\ player' = player
      /\ recentlyLogout' = recentlyLogout /\ logoutAt' = logoutAt
  BY <1>1 DEF clientVars
<1>10. /\ Sorted(Line')
       /\ \A i \in 1..Len(Line') :
             \E j \in 1..Len(Line) \ {a + 1} : Line'[i] = Line[j]
  BY <1>2, <1>3, <1>9, TakenLine DEF PacketInv, a
<1>11. Sorted(Line)'
  BY <1>10 DEF Sorted, Before, InWorld
<1>12. Sent(Line)'
  <2> SUFFICES ASSUME NEW i \in 1..Len(Line')
               PROVE  /\ login <= Line'[i].login /\ Line'[i].login <= login
                      /\ Opening(Line'[i]) => login < Line'[i].login
                      /\ InWorld(Line'[i]) /\ Line'[i].login = login
                            => Line'[i].num <= count
    BY <1>4, <1>5, <1>9 DEF Sent, Opening, InWorld
  <2>1. PICK j \in 1..Len(Line) : j # a + 1 /\ Line'[i] = Line[j]
    BY <1>10
  <2>2. Line[j].login = login /\ ~Opening(Line[j])
    BY <2>1, <1>7
  <2>3. InWorld(Line[j]) /\ Line[j].login = login => Line[j].num <= count
    BY DEF PacketInv, Sent
  <2> QED BY <1>3, <2>1, <2>2, <2>3
<1>13. Ahead(Line)'
  BY <1>4, <1>5, <1>9 DEF Ahead
<1>14. Phases'
  BY <1>3, <1>4, <1>5, <1>8, <1>9 DEF PacketInv, Phases
<1>15. Keeping'
  BY <1>2, <1>9 DEF PacketInv, Keeping
<1>16. TypeOK'
  <2>1. loading' \in BOOLEAN /\ who' \in 0..MaxLogins
    BY <1>3, <1>5, PacketsAssumption
  <2> QED BY <2>1, <1>1, <1>2, <1>5, <1>9 DEF PacketInv, TypeOK
<1> QED BY <1>11, <1>12, <1>13, <1>14, <1>15, <1>16 DEF PacketInv

-----------------------------------------------------------------------------
(***************************************************************************)
(* Theorems                                                                 *)
(***************************************************************************)

\* The inductive invariant holds at first,
LEMMA InitHolds == Init => PacketInv
<1> SUFFICES ASSUME Init PROVE PacketInv
  OBVIOUS
<1>1. Line = <<>> /\ Len(Line) = 0 /\ Len(requeue) = 0
  BY DEF Init, Line
<1>2. TypeOK
  <2>1. /\ screen \in BOOLEAN /\ ackDue \in BOOLEAN /\ told \in BOOLEAN
        /\ loading \in BOOLEAN /\ recentlyLogout \in BOOLEAN /\ logoutAt \in BOOLEAN
    BY DEF Init
  <2>2. /\ login \in 0..MaxLogins /\ count \in 0..MaxPackets /\ who \in 0..MaxLogins
        /\ processed \in 0..(MaxProcessed + 1) /\ teleports \in 0..MaxTeleports
    BY PacketsAssumption DEF Init
  <2>3. recvQueue \in Seq(PacketSet) /\ requeue \in Seq(PacketSet)
    BY EmptySeq DEF Init
  <2>4. /\ upc = "idle" /\ filter = "world" /\ player = "none" /\ query = "none"
        /\ socket = "open"
    BY DEF Init
  <2> QED BY <2>1, <2>2, <2>3, <2>4 DEF TypeOK
<1>3. Sorted(Line) /\ Sent(Line) /\ Ahead(Line) /\ Keeping
  BY <1>1 DEF Init, Sorted, Sent, Ahead, Keeping
<1>4. Phases
  BY DEF Init, Phases, LoggedOut
<1> QED BY <1>2, <1>3, <1>4 DEF PacketInv

\* A stuttering step changes nothing that the invariant reads.
LEMMA StutterStep ==
    ASSUME PacketInv, UNCHANGED vars
    PROVE  PacketInv'
<1>1. Line' = Line
  BY DEF vars, loopVars, Line
<1>2. Sorted(Line)' /\ Sent(Line)'
  BY <1>1, SameLine DEF vars, clientVars, playerVars
<1>3. TypeOK' /\ Ahead(Line)' /\ Phases' /\ Keeping'
  BY <1>1 DEF PacketInv, vars, clientVars, loopVars, playerVars, TypeOK, Ahead, Phases,
              Keeping, LoggedOut
<1> QED BY <1>2, <1>3 DEF PacketInv

\* every step keeps it,
LEMMA StepHolds == PacketInv /\ [Next]_vars => PacketInv'
<1> SUFFICES ASSUME PacketInv, [Next]_vars PROVE PacketInv'
  OBVIOUS
<1>1. CASE ClientLogin \/ ClientAck \/ ClientLoggedOut \/ SocketClosed \/ LoginQueryReady
  BY <1>1, ClientLoginStep, ClientAckStep, ClientLoggedOutStep, SocketClosedStep,
     LoginQueryReadyStep
<1>2. CASE \E k \in Kinds : ClientPlays(k)
  BY <1>2, ClientPlaysStep
<1>3. CASE \E f \in {"world", "map"} : StartUpdate(f)
  BY <1>3, StartUpdateStep
<1>4. CASE Handle
  BY <1>4, RequeueStep, DropStep, RefuseFloodStep, HandlePacketStep,
     HandleLogoutRequestStep, HandleLogoutCancelStep, HandleMoveWorldportAckStep,
     HandleCharEnumStep, HandlePlayerLoginStep DEF Handle
<1>5. CASE Readd \/ ProcessQueryCallbacks \/ LogoutNow \/ EndUpdate \/ TeleportTo
  BY <1>5, ReaddStep, ProcessQueryCallbacksStep, LogoutNowStep, EndUpdateStep,
     TeleportToStep
<1>6. CASE Gone \/ UNCHANGED vars
  BY <1>6, StutterStep DEF Gone
<1> QED BY <1>1, <1>2, <1>3, <1>4, <1>5, <1>6 DEF Next, Work

\* and so it always holds.
LEMMA InvariantHolds == Spec => []PacketInv
<1> QED BY InitHolds, StepHolds, PTL DEF Spec

\* In-world packets are handled in the order they were sent: putting a packet
\* back in front of _recvQueue, and the turns of the two filters, change no order.
THEOREM PacketsInOrder == Spec => []InOrder
<1>1. PacketInv => InOrder
  <2> SUFFICES ASSUME PacketInv PROVE InOrder
    OBVIOUS
  <2>1. TypeOK /\ Line \in Seq(PacketSet)
    BY LineIs DEF PacketInv
  <2>2. DOMAIN Line = 1..Len(Line)
    BY <2>1, LenProperties
  <2>3. ASSUME NEW i \in 1..Len(Line), NEW j \in 1..Len(Line), i < j,
               {Status(Line[i].kind), Status(Line[j].kind)} = {"LOGGEDIN"}
        PROVE  \/ Line[i].login < Line[j].login
               \/ Line[i].login = Line[j].login /\ Line[i].num < Line[j].num
    <3>1. Status(Line[i].kind) = "LOGGEDIN" /\ Status(Line[j].kind) = "LOGGEDIN"
      BY <2>3
    <3>2. /\ Line[i] \in PacketSet /\ Line[j] \in PacketSet
          /\ Line[i].login \in Nat /\ Line[j].login \in Nat
      BY <2>1, NumbersAre
    <3>3. InWorld(Line[i]) /\ InWorld(Line[j])
      BY <3>1, <3>2, PacketFields, KindsAre DEF InWorld
    <3>4. Before(Line[i], Line[j])
      BY <2>3 DEF PacketInv, Sorted
    <3> QED BY <3>2, <3>3, <3>4 DEF Before
  <2> QED BY <2>1, <2>2, <2>3 DEF InOrder
<1> QED BY <1>1, InvariantHolds, PTL

\* Only the rounds of the loop take packets.
LEMMA OnlyHandleTakes ==
    ASSUME [Next]_vars, last' # last
    PROVE  /\ Handle /\ More
           /\ \E what \in {"kept", "dropped", "refused", "handled"} :
                 Take(what) /\ last'.what = what
           /\ last'.kind = Head(recvQueue).kind /\ last'.login = Head(recvQueue).login
<1>1. Handle
  BY DEF Next, vars, ClientLogin, ClientAck, ClientLoggedOut, SocketClosed,
         LoginQueryReady, ClientPlays, StartUpdate, Work, Readd, ProcessQueryCallbacks,
         LogoutNow, EndUpdate, TeleportTo, Gone
<1>2. /\ More
      /\ \E what \in {"kept", "dropped", "refused", "handled"} : Take(what)
  BY <1>1 DEF Handle, Requeue, Drop, RefuseFlood, HandlePacket, HandleLogoutRequest,
              HandleLogoutCancel, HandleMoveWorldportAck, HandleCharEnum,
              HandlePlayerLogin
<1>3. PICK what \in {"kept", "dropped", "refused", "handled"} : Take(what)
  BY <1>2
<1>4. /\ last'.what = what /\ last'.kind = Head(recvQueue).kind
      /\ last'.login = Head(recvQueue).login
  BY <1>3 DEF Take
<1> QED BY <1>1, <1>2, <1>3, <1>4

\* A packet is handled for the character it was sent for: when there is a player,
\* the line holds packets of his login only.
THEOREM PacketsNotStale == Spec => NoStalePacket
<1>1. ASSUME PacketInv, [Next]_vars, last' # last, player # "none",
             Status(last'.kind) # "AUTHED"
      PROVE  last'.login = who
  <2>1. More /\ last'.login = Head(recvQueue).login
    BY <1>1, OnlyHandleTakes
  <2>2. /\ who <= Head(recvQueue).login /\ Head(recvQueue).login <= login
        /\ Head(recvQueue).login \in Nat /\ who \in Nat
    BY <1>1, <2>1, AtFront, PacketFields
  <2>3. login = who
    BY <1>1, PlayerIsThere
  <2> QED BY <2>1, <2>2, <2>3
<1>2. PacketInv /\ [Next]_vars =>
        [last' # last /\ last'.what = "handled" /\ Status(last'.kind) # "AUTHED"
           /\ player # "none" => last'.login = who]_vars
  BY <1>1
<1> QED BY <1>2, InvariantHolds, PTL DEF Spec, NoStalePacket

\* A packet that comes before its player is not dropped: what is dropped while
\* nobody is in the world is for the player who has just logged out.
THEOREM EarlyPacketsKept == Spec => EagerPacketsKept
<1>1. ASSUME PacketInv, [Next]_vars, last' # last, last'.what = "dropped",
             Status(last'.kind) = "LOGGEDIN", player # "out"
      PROVE  last'.login = who /\ ~loading
  <2>1. /\ More /\ last'.kind = Head(recvQueue).kind
        /\ last'.login = Head(recvQueue).login
    BY <1>1, OnlyHandleTakes
  <2>2. Drop
    <3>1. PICK what \in {"kept", "dropped", "refused", "handled"} :
             Take(what) /\ last'.what = what
      BY <1>1, OnlyHandleTakes
    <3>2. Handle
      BY <1>1, OnlyHandleTakes
    <3>3. \A w \in {"kept", "refused", "handled"} : ~Take(w)
      BY <1>1 DEF Take
    <3> QED BY <3>2, <3>3 DEF Handle, Requeue, RefuseFlood, HandlePacket,
                HandleLogoutRequest, HandleLogoutCancel, HandleMoveWorldportAck,
                HandleCharEnum, HandlePlayerLogin
  <2>3. player = "none" /\ recentlyLogout
    <3>1. ~Keeps(Head(recvQueue).kind) /\ ~Accepts(Head(recvQueue).kind)
      BY <2>2 DEF Drop
    <3>2. player # "in"
      BY <3>1, <1>1, <2>1 DEF Accepts
    <3>3. player = "none"
      BY <3>2, <1>1 DEF PacketInv, TypeOK
    <3> QED BY <3>1, <3>3, <1>1, <2>1 DEF Keeps
  <2>4. ~loading
    BY <1>1, <2>3 DEF PacketInv, Phases
  <2>5. /\ who <= Head(recvQueue).login /\ Head(recvQueue).login <= login
        /\ Head(recvQueue).login \in Nat /\ who \in Nat /\ login \in Nat
        /\ Head(recvQueue) \in PacketSet /\ Line[Len(requeue) + 1] = Head(recvQueue)
        /\ Len(requeue) + 1 \in 1..Len(Line)
    BY <1>1, <2>1, AtFront, PacketFields
  <2>6. CASE login # who
    <3>1. PICK j \in 1..Len(Line) : Line[j].kind = "enum" /\ Line[j].login = login
      BY <1>1, <2>3, <2>6 DEF PacketInv, Ahead
    <3>2. requeue = <<>> /\ login = who + 1
      BY <1>1, <2>3, <2>6 DEF PacketInv, Keeping, Ahead
    <3>3. Len(requeue) = 0 /\ Line[1] = Head(recvQueue) /\ 1 \in 1..Len(Line)
      BY <3>2, <2>5
    <3>4. Head(recvQueue).kind # "enum"
      BY <1>1, <2>1 DEF Status
    <3>5. 1 < j
      BY <3>1, <3>3, <3>4
    <3>6. Before(Line[1], Line[j])
      BY <1>1, <3>3, <3>5 DEF PacketInv, Sorted
    <3>7. Head(recvQueue).login < login
      BY <3>1, <3>3, <3>6 DEF Before
    <3> QED BY <2>1, <2>4, <2>5, <3>2, <3>7
  <2>7. CASE login = who
    BY <2>1, <2>4, <2>5, <2>7
  <2> QED BY <2>6, <2>7
<1>2. PacketInv /\ [Next]_vars =>
        [last' # last /\ last'.what = "dropped" /\ Status(last'.kind) = "LOGGEDIN"
           => player = "out" \/ (last'.login = who /\ ~loading)]_vars
  BY <1>1
<1> QED BY <1>2, InvariantHolds, PTL DEF Spec, EagerPacketsKept

=============================================================================
